------------------------- MODULE RuleCatalogueProofs -------------------------
(***************************************************************************)
(* Proofs about RuleCatalogue, for any number of requests and codes and    *)
(* any pool.  The inductive invariant is RulesInv.  Its heart is the       *)
(* argument that makes a stale read harmless: an Update that gets through  *)
(* InsertVersion holds the lock of every active row of its code, and the   *)
(* version after the one it read does not exist; as the versions of a code *)
(* have no gap, the one it read is the last, which is the active one.      *)
(***************************************************************************)
EXTENDS RuleCatalogue, SequenceTheorems, TLAPS

USE DEF InTx, Statements, Answers

-----------------------------------------------------------------------------
(* Versions of a code.                                                     *)

\* Membership in the two sets of versions.
LEMMA VersionsDef ==
    /\ \A c, k : k \in Versions(c) <=>
                   \E w \in fine_rules : w.code = c /\ w.version = k
    /\ \A c, k : k \in ActiveVersions(c) <=>
                   \E w \in fine_rules : /\ w.code = c /\ w.active
                                         /\ w.version = k
  BY DEF Versions, ActiveVersions

\* Versions count from 1, and the active ones are versions.
LEMMA VersionsTyped ==
    ASSUME WritersOK, NEW c
    PROVE  /\ Versions(c) \subseteq Nat \ {0}
           /\ ActiveVersions(c) \subseteq Versions(c)
  BY DEF WritersOK, Row, Versions, ActiveVersions

\* A version whose successor does not exist is the only active one.
LEMMA LastIsActive ==
    ASSUME WritersOK, OneHistoryPerCode, NEW c \in Codes, NEW k \in Versions(c),
           k + 1 \notin Versions(c)
    PROVE  /\ ActiveVersions(c) = {k}
           /\ \A j \in Versions(c) : j <= k
  <1>1. PICK w \in fine_rules : w.code = c /\ w.version = k
    BY VersionsDef
  <1>2. k \in Nat \ {0} /\ Versions(c) \subseteq Nat \ {0}
    BY VersionsTyped
  <1>3. \A j \in Versions(c) : j <= k
    <2> SUFFICES ASSUME NEW j \in Versions(c), j > k PROVE FALSE
      BY <1>2
    <2>1. PICK x \in fine_rules : x.code = c /\ x.version = j
      BY VersionsDef
    <2>2. \A i \in 1..j : i \in Versions(c)
      BY <2>1 DEF OneHistoryPerCode
    <2> QED
      BY <1>2, <2>2
  <1>4. w.active
    BY <1>1, <1>3 DEF OneHistoryPerCode
  <1>5. k \in ActiveVersions(c)
    BY <1>1, <1>4, VersionsDef
  <1>6. ASSUME NEW j \in ActiveVersions(c) PROVE j = k
    <2>1. PICK x \in fine_rules : x.code = c /\ x.active /\ x.version = j
      BY VersionsDef
    <2>2. k <= j
      BY <2>1 DEF OneHistoryPerCode
    <2>3. j \in Versions(c)
      BY <2>1, VersionsDef
    <2> QED
      BY <1>2, <1>3, <2>2, <2>3
  <1> QED
    BY <1>3, <1>5, <1>6

\* A code without version 1 has no version at all.
LEMMA NoFirstNoVersion ==
    ASSUME WritersOK, OneHistoryPerCode, NEW c \in Codes, 1 \notin Versions(c)
    PROVE  Versions(c) = {}
  <1> SUFFICES ASSUME NEW k \in Versions(c) PROVE FALSE
    OBVIOUS
  <1>1. PICK x \in fine_rules : x.code = c /\ x.version = k
    BY VersionsDef
  <1>2. k \in Nat \ {0}
    BY VersionsTyped
  <1> QED
    BY <1>1, <1>2 DEF OneHistoryPerCode

-----------------------------------------------------------------------------
(* What a step leaves alone of request q.                                  *)

Same(q) ==
    /\ pc'[q] = pc[q] /\ answer'[q] = answer[q]
    /\ read'[q] = read[q] /\ locked'[q] = locked[q]
    /\ q \in DOMAIN input' <=> q \in DOMAIN input
    /\ q \in DOMAIN input => input'[q] = input[q]
    /\ q \in open' <=> q \in open
    /\ q \in orphans' => q \in orphans

\* A request that no step touches stays coherent while the table does.
LEMMA Frame ==
    ASSUME WritersOK, NEW q \in Requests, Coherent(q), Same(q),
           UNCHANGED fine_rules
    PROVE  Coherent(q)'
  <1>1. \A c : Versions(c)' = Versions(c) /\ ActiveVersions(c)' = ActiveVersions(c)
    BY DEF Versions, ActiveVersions
  <1>2. pc[q] # "idle" => q \in DOMAIN input /\ Code(q)' = Code(q)
    BY DEF Coherent, Same, Code
  <1>3. Live(q)' <=> Live(q)
    BY DEF Same, Live
  <1>4. answer[q] \in {"200", "201"} => pc[q] # "idle"
    BY DEF Coherent
  <1>5. answer[q] \in {"200", "201"} => Published(q)'
    BY <1>2, <1>4 DEF Coherent, Same, Published
  <1>6. q \in open => /\ pc[q] # "idle"
                      /\ locked'[q] \subseteq ActiveVersions(Code(q))'
    BY <1>1, <1>2 DEF WritersOK, Coherent, Same
  <1>7. q \in open /\ pc[q] = "Commit" =>
          /\ ActiveVersions(Code(q))' \subseteq locked'[q]
          /\ read'[q] \in locked'[q]
          /\ read'[q] + 1 \notin Versions(Code(q))'
    BY <1>1, <1>2 DEF Coherent, Same
  <1>8. pc[q] \in InTx \cup {"Begin"} => read'[q] \in Versions(Code(q))'
    BY <1>1, <1>2 DEF Coherent, Same
  <1>9. \A w \in fine_rules' : w.id = q =>
          /\ pc'[q] \in {"Insert", "Commit"}
          /\ ~Live(q)' /\ q \notin open' \cup orphans'
    BY <1>3 DEF Coherent, Same
  <1> QED
    BY <1>2, <1>3, <1>5, <1>6, <1>7, <1>8, <1>9 DEF Coherent, Same

\* A step of r that publishes nothing and takes no lock.
LEMMA Quiet ==
    ASSUME RulesInv, NEW r \in Requests, UNCHANGED fine_rules,
           WritersOK', Coherent(r)', \A q \in Requests \ {r} : Same(q),
           r \in open' => \/ locked'[r] = {}
                          \/ /\ r \in open /\ locked'[r] = locked[r]
                             /\ input'[r] = input[r]
    PROVE  RulesInv'
  <1>1. \A q \in Requests \ {r} : Coherent(q)'
    BY Frame DEF RulesInv
  <1>2. \A q \in Requests \ {r} : q \in open => Code(q)' = Code(q)
    BY DEF RulesInv, WritersOK, Coherent, Same, Code
  <1>3. OneHistoryPerCode'
    BY DEF RulesInv, OneHistoryPerCode, Versions
  <1>4. LocksDisjoint'
    BY <1>2 DEF RulesInv, LocksDisjoint, Same, Code, WritersOK
  <1> QED
    BY <1>1, <1>3, <1>4 DEF RulesInv

-----------------------------------------------------------------------------
(* The steps.                                                              *)

\* A request that arrives keeps the invariant.
LEMMA ReceiveStep ==
    ASSUME RulesInv, NEW r \in Requests, NEW role \in {"officer", "member"},
           NEW kind \in {"Create", "Update"}, NEW c \in Codes,
           NEW a \in Amounts, NEW valid \in BOOLEAN,
           Receive(r, role, kind, c, a, valid)
    PROVE  RulesInv'
  <1> USE DEF Receive, tx
  <1>1. WritersOK /\ Coherent(r) /\ r \notin DOMAIN input /\ r \notin open
    BY DEF RulesInv, Coherent, WritersOK
  <1>2. WritersOK'
    BY <1>1 DEF WritersOK, InputRow
  <1>3. \A q \in Requests \ {r} : Same(q)
    BY <1>1 DEF WritersOK, Same
  <1>4. Coherent(r)'
    BY <1>1 DEF Coherent, Live, WritersOK
  <1> QED
    BY <1>1, <1>2, <1>3, <1>4, Quiet

\* The version read exists: rows are never deleted.
LEMMA GetActiveStep ==
    ASSUME RulesInv, NEW r \in Requests, GetActive(r)
    PROVE  RulesInv'
  <1> USE DEF GetActive, At
  <1>1. /\ WritersOK /\ Coherent(r) /\ r \notin open /\ r \notin orphans
        /\ pc[r] = "GetActive" /\ answer[r] = "none" /\ read[r] = 0
        /\ r \in DOMAIN input
    BY DEF RulesInv, Coherent, WritersOK
  <1>2. \/ /\ UNCHANGED read
           /\ Respond(r, "404") \/ Respond(r, "409") \/ Goto(r, "Insert")
        \/ \E v \in ActiveVersions(Code(r)) :
              read' = [read EXCEPT ![r] = v] /\ Goto(r, "Begin")
    OBVIOUS
  <1>3. /\ ActiveVersions(Code(r)) \subseteq Nat \ {0}
        /\ ActiveVersions(Code(r)) \subseteq Versions(Code(r))
    BY <1>1, VersionsTyped
  <1>4. WritersOK'
    BY <1>1, <1>2, <1>3 DEF WritersOK, Goto, Respond
  <1>5. \A q \in Requests \ {r} : Same(q)
    BY <1>1, <1>2 DEF WritersOK, Same, Goto, Respond
  <1>6. /\ Versions(Code(r))' = Versions(Code(r))
        /\ \A w \in fine_rules' : w.id # r
        /\ answer'[r] \notin {"200", "201"}
    BY <1>1, <1>2 DEF Versions, Code, Coherent, Goto, Respond, WritersOK
  <1>7. Coherent(r)'
    <2>1. CASE /\ UNCHANGED read
               /\ Respond(r, "404") \/ Respond(r, "409")
      BY <1>1, <1>6, <2>1 DEF Coherent, Live, Respond, WritersOK
    <2>2. CASE UNCHANGED read /\ Goto(r, "Insert")
      BY <1>1, <1>6, <2>2 DEF Coherent, Live, Goto, WritersOK
    <2>3. CASE \E v \in ActiveVersions(Code(r)) :
                  read' = [read EXCEPT ![r] = v] /\ Goto(r, "Begin")
      <3>1. read'[r] \in Versions(Code(r)) /\ pc'[r] = "Begin"
        BY <1>1, <1>3, <2>3 DEF Goto, WritersOK
      <3>2. locked[r] = {}
        BY <1>1 DEF Coherent
      <3> QED
        BY <1>1, <1>6, <2>3, <3>1, <3>2 DEF Coherent, Live, Goto
    <2> QED
      BY <1>2, <2>1, <2>2, <2>3
  <1> QED
    BY <1>1, <1>4, <1>5, <1>7, Quiet

\* A transaction begins without locks.
LEMMA BeginStep ==
    ASSUME RulesInv, NEW r \in Requests, Begin(r)
    PROVE  RulesInv'
  <1> USE DEF Begin, At
  <1>1. /\ WritersOK /\ Coherent(r) /\ r \in DOMAIN input
        /\ pc[r] = "Begin" /\ answer[r] = "none" /\ r \notin open
        /\ r \notin orphans /\ locked[r] = {}
    BY DEF RulesInv, Coherent, WritersOK
  <1>2. WritersOK'
    BY <1>1 DEF WritersOK, Goto
  <1>3. \A q \in Requests \ {r} : Same(q)
    BY <1>1 DEF WritersOK, Same, Goto
  <1>4. /\ Versions(Code(r))' = Versions(Code(r)) /\ pc'[r] = "Deactivate"
        /\ \A w \in fine_rules' : w.id # r
    BY <1>1 DEF Versions, Code, Goto, WritersOK, Coherent
  <1>5. Coherent(r)'
    BY <1>1, <1>4 DEF Coherent, Live, Goto
  <1> QED
    BY <1>1, <1>2, <1>3, <1>5, Quiet

\* The UPDATE has picked rows of its code and locked none yet.
LEMMA DeactivateStep ==
    ASSUME RulesInv, NEW r \in Requests, Deactivate(r)
    PROVE  RulesInv'
  <1> USE DEF Deactivate, At
  <1>1. /\ WritersOK /\ Coherent(r) /\ r \in DOMAIN input
        /\ pc[r] = "Deactivate" /\ answer[r] = "none" /\ r \in open
        /\ r \notin orphans /\ locked[r] = {}
    BY DEF RulesInv, Coherent, WritersOK, Live
  <1>2. WritersOK'
    BY <1>1, VersionsTyped DEF WritersOK, Goto
  <1>3. \A q \in Requests \ {r} : Same(q)
    BY <1>1 DEF WritersOK, Same, Goto
  <1>4. /\ Versions(Code(r))' = Versions(Code(r)) /\ pc'[r] = "LockRow"
        /\ \A w \in fine_rules' : w.id # r
    BY <1>1 DEF Versions, Code, Goto, WritersOK, Coherent
  <1>5. Coherent(r)'
    BY <1>1, <1>4 DEF Coherent, Live, Goto
  <1> QED
    BY <1>1, <1>2, <1>3, <1>5, Quiet

\* A lock is taken only when no other transaction has it.
LEMMA LockRowStep ==
    ASSUME RulesInv, NEW r \in Requests, LockRow(r)
    PROVE  RulesInv'
  <1> USE DEF LockRow, At
  <1>1. /\ WritersOK /\ Coherent(r) /\ r \in DOMAIN input
        /\ pc[r] = "LockRow" /\ answer[r] = "none" /\ r \in open
        /\ r \notin orphans
    BY DEF RulesInv, Coherent, WritersOK, Live
  <1>2. locked'[r] = target[r] \cap ActiveVersions(Code(r)) /\ pc'[r] = "InsertVersion"
    BY <1>1 DEF WritersOK, Goto
  <1>3. WritersOK'
    BY <1>1, VersionsTyped DEF WritersOK, Goto
  <1>4. \A q \in Requests \ {r} : Same(q)
    BY <1>1 DEF WritersOK, Same, Goto
  <1>5. /\ Versions(Code(r))' = Versions(Code(r))
        /\ ActiveVersions(Code(r))' = ActiveVersions(Code(r))
        /\ \A w \in fine_rules' : w.id # r
    BY <1>1 DEF Versions, ActiveVersions, Code, WritersOK, Coherent
  <1>6. Coherent(r)'
    BY <1>1, <1>2, <1>5 DEF Coherent, Live, Goto
  <1>7. \A q \in Requests \ {r} : Coherent(q)'
    BY <1>1, <1>4, Frame DEF RulesInv
  <1>8. OneHistoryPerCode'
    BY DEF RulesInv, OneHistoryPerCode, Versions
  <1>9. LocksDisjoint'
    <2>1. \A q \in open \ {r} : Code(q) = Code(r) => locked[q] \cap target[r] = {}
      BY <1>1 DEF WaitsFor, Holds, WritersOK
    <2>2. \A q \in open : Code(q)' = Code(q)
      BY DEF Code
    <2>3. \A q \in open \ {r} : locked'[q] = locked[q]
      BY <1>1, <1>4 DEF Same, WritersOK
    <2> QED
      BY <1>1, <1>2, <2>1, <2>2, <2>3 DEF RulesInv, LocksDisjoint
  <1> QED
    BY <1>3, <1>6, <1>7, <1>8, <1>9 DEF RulesInv

\* A transaction passes its insert only if it holds the active row
\* and the next version does not exist.
LEMMA InsertVersionStep ==
    ASSUME RulesInv, NEW r \in Requests, InsertVersion(r)
    PROVE  RulesInv'
  <1> USE DEF InsertVersion, At
  <1>1. /\ WritersOK /\ OneHistoryPerCode /\ Coherent(r) /\ r \in DOMAIN input
        /\ pc[r] = "InsertVersion" /\ answer[r] = "none" /\ r \in open
        /\ r \notin orphans /\ Code(r) \in Codes
        /\ read[r] \in Versions(Code(r))
        /\ locked[r] \subseteq ActiveVersions(Code(r))
    BY DEF RulesInv, Coherent, WritersOK, Live, Code, InputRow
  <1>2. \A q \in Requests \ {r} : Same(q)
    BY <1>1 DEF WritersOK, Same, Goto, Respond
  <1>3. /\ Versions(Code(r))' = Versions(Code(r))
        /\ ActiveVersions(Code(r))' = ActiveVersions(Code(r))
        /\ \A w \in fine_rules' : w.id # r
    BY <1>1 DEF Versions, ActiveVersions, Code, WritersOK, Coherent
  <1>4. WritersOK'
    BY <1>1 DEF WritersOK, Goto, Respond
  <1>5. CASE VersionClash(r)
    <2>1. answer'[r] = "500" /\ pc'[r] = "InsertVersion" /\ r \notin open'
      BY <1>1, <1>5 DEF Respond, WritersOK
    <2>2. Coherent(r)'
      BY <1>1, <1>3, <2>1 DEF Coherent, Live
    <2> QED
      BY <1>1, <1>2, <1>4, <2>1, <2>2, Quiet
  <1>6. CASE ~VersionClash(r)
    <2>1. answer'[r] = "none" /\ pc'[r] = "Commit" /\ UNCHANGED open
      BY <1>1, <1>6 DEF Goto, WritersOK
    <2>2. /\ read[r] + 1 \notin Versions(Code(r))
          /\ ActiveVersions(Code(r)) \subseteq locked[r]
      BY <1>6 DEF VersionClash
    <2>3. read[r] \in locked[r]
      BY <1>1, <2>2, LastIsActive
    <2>4. Coherent(r)'
      BY <1>1, <1>3, <2>1, <2>2, <2>3 DEF Coherent, Live
    <2> QED
      BY <1>1, <1>2, <1>4, <2>1, <2>4, Quiet
  <1> QED
    BY <1>5, <1>6

\* A failed statement ends its request, with its transaction or not.
LEMMA StatementFailsStep ==
    ASSUME RulesInv, NEW r \in Requests, StatementFails(r)
    PROVE  RulesInv'
  <1> USE DEF StatementFails
  <1>1. /\ WritersOK /\ Coherent(r) /\ Live(r) /\ r \in DOMAIN input
        /\ \A w \in fine_rules : w.id # r
    BY DEF RulesInv, Coherent, Live
  <1>2. WritersOK'
    BY <1>1 DEF WritersOK, Respond
  <1>3. \A q \in Requests \ {r} : Same(q)
    BY <1>1 DEF WritersOK, Same, Respond
  <1>4. /\ answer'[r] = "500" /\ pc'[r] = pc[r]
        /\ r \in open' => r \in open
        /\ Versions(Code(r))' = Versions(Code(r))
        /\ ActiveVersions(Code(r))' = ActiveVersions(Code(r))
    BY <1>1 DEF Versions, ActiveVersions, Code, WritersOK, Respond
  <1>5. ~Live(r)' /\ \A w \in fine_rules' : w.id # r
    BY <1>1, <1>4 DEF Live
  <1>6. Coherent(r)'
    BY <1>1, <1>4, <1>5 DEF Coherent, Live
  <1> QED
    BY <1>1, <1>2, <1>3, <1>4, <1>6, Quiet

\* A crash leaves every open transaction to the server.
LEMMA CrashStep ==
    ASSUME RulesInv, Crash
    PROVE  RulesInv'
  <1> USE DEF Crash, tx
  <1>1. WritersOK
    BY DEF RulesInv
  <1>2. WritersOK'
    BY <1>1 DEF WritersOK, At
  <1>3. OneHistoryPerCode' /\ LocksDisjoint'
    BY DEF RulesInv, OneHistoryPerCode, LocksDisjoint, Versions, Code
  <1>4. ASSUME NEW q \in Requests PROVE Coherent(q)'
    <2>1. Coherent(q)
      BY DEF RulesInv
    <2>2. /\ answer'[q] = IF Live(q) THEN "lost" ELSE answer[q]
          /\ q \in orphans' => q \in orphans \/ Live(q)
      BY DEF Live, At
    <2>3. /\ Versions(Code(q))' = Versions(Code(q))
          /\ ActiveVersions(Code(q))' = ActiveVersions(Code(q))
          /\ Published(q)' <=> Published(q)
      BY DEF Versions, ActiveVersions, Code, Published
    <2>4. ~Live(q)'
      BY <2>2 DEF Live
    <2> QED
      BY <2>1, <2>2, <2>3, <2>4 DEF Coherent, Live
  <1> QED
    BY <1>2, <1>3, <1>4 DEF RulesInv

-----------------------------------------------------------------------------
(* Publishing a version.                                                   *)

\* What the table holds once version new of code c is published and the
\* versions L of c are deactivated.
After(c, L, w) == IF w.code = c /\ w.version \in L
                    THEN [w EXCEPT !.active = FALSE] ELSE w

Publishes(c, L, new) ==
    /\ new \in Row /\ new.code = c /\ new.active
    /\ ActiveVersions(c) \subseteq L
    /\ \A j \in Versions(c) : j < new.version
    /\ \A k \in 1..new.version : k = new.version \/ k \in Versions(c)
    /\ fine_rules' = {After(c, L, w) : w \in fine_rules} \cup {new}

\* What a commit does to one row.
LEMMA AfterRow ==
    ASSUME WritersOK, NEW c \in Codes, NEW L, ActiveVersions(c) \subseteq L,
           NEW w \in fine_rules, NEW x, x = After(c, L, w)
    PROVE  /\ x \in Row
           /\ x.id = w.id /\ x.code = w.code /\ x.version = w.version
           /\ x.amount = w.amount
           /\ x.active = (w.active /\ w.code # c)
  <1>1. w \in Row
    BY DEF WritersOK
  <1>2. w.code = c /\ w.active => w.version \in L
    BY VersionsDef
  <1>3. CASE w.code = c /\ w.version \in L
    BY <1>1, <1>3 DEF After, Row
  <1>4. CASE ~(w.code = c /\ w.version \in L)
    <2>1. x = w
      BY <1>4 DEF After
    <2>2. w.active = (w.active /\ w.code # c)
      BY <1>1, <1>2, <1>4 DEF Row
    <2> QED
      BY <1>1, <2>1, <2>2
  <1> QED
    BY <1>3, <1>4

\* The rows afterwards are the rows before, those of c inactive, and new.
LEMMA PublishedRows ==
    ASSUME WritersOK, NEW c \in Codes, NEW L, NEW new, Publishes(c, L, new)
    PROVE  /\ fine_rules' \subseteq Row
           /\ new \in fine_rules'
           /\ \A w \in fine_rules : \E x \in fine_rules' :
                 /\ x.id = w.id /\ x.code = w.code /\ x.version = w.version
                 /\ x.amount = w.amount
                 /\ x.active = (w.active /\ w.code # c)
           /\ \A x \in fine_rules' : x = new \/ \E w \in fine_rules :
                 /\ x = After(c, L, w)
                 /\ x.id = w.id /\ x.code = w.code /\ x.version = w.version
                 /\ x.amount = w.amount
                 /\ x.active = (w.active /\ w.code # c)
  <1>1. ASSUME NEW w \in fine_rules
        PROVE  /\ After(c, L, w) \in fine_rules'
               /\ After(c, L, w) \in Row
               /\ After(c, L, w).id = w.id
               /\ After(c, L, w).code = w.code
               /\ After(c, L, w).version = w.version
               /\ After(c, L, w).amount = w.amount
               /\ After(c, L, w).active = (w.active /\ w.code # c)
    BY AfterRow DEF Publishes
  <1>2. new \in fine_rules' /\ new \in Row
    BY DEF Publishes
  <1>3. \A x \in fine_rules' : x = new \/ \E w \in fine_rules : x = After(c, L, w)
    BY DEF Publishes
  <1> QED
    BY <1>1, <1>2, <1>3

\* What a published version does to the versions of each code.
LEMMA PublishedVersions ==
    ASSUME WritersOK, NEW c \in Codes, NEW L, NEW new, Publishes(c, L, new)
    PROVE  /\ Versions(c)' = Versions(c) \cup {new.version}
           /\ ActiveVersions(c)' = {new.version}
           /\ \A d \in Codes \ {c} : /\ Versions(d)' = Versions(d)
                                     /\ ActiveVersions(d)' = ActiveVersions(d)
  <1>1. \A d, k : k \in Versions(d)' <=>
                     \E w \in fine_rules' : w.code = d /\ w.version = k
    BY DEF Versions
  <1>2. \A d, k : k \in ActiveVersions(d)' <=>
                     \E w \in fine_rules' : /\ w.code = d /\ w.active
                                            /\ w.version = k
    BY DEF ActiveVersions
  <1>3. new.code = c /\ new.active
    BY DEF Publishes
  <1>4. ASSUME NEW d, NEW k
        PROVE  k \in Versions(d)' <=>
                  k \in Versions(d) \/ (d = c /\ k = new.version)
    BY <1>1, <1>3, VersionsDef, PublishedRows
  <1>5. ASSUME NEW d, NEW k
        PROVE  k \in ActiveVersions(d)' <=>
                  \/ k \in ActiveVersions(d) /\ d # c
                  \/ d = c /\ k = new.version
    <2>1. ASSUME k \in ActiveVersions(d)', ~(d = c /\ k = new.version)
          PROVE  k \in ActiveVersions(d) /\ d # c
      <3>1. PICK x \in fine_rules' : x.code = d /\ x.active /\ x.version = k
        BY <1>2, <2>1
      <3>2. x # new
        BY <1>3, <2>1, <3>1
      <3>3. PICK w \in fine_rules :
               /\ x.code = w.code /\ x.version = w.version
               /\ x.active = (w.active /\ w.code # c)
        BY <3>2, PublishedRows
      <3>4. w.code = d /\ w.version = k /\ w.active /\ d # c
        BY <3>1, <3>3
      <3> QED
        BY <3>4, VersionsDef
    <2>2. ASSUME k \in ActiveVersions(d), d # c
          PROVE  k \in ActiveVersions(d)'
      <3>1. PICK w \in fine_rules : w.code = d /\ w.active /\ w.version = k
        BY <2>2, VersionsDef
      <3>2. PICK x \in fine_rules' :
               /\ x.code = w.code /\ x.version = w.version
               /\ x.active = (w.active /\ w.code # c)
        BY PublishedRows
      <3>3. x.code = d /\ x.version = k /\ x.active
        BY <2>2, <3>1, <3>2
      <3> QED
        BY <1>2, <3>3
    <2>3. d = c /\ k = new.version => k \in ActiveVersions(d)'
      BY <1>2, <1>3, PublishedRows
    <2> QED
      BY <2>1, <2>2, <2>3
  <1>6. Versions(c)' = Versions(c) \cup {new.version}
    BY <1>4
  <1>7. ActiveVersions(c)' = {new.version}
    BY <1>5
  <1>8. ASSUME NEW d \in Codes \ {c} PROVE Versions(d)' = Versions(d)
    BY <1>4
  <1>9. ASSUME NEW d \in Codes \ {c}
        PROVE  ActiveVersions(d)' = ActiveVersions(d)
    <2>1. \A k : k \in ActiveVersions(d)' <=> k \in ActiveVersions(d)
      BY <1>5
    <2> QED
      BY <2>1
  <1> QED
    BY <1>6, <1>7, <1>8, <1>9

\* A published version extends the history without a gap.
LEMMA PublishedHistory ==
    ASSUME WritersOK, OneHistoryPerCode, NEW c \in Codes, NEW L, NEW new,
           Publishes(c, L, new)
    PROVE  OneHistoryPerCode'
  <1>1. /\ Versions(c)' = Versions(c) \cup {new.version}
        /\ \A d \in Codes \ {c} : Versions(d)' = Versions(d)
    BY PublishedVersions
  <1>2. Versions(c) \subseteq Nat \ {0} /\ new.version \in Nat \ {0}
        /\ \A j \in Versions(c) : j < new.version
    BY VersionsTyped DEF Publishes, Row
  <1>3. new.code = c /\ new.active
    BY DEF Publishes
  <1>4. ASSUME NEW x \in fine_rules', NEW y \in fine_rules',
               x.code = y.code, x.code \in Codes, x.version = y.version
        PROVE  x = y
    <2>1. ASSUME NEW z \in fine_rules', z # new, z.code = c
          PROVE  z.version # new.version
      <3>1. z.version \in Versions(c)
        BY <2>1, PublishedRows, VersionsDef
      <3> QED
        BY <1>2, <3>1
    <2>2. CASE x # new /\ y # new
      BY <1>4, <2>2, PublishedRows DEF OneHistoryPerCode
    <2> QED
      BY <1>3, <1>4, <2>1, <2>2
  <1>5. ASSUME NEW x \in fine_rules', x.code \in Codes, NEW k \in 1..x.version
        PROVE  k \in Versions(x.code)'
    <2>1. CASE x = new
      BY <1>1, <1>3, <2>1 DEF Publishes
    <2>2. CASE x # new
      <3>1. PICK w \in fine_rules : x.code = w.code /\ x.version = w.version
        BY <2>2, PublishedRows
      <3>2. k \in Versions(w.code)
        BY <1>5, <3>1 DEF OneHistoryPerCode
      <3> QED
        BY <1>1, <1>5, <3>1, <3>2
    <2> QED
      BY <2>1, <2>2
  <1>6. ASSUME NEW d \in Codes, NEW x \in fine_rules', x.code = d
        PROVE  x.active <=> \A k \in Versions(d)' : k <= x.version
    <2>1. CASE x = new
      BY <1>1, <1>2, <1>3, <1>6, <2>1
    <2>2. CASE x # new
      <3>1. PICK w \in fine_rules :
               /\ x.code = w.code /\ x.version = w.version
               /\ x.active = (w.active /\ w.code # c)
        BY <2>2, PublishedRows
      <3>2. CASE d = c
        <4>1. w.version \in Versions(c)
          BY <1>6, <3>1, <3>2, VersionsDef
        <4>2. x.version < new.version /\ new.version \in Versions(c)'
          BY <1>1, <1>2, <3>1, <4>1
        <4>3. ~x.active
          BY <1>6, <3>1, <3>2
        <4> QED
          BY <1>2, <3>1, <3>2, <4>1, <4>2, <4>3
      <3>3. CASE d # c
        <4>1. w.active <=> \A k \in Versions(d) : k <= w.version
          BY <1>6, <3>1 DEF OneHistoryPerCode
        <4>2. Versions(d)' = Versions(d)
          BY <1>1, <3>3
        <4>3. x.active <=> w.active
          BY <1>6, <3>1, <3>3
        <4> QED
          BY <3>1, <4>1, <4>2, <4>3
      <3> QED
        BY <3>2, <3>3
    <2> QED
      BY <2>1, <2>2
  <1> QED
    BY <1>4, <1>5, <1>6 DEF OneHistoryPerCode

\* Nobody else holds a lock of the code r publishes, and nobody else is
\* about to commit to it.
Alone(r, c) ==
    \A q \in open \ {r} : Code(q) = c => locked[q] = {} /\ pc[q] # "Commit"

\* Nobody holds a row of a code that has no active one.
LEMMA AloneWithoutRow ==
    ASSUME RulesInv, NEW r \in Requests, NEW c, ActiveVersions(c) = {}
    PROVE  Alone(r, c)
  <1> SUFFICES ASSUME NEW q \in open \ {r}, Code(q) = c
               PROVE  locked[q] = {} /\ pc[q] # "Commit"
    BY DEF Alone
  <1>1. WritersOK /\ Coherent(q)
    BY DEF RulesInv, WritersOK
  <1>2. locked[q] = {}
    BY <1>1 DEF Coherent
  <1> QED
    BY <1>1, <1>2 DEF Coherent

\* A transaction that may commit holds the only active row.
LEMMA AloneAtCommit ==
    ASSUME RulesInv, NEW r \in open, pc[r] = "Commit"
    PROVE  Alone(r, Code(r))
  <1> SUFFICES ASSUME NEW q \in open \ {r}, Code(q) = Code(r)
               PROVE  locked[q] = {} /\ pc[q] # "Commit"
    BY DEF Alone
  <1>1. WritersOK /\ Coherent(q) /\ Coherent(r)
    BY DEF RulesInv, WritersOK
  <1>2. locked[q] \cap locked[r] = {}
    BY DEF RulesInv, LocksDisjoint
  <1>3. /\ locked[q] \subseteq ActiveVersions(Code(r))
        /\ ActiveVersions(Code(r)) \subseteq locked[r]
    BY <1>1 DEF Coherent
  <1>4. locked[q] = {}
    BY <1>2, <1>3
  <1> QED
    BY <1>1, <1>4 DEF Coherent

\* The others are still coherent after r publishes.
LEMMA PublishFrame ==
    ASSUME RulesInv, NEW r \in Requests, NEW q \in Requests \ {r}, Same(q),
           NEW c \in Codes, NEW L, NEW new, Publishes(c, L, new),
           new.id = r, Alone(r, c)
    PROVE  Coherent(q)'
  <1>1. WritersOK /\ Coherent(q)
    BY DEF RulesInv
  <1>2. pc[q] # "idle" => /\ q \in DOMAIN input /\ Code(q)' = Code(q)
                          /\ Code(q) \in Codes
    BY <1>1 DEF Coherent, Same, Code, WritersOK, InputRow
  <1>3. Live(q)' <=> Live(q)
    BY DEF Same, Live
  <1>4. \A d \in Codes : Versions(d) \subseteq Versions(d)'
    <2> SUFFICES ASSUME NEW d \in Codes PROVE Versions(d) \subseteq Versions(d)'
      OBVIOUS
    <2> QED
      BY <1>1, PublishedVersions
  <1>5. answer[q] \in {"200", "201"} => Published(q)'
    <2> SUFFICES ASSUME answer[q] \in {"200", "201"} PROVE Published(q)'
      OBVIOUS
    <2>1. pc[q] # "idle"
      BY <1>1 DEF Coherent
    <2>2. PICK w \in fine_rules :
             /\ w.id = q /\ w.code = Code(q)
             /\ w.amount = input[q].amount /\ w.version = read[q] + 1
      BY <1>1 DEF Coherent, Published
    <2>3. PICK x \in fine_rules' :
             /\ x.id = w.id /\ x.code = w.code /\ x.version = w.version
             /\ x.amount = w.amount
      BY <1>1, PublishedRows
    <2>4. input'[q] = input[q] /\ read'[q] = read[q]
      BY <1>2, <2>1 DEF Same
    <2> QED
      BY <1>2, <2>1, <2>2, <2>3, <2>4 DEF Published
  <1>6. ASSUME q \in open, Code(q) # c
        PROVE  /\ Versions(Code(q))' = Versions(Code(q))
               /\ ActiveVersions(Code(q))' = ActiveVersions(Code(q))
    <2>1. Code(q)' = Code(q) /\ Code(q) \in Codes \ {c}
      BY <1>1, <1>2, <1>6 DEF WritersOK
    <2>2. \A d \in Codes \ {c} : /\ Versions(d)' = Versions(d)
                                 /\ ActiveVersions(d)' = ActiveVersions(d)
      <3> SUFFICES ASSUME NEW d \in Codes \ {c}
                   PROVE  /\ Versions(d)' = Versions(d)
                          /\ ActiveVersions(d)' = ActiveVersions(d)
        OBVIOUS
      <3> QED
        BY <1>1, PublishedVersions
    <2>3. \A d : /\ Versions(d)' = {row.version : row \in {w \in fine_rules' : w.code = d}}
                 /\ ActiveVersions(d)' = {row.version : row \in {w \in fine_rules' : w.code = d /\ w.active}}
      BY DEF Versions, ActiveVersions
    <2> QED
      BY <2>1, <2>2, <2>3
  <1>7. q \in open' => locked'[q] \subseteq ActiveVersions(Code(q))'
    <2>1. CASE q \in open /\ Code(q) = c
      BY <2>1 DEF Alone, Same
    <2>2. CASE q \in open /\ Code(q) # c
      BY <1>1, <1>6, <2>2 DEF Coherent, Same
    <2> QED
      BY <2>1, <2>2 DEF Same
  <1>8. q \in open' /\ pc'[q] = "Commit" =>
          /\ ActiveVersions(Code(q))' \subseteq locked'[q]
          /\ read'[q] \in locked'[q]
          /\ read'[q] + 1 \notin Versions(Code(q))'
    <2>1. CASE q \in open /\ Code(q) = c
      BY <2>1 DEF Alone, Same
    <2>2. CASE q \in open /\ Code(q) # c
      BY <1>1, <1>6, <2>2 DEF Coherent, Same
    <2> QED
      BY <2>1, <2>2 DEF Same
  <1>9. pc'[q] \in InTx \cup {"Begin"} => read'[q] \in Versions(Code(q))'
    <2> SUFFICES ASSUME pc[q] \in InTx \cup {"Begin"}
                 PROVE  read[q] \in Versions(Code(q))'
      BY DEF Same
    <2>1. read[q] \in Versions(Code(q)) /\ Code(q) \in Codes /\ Code(q)' = Code(q)
      BY <1>1, <1>2 DEF Coherent
    <2>2. \A d \in Codes : read[q] \in Versions(d) =>
                             \E x \in fine_rules' : x.code = d /\ x.version = read[q]
      BY <1>4 DEF Versions
    <2> QED
      BY <2>1, <2>2 DEF Versions
  <1>10. \A w \in fine_rules' : w.id = q =>
          /\ pc'[q] \in {"Insert", "Commit"}
          /\ ~Live(q)' /\ q \notin open' \cup orphans'
    <2> SUFFICES ASSUME NEW x \in fine_rules', x.id = q
                 PROVE  /\ pc'[q] \in {"Insert", "Commit"}
                        /\ ~Live(q)' /\ q \notin open' \cup orphans'
      OBVIOUS
    <2>1. PICK w \in fine_rules : x.id = w.id
      BY <1>1, PublishedRows
    <2> QED
      BY <1>1, <1>3, <2>1 DEF Coherent, Same
  <1> QED
    BY <1>1, <1>2, <1>3, <1>5, <1>7, <1>8, <1>9, <1>10 DEF Coherent, Same

\* Publishing keeps the invariant.
LEMMA PublishStep ==
    ASSUME RulesInv, NEW r \in Requests, NEW c \in Codes, NEW L, NEW new,
           Publishes(c, L, new), new.id = r, Alone(r, c),
           \A q \in Requests \ {r} : Same(q),
           open' \subseteq open \ {r}, UNCHANGED <<input, locked>>,
           WritersOK', Coherent(r)'
    PROVE  RulesInv'
  <1>1. \A q \in Requests \ {r} : Coherent(q)'
    BY PublishFrame
  <1>2. OneHistoryPerCode'
    BY PublishedHistory DEF RulesInv
  <1>3. LocksDisjoint'
    BY DEF RulesInv, LocksDisjoint, Code
  <1> QED
    BY <1>1, <1>2, <1>3 DEF RulesInv

\* What a Create publishes: the first version of a code that has none.
LEMMA FirstVersion ==
    ASSUME RulesInv, NEW r \in Requests, pc[r] = "Insert", ~Clash(r),
           fine_rules' = fine_rules \cup {NewRow(r, 1)}
    PROVE  /\ Code(r) \in Codes
           /\ Publishes(Code(r), {}, NewRow(r, 1))
           /\ Alone(r, Code(r))
           /\ NewRow(r, 1).id = r
  <1>1. WritersOK /\ OneHistoryPerCode /\ Coherent(r)
    BY DEF RulesInv
  <1>2. r \in DOMAIN input /\ Code(r) \in Codes /\ input[r].amount \in Amounts
    BY <1>1 DEF Coherent, WritersOK, InputRow, Code
  <1>3. ActiveVersions(Code(r)) = {} /\ 1 \notin Versions(Code(r))
    BY DEF Clash
  <1>4. Versions(Code(r)) = {}
    BY <1>1, <1>2, <1>3, NoFirstNoVersion
  <1>5. /\ NewRow(r, 1) \in Row /\ NewRow(r, 1).code = Code(r)
        /\ NewRow(r, 1).active /\ NewRow(r, 1).version = 1
        /\ NewRow(r, 1).id = r
    BY <1>2 DEF NewRow, Row
  <1>6. fine_rules' = {After(Code(r), {}, w) : w \in fine_rules} \cup {NewRow(r, 1)}
    BY DEF After
  <1>7. Publishes(Code(r), {}, NewRow(r, 1))
    BY <1>3, <1>4, <1>5, <1>6 DEF Publishes
  <1> QED
    BY <1>2, <1>3, <1>5, <1>7, AloneWithoutRow

\* What an Update publishes: the version after the last.
LEMMA NextVersion ==
    ASSUME RulesInv, NEW r \in open, pc[r] = "Commit",
           fine_rules' = Committed(r)
    PROVE  /\ Code(r) \in Codes
           /\ Publishes(Code(r), locked[r], NewRow(r, read[r] + 1))
           /\ Alone(r, Code(r))
           /\ NewRow(r, read[r] + 1).id = r
  <1>1. WritersOK /\ OneHistoryPerCode /\ Coherent(r) /\ r \in Requests
    BY DEF RulesInv, WritersOK
  <1>2. /\ r \in DOMAIN input /\ Code(r) \in Codes
        /\ input[r].amount \in Amounts
    BY <1>1 DEF Coherent, WritersOK, InputRow, Code
  <1>3. /\ ActiveVersions(Code(r)) \subseteq locked[r]
        /\ read[r] \in Versions(Code(r)) /\ read[r] + 1 \notin Versions(Code(r))
    BY <1>1 DEF Coherent
  <1>4. \A j \in Versions(Code(r)) : j <= read[r]
    BY <1>1, <1>2, <1>3, LastIsActive
  <1>5. read[r] \in Nat \ {0} /\ Versions(Code(r)) \subseteq Nat \ {0}
    BY <1>1, <1>3, VersionsTyped
  <1>6. /\ NewRow(r, read[r] + 1) \in Row
        /\ NewRow(r, read[r] + 1).code = Code(r)
        /\ NewRow(r, read[r] + 1).active
        /\ NewRow(r, read[r] + 1).version = read[r] + 1
        /\ NewRow(r, read[r] + 1).id = r
    BY <1>1, <1>2, <1>5 DEF NewRow, Row
  <1>7. \A k \in 1..read[r] : k \in Versions(Code(r))
    <2>1. PICK w \in fine_rules : w.code = Code(r) /\ w.version = read[r]
      BY <1>3, VersionsDef
    <2> QED
      BY <1>1, <1>2, <2>1 DEF OneHistoryPerCode
  <1>8. \A k \in 1..(read[r] + 1) : k = read[r] + 1 \/ k \in Versions(Code(r))
    BY <1>5, <1>7
  <1>9. \A j \in Versions(Code(r)) : j < read[r] + 1
    BY <1>4, <1>5
  <1>10. fine_rules' = {After(Code(r), locked[r], w) : w \in fine_rules}
                         \cup {NewRow(r, read[r] + 1)}
    BY DEF After, Committed
  <1>11. Publishes(Code(r), locked[r], NewRow(r, read[r] + 1))
    BY <1>3, <1>6, <1>8, <1>9, <1>10 DEF Publishes
  <1> QED
    BY <1>2, <1>6, <1>11, AloneAtCommit

\* The insert of a Create publishes version 1, or clashes.
LEMMA InsertStep ==
    ASSUME RulesInv, NEW r \in Requests, Insert(r)
    PROVE  RulesInv'
  <1> USE DEF Insert, At, tx
  <1>1. /\ WritersOK /\ Coherent(r) /\ r \in DOMAIN input
        /\ pc[r] = "Insert" /\ answer[r] = "none" /\ read[r] = 0
        /\ r \notin open /\ r \notin orphans /\ locked[r] = {}
    BY DEF RulesInv, Coherent, WritersOK, Live
  <1>2. \A q \in Requests \ {r} : Same(q)
    BY <1>1 DEF WritersOK, Same, Respond
  <1>3. CASE Clash(r)
    <2>1. UNCHANGED fine_rules /\ answer'[r] = "500" /\ pc'[r] = "Insert"
      BY <1>1, <1>3 DEF Respond, WritersOK
    <2>2. WritersOK'
      BY <1>1, <1>3, <2>1 DEF WritersOK, Respond
    <2>3. Coherent(r)'
      BY <1>1, <2>1 DEF Coherent, Live
    <2> QED
      BY <1>1, <1>2, <2>1, <2>2, <2>3, Quiet
  <1>4. CASE ~Clash(r)
    <2>1. /\ fine_rules' = fine_rules \cup {NewRow(r, 1)}
          /\ answer'[r] = "201" /\ pc'[r] = "Insert"
      BY <1>1, <1>4 DEF Respond, WritersOK
    <2>2. /\ Code(r) \in Codes /\ Publishes(Code(r), {}, NewRow(r, 1))
          /\ Alone(r, Code(r)) /\ NewRow(r, 1).id = r
      BY <1>1, <1>4, <2>1, FirstVersion
    <2>3. fine_rules' \subseteq Row
      BY <1>1, <2>2, PublishedRows
    <2>4. WritersOK'
      BY <1>1, <1>4, <2>3 DEF WritersOK, Respond
    <2>5. Published(r)'
      <3>1. NewRow(r, 1) \in fine_rules'
        BY <2>1
      <3>2. /\ NewRow(r, 1).id = r /\ NewRow(r, 1).code = input[r].code
            /\ NewRow(r, 1).amount = input[r].amount /\ NewRow(r, 1).version = 1
        BY DEF NewRow, Code
      <3>3. read'[r] + 1 = 1 /\ input' = input
        BY <1>1
      <3>4. \E w \in fine_rules' : /\ w.id = r /\ w.code = input'[r].code
                                   /\ w.amount = input'[r].amount
                                   /\ w.version = read'[r] + 1
        BY <3>1, <3>2, <3>3
      <3> QED
        BY <3>4 DEF Published, Code
    <2>6. Coherent(r)'
      BY <1>1, <2>1, <2>5 DEF Coherent, Live
    <2>7. open' \subseteq open \ {r}
      BY <1>1
    <2> QED
      BY <1>2, <2>2, <2>4, <2>6, <2>7, PublishStep
  <1> QED
    BY <1>3, <1>4

\* So does an insert whose client is gone, if it runs at all.
LEMMA OrphanInsertStep ==
    ASSUME RulesInv, NEW r \in Requests, OrphanInsert(r)
    PROVE  RulesInv'
  <1> USE DEF OrphanInsert, tx
  <1>1. /\ WritersOK /\ Coherent(r) /\ r \in DOMAIN input /\ ~Live(r)
        /\ pc[r] = "Insert" /\ r \notin open /\ read[r] = 0 /\ locked[r] = {}
        /\ answer[r] \notin {"200", "201", "403", "404", "409", "422"}
        /\ r \notin orphans'
    BY DEF RulesInv, Coherent, WritersOK, Published
  <1>2. \A q \in Requests \ {r} : Same(q)
    BY <1>1 DEF WritersOK, Same
  <1>3. ~Live(r)'
    BY <1>1 DEF Live
  <1>4. CASE UNCHANGED fine_rules
    <2>1. WritersOK'
      BY <1>1, <1>4 DEF WritersOK
    <2>2. Coherent(r)'
      BY <1>1, <1>3, <1>4 DEF Coherent
    <2> QED
      BY <1>1, <1>2, <1>4, <2>1, <2>2, Quiet
  <1>5. CASE ~Clash(r) /\ fine_rules' = fine_rules \cup {NewRow(r, 1)}
    <2>1. /\ Code(r) \in Codes /\ Publishes(Code(r), {}, NewRow(r, 1))
          /\ Alone(r, Code(r)) /\ NewRow(r, 1).id = r
      BY <1>1, <1>5, FirstVersion
    <2>2. fine_rules' \subseteq Row
      BY <1>1, <2>1, PublishedRows
    <2>3. WritersOK'
      BY <1>1, <2>2 DEF WritersOK
    <2>4. Coherent(r)'
      BY <1>1, <1>3 DEF Coherent
    <2>5. open' \subseteq open \ {r}
      BY <1>1
    <2> QED
      BY <1>2, <2>1, <2>3, <2>4, <2>5, PublishStep
  <1> QED
    BY <1>4, <1>5

\* A commit publishes the version after the one that was read.
LEMMA CommitStep ==
    ASSUME RulesInv, NEW r \in Requests, Commit(r)
    PROVE  RulesInv'
  <1> USE DEF Commit, At
  <1>1. /\ WritersOK /\ Coherent(r) /\ r \in DOMAIN input
        /\ pc[r] = "Commit" /\ answer[r] = "none"
        /\ r \in open /\ r \notin orphans
        /\ read[r] \in Versions(Code(r))
    BY DEF RulesInv, Coherent, WritersOK, Live
  <1>2. \A q \in Requests \ {r} : Same(q)
    BY <1>1 DEF WritersOK, Same, Respond
  <1>3. /\ Code(r) \in Codes
        /\ Publishes(Code(r), locked[r], NewRow(r, read[r] + 1))
        /\ Alone(r, Code(r)) /\ NewRow(r, read[r] + 1).id = r
    BY <1>1, NextVersion
  <1>4. answer'[r] = "200" /\ pc'[r] = "Commit"
    BY <1>1 DEF Respond, WritersOK
  <1>5. fine_rules' \subseteq Row
    BY <1>1, <1>3, PublishedRows
  <1>6. WritersOK'
    BY <1>1, <1>5 DEF WritersOK, Respond
  <1>7. Published(r)'
    <2>1. NewRow(r, read[r] + 1) \in fine_rules'
      BY <1>3 DEF Publishes
    <2>2. /\ NewRow(r, read[r] + 1).id = r
          /\ NewRow(r, read[r] + 1).code = input'[r].code
          /\ NewRow(r, read[r] + 1).amount = input'[r].amount
          /\ NewRow(r, read[r] + 1).version = read'[r] + 1
      BY DEF NewRow, Code
    <2>3. \E w \in fine_rules' : /\ w.id = r /\ w.code = input'[r].code
                                 /\ w.amount = input'[r].amount
                                 /\ w.version = read'[r] + 1
      BY <2>1, <2>2
    <2> QED
      BY <2>3 DEF Published, Code
  <1>8. read'[r] \in Versions(Code(r))'
    <2>1. Versions(Code(r))' = {row.version : row \in {w \in fine_rules' : w.code = Code(r)}}
      BY DEF Versions, Code
    <2>2. \E w \in fine_rules : w.code = Code(r) /\ w.version = read[r]
      BY <1>1, VersionsDef
    <2>3. \E w \in fine_rules' : w.code = Code(r) /\ w.version = read[r]
      BY <1>1, <1>3, <2>2, PublishedRows
    <2> QED
      BY <2>1, <2>3
  <1>9. Coherent(r)'
    BY <1>1, <1>4, <1>7, <1>8 DEF Coherent, Live
  <1>10. open' \subseteq open \ {r}
    OBVIOUS
  <1> QED
    BY <1>2, <1>3, <1>6, <1>9, <1>10, PublishStep

\* The server commits or aborts what an ended request left open.
LEMMA ServerEndsStep ==
    ASSUME RulesInv, NEW r \in Requests, ServerEnds(r)
    PROVE  RulesInv'
  <1> USE DEF ServerEnds
  <1>1. /\ WritersOK /\ Coherent(r) /\ r \in DOMAIN input /\ ~Live(r)
        /\ pc[r] \in InTx /\ r \in open /\ r \notin orphans
        /\ read[r] \in Versions(Code(r))
        /\ answer[r] \notin {"200", "201", "403", "404", "409", "422"}
        /\ r \notin open'
    BY DEF RulesInv, Coherent, WritersOK, Published
  <1>2. \A q \in Requests \ {r} : Same(q)
    BY <1>1 DEF WritersOK, Same
  <1>3. ~Live(r)'
    BY <1>1 DEF Live
  <1>4. CASE UNCHANGED fine_rules
    <2>1. WritersOK'
      BY <1>1, <1>4 DEF WritersOK
    <2>2. Versions(Code(r))' = Versions(Code(r))
      BY <1>4 DEF Versions, Code
    <2>3. Coherent(r)'
      BY <1>1, <1>3, <1>4, <2>2 DEF Coherent
    <2> QED
      BY <1>1, <1>2, <1>4, <2>1, <2>3, Quiet
  <1>5. CASE pc[r] = "Commit" /\ fine_rules' = Committed(r)
    <2>1. /\ Code(r) \in Codes
          /\ Publishes(Code(r), locked[r], NewRow(r, read[r] + 1))
          /\ Alone(r, Code(r)) /\ NewRow(r, read[r] + 1).id = r
      BY <1>1, <1>5, NextVersion
    <2>2. fine_rules' \subseteq Row
      BY <1>1, <2>1, PublishedRows
    <2>3. WritersOK'
      BY <1>1, <2>2 DEF WritersOK
    <2>4. read'[r] \in Versions(Code(r))'
      <3>1. Versions(Code(r))' = {row.version : row \in {w \in fine_rules' : w.code = Code(r)}}
        BY DEF Versions, Code
      <3>2. \E w \in fine_rules : w.code = Code(r) /\ w.version = read[r]
        BY <1>1, VersionsDef
      <3>3. \E w \in fine_rules' : w.code = Code(r) /\ w.version = read[r]
        BY <1>1, <2>1, <3>2, PublishedRows
      <3> QED
        BY <3>1, <3>3
    <2>5. Coherent(r)'
      BY <1>1, <1>3, <1>5, <2>4 DEF Coherent
    <2>6. open' \subseteq open \ {r}
      OBVIOUS
    <2> QED
      BY <1>2, <2>1, <2>3, <2>5, <2>6, PublishStep
  <1> QED
    BY <1>4, <1>5

-----------------------------------------------------------------------------
(* The invariant.                                                          *)

\* Readers change nothing of the service's state.
LEMMA IdleStep ==
    ASSUME RulesInv, UNCHANGED writers
    PROVE  RulesInv'
  <1>1. /\ WritersOK' /\ OneHistoryPerCode' /\ LocksDisjoint'
    BY DEF writers, tx, RulesInv, WritersOK, OneHistoryPerCode, LocksDisjoint,
           Versions, Code
  <1>2. \A r \in Requests : Same(r)
    BY DEF writers, tx, Same
  <1>3. \A r \in Requests : Coherent(r)'
    BY <1>2, Frame DEF writers, RulesInv
  <1> QED
    BY <1>1, <1>3 DEF RulesInv

\* The steps of a reader.
Reading(g) ==
    \/ \E role \in {"officer", "member"}, q \in Query : Ask(g, role, q.op, q.code)
    \/ Select(g) \/ ReadFails(g)

\* The empty table satisfies the invariant.
LEMMA InitRules == Init => RulesInv
  <1> SUFFICES ASSUME Init PROVE RulesInv
    OBVIOUS
  <1> USE DEF Init
  <1>1. WritersOK
    BY DEF WritersOK
  <1>2. OneHistoryPerCode /\ LocksDisjoint
    BY DEF OneHistoryPerCode, LocksDisjoint
  <1>3. \A r \in Requests : Coherent(r)
    BY DEF Coherent, Live
  <1> QED
    BY <1>1, <1>2, <1>3 DEF RulesInv

\* Every step keeps the invariant.
LEMMA NextRules == RulesInv /\ [Next]_vars => RulesInv'
  <1> SUFFICES ASSUME RulesInv, [Next]_vars PROVE RulesInv'
    OBVIOUS
  <1>2. CASE \E r \in Requests, role \in {"officer", "member"},
                kind \in {"Create", "Update"}, c \in Codes, a \in Amounts,
                valid \in BOOLEAN : Receive(r, role, kind, c, a, valid)
    BY <1>2, ReceiveStep
  <1>3. ASSUME NEW r \in Requests, Statement(r) PROVE RulesInv'
    BY <1>3, GetActiveStep, InsertStep, BeginStep, DeactivateStep, LockRowStep,
       InsertVersionStep, CommitStep DEF Statement
  <1>4. ASSUME NEW r \in Requests, StatementFails(r) PROVE RulesInv'
    BY <1>4, StatementFailsStep
  <1>5. ASSUME NEW r \in Requests, Server(r) PROVE RulesInv'
    BY <1>5, ServerEndsStep, OrphanInsertStep DEF Server
  <1>6. CASE Crash
    BY <1>6, CrashStep
  <1>7. CASE UNCHANGED writers
    BY <1>7, IdleStep
  <1>8. ASSUME NEW g \in Readers, Reading(g) PROVE UNCHANGED writers
    BY <1>8 DEF Reading, Ask, Select, ReadFails
  <1> QED
    BY <1>2, <1>3, <1>4, <1>5, <1>6, <1>7, <1>8 DEF Next, Reading, vars

\* RulesInv holds in every reachable state, for any set of requests, any
\* codes and any pool size (RuleUsecase and the schema of fine_rules).
THEOREM InvariantHolds == Spec => []RulesInv
  BY InitRules, NextRules, PTL DEF Spec

\* However Creates and Updates of a code overlap, fail or die, its rows are
\* versions 1..n, each once, with n alone active.
THEOREM OneHistory == Spec => []OneHistoryPerCode
  <1>1. RulesInv => OneHistoryPerCode
    BY DEF RulesInv
  <1> QED
    BY <1>1, InvariantHolds, PTL

\* A 200 or 201 means the version after the one the request read is in the
\* table; a 403, 404, 409 or 422 means the request has written nothing and
\* never will.
THEOREM AnswersHold == Spec => []AnswersAreTruthful
  <1>1. RulesInv => AnswersAreTruthful
    <2> SUFFICES ASSUME RulesInv, NEW r \in Requests
                 PROVE  /\ answer[r] \in {"200", "201"} => Published(r)
                        /\ answer[r] \in {"403", "404", "409", "422"} =>
                             /\ \A w \in fine_rules : w.id # r
                             /\ r \notin open \cup orphans
      BY DEF AnswersAreTruthful
    <2>1. Coherent(r) /\ WritersOK
      BY DEF RulesInv
    <2> QED
      BY <2>1 DEF Coherent, WritersOK
  <1> QED
    BY <1>1, InvariantHolds, PTL

-----------------------------------------------------------------------------
(* RuleCatalogue implements RuleHistory.                                   *)

\* Each version has one fine.
LEMMA OneFine ==
    ASSUME OneHistoryPerCode, NEW w \in fine_rules, w.code \in Codes
    PROVE  FineOfVersion(w.code, w.version) = w.amount
  <1> DEFINE x == CHOOSE y \in fine_rules : y.code = w.code /\ y.version = w.version
  <1>1. x \in fine_rules /\ x.code = w.code /\ x.version = w.version
    OBVIOUS
  <1>2. x = w
    BY <1>1 DEF OneHistoryPerCode
  <1> QED
    BY <1>2 DEF FineOfVersion

\* The active version is the last one.
LEMMA LatestBounds ==
    ASSUME WritersOK, OneHistoryPerCode, NEW c \in Codes
    PROVE  /\ Latest(c) \in Nat
           /\ \A k \in 1..Latest(c) : k \in Versions(c)
           /\ ActiveVersions(c) # {} => ActiveVersions(c) = {Latest(c)}
           /\ ActiveVersions(c) = {} => Latest(c) = 0
  <1>1. CASE ActiveVersions(c) = {}
    BY <1>1 DEF Latest
  <1>2. CASE ActiveVersions(c) # {}
    <2>1. Latest(c) \in ActiveVersions(c)
      BY <1>2 DEF Latest
    <2>2. PICK w \in fine_rules : w.code = c /\ w.active /\ w.version = Latest(c)
      BY <2>1, VersionsDef
    <2>3. /\ ActiveVersions(c) \subseteq Versions(c)
          /\ Versions(c) \subseteq Nat \ {0}
      BY VersionsTyped
    <2>4. \A k \in 1..Latest(c) : k \in Versions(c)
      BY <2>2 DEF OneHistoryPerCode
    <2>5. \A k \in Versions(c) : k <= Latest(c)
      BY <2>2 DEF OneHistoryPerCode
    <2>6. ASSUME NEW k \in ActiveVersions(c) PROVE k = Latest(c)
      <3>1. PICK x \in fine_rules : x.code = c /\ x.active /\ x.version = k
        BY VersionsDef
      <3>2. Latest(c) <= k
        BY <2>1, <2>3, <3>1 DEF OneHistoryPerCode
      <3> QED
        BY <2>1, <2>3, <2>5, <3>2
    <2> QED
      BY <1>2, <2>1, <2>3, <2>4, <2>6
  <1> QED
    BY <1>1, <1>2

\* A published version is one more than the latest.
LEMMA LatestGrows ==
    ASSUME WritersOK, OneHistoryPerCode, NEW c \in Codes, NEW L, NEW new,
           Publishes(c, L, new)
    PROVE  new.version = Latest(c) + 1
  <1>1. /\ new.version \in Nat \ {0}
        /\ \A j \in Versions(c) : j < new.version
        /\ \A k \in 1..new.version : k = new.version \/ k \in Versions(c)
    BY DEF Publishes, Row
  <1>2. /\ Versions(c) \subseteq Nat \ {0}
        /\ ActiveVersions(c) \subseteq Versions(c)
    BY VersionsTyped
  <1>3. CASE new.version = 1
    BY <1>1, <1>2, <1>3, LatestBounds
  <1>4. CASE new.version # 1
    <2>1. new.version - 1 \in Versions(c)
      BY <1>1, <1>4
    <2>2. (new.version - 1) + 1 \notin Versions(c)
      BY <1>1
    <2>3. ActiveVersions(c) = {new.version - 1}
      BY <2>1, <2>2, LastIsActive
    <2>4. Latest(c) = new.version - 1
      BY <2>3, LatestBounds
    <2> QED
      BY <1>1, <2>4
  <1> QED
    BY <1>3, <1>4

\* Publishing moves the active version of its code on by one, and no other.
LEMMA LatestAfter ==
    ASSUME WritersOK, OneHistoryPerCode, NEW c \in Codes, NEW L, NEW new,
           Publishes(c, L, new)
    PROVE  \A d \in Codes :
              Latest(d)' = IF d = c THEN Latest(d) + 1 ELSE Latest(d)
  <1> SUFFICES ASSUME NEW d \in Codes
               PROVE  Latest(d)' = IF d = c THEN Latest(d) + 1 ELSE Latest(d)
    OBVIOUS
  <1>1. CASE d # c
    <2>1. ActiveVersions(d)' = ActiveVersions(d)
      BY <1>1, PublishedVersions
    <2> QED
      BY <1>1, <2>1 DEF Latest
  <1>2. CASE d = c
    <2>1. ActiveVersions(d)' = ActiveVersions(c)'
      BY <1>2 DEF ActiveVersions
    <2>2. ActiveVersions(d)' = {new.version}
      BY <2>1, PublishedVersions
    <2>3. new.version = Latest(d) + 1
      BY <1>2, LatestGrows
    <2> QED
      BY <1>2, <2>2, <2>3 DEF Latest
  <1> QED
    BY <1>1, <1>2

\* Append, as a function.
LEMMA AppendToTable ==
    ASSUME NEW n \in Nat, NEW S, NEW s \in [1..n -> S], NEW a \in S
    PROVE  Append(s, a) = [i \in 1..(n + 1) |-> IF i = n + 1 THEN a ELSE s[i]]
  <1> DEFINE t == [i \in 1..(n + 1) |-> IF i = n + 1 THEN a ELSE s[i]]
  <1>1. s \in Seq(S) /\ Len(s) = n
    OBVIOUS
  <1>2. t \in [1..(n + 1) -> S]
    OBVIOUS
  <1>3. t \in Seq(S) /\ Len(t) = n + 1
    BY <1>2
  <1>4. /\ Append(s, a) \in Seq(S) /\ Len(Append(s, a)) = n + 1
        /\ \A i \in 1..n : Append(s, a)[i] = s[i]
        /\ Append(s, a)[n + 1] = a
    BY <1>1, AppendProperties
  <1>5. \A i \in 1..(n + 1) : Append(s, a)[i] = t[i]
    BY <1>4
  <1> HIDE DEF t
  <1>6. Append(s, a) = t
    BY <1>3, <1>4, <1>5, SeqEqual
  <1> QED
    BY <1>6 DEF t

\* The fine of a published version does not change.
LEMMA FinesKept ==
    ASSUME WritersOK, OneHistoryPerCode, NEW c \in Codes, NEW L, NEW new,
           Publishes(c, L, new), NEW d \in Codes, NEW k \in Versions(d)
    PROVE  FineOfVersion(d, k)' = FineOfVersion(d, k)
  <1>1. PICK w \in fine_rules : w.code = d /\ w.version = k
    BY VersionsDef
  <1>2. PICK x \in fine_rules' : x.code = d /\ x.version = k /\ x.amount = w.amount
    BY <1>1, PublishedRows
  <1>3. OneHistoryPerCode'
    BY PublishedHistory
  <1> DEFINE y == CHOOSE y \in fine_rules' : y.code = d /\ y.version = k
  <1>4. y \in fine_rules' /\ y.code = d /\ y.version = k
    BY <1>2
  <1>5. y = x
    BY <1>2, <1>3, <1>4 DEF OneHistoryPerCode
  <1>6. FineOfVersion(d, k)' = w.amount
    BY <1>2, <1>5 DEF FineOfVersion
  <1> QED
    BY <1>1, <1>6, OneFine

\* Publishing a row appends its fine to the history of its code.
LEMMA PublishesFine ==
    ASSUME WritersOK, OneHistoryPerCode, NEW c \in Codes, NEW L, NEW new,
           Publishes(c, L, new)
    PROVE  Fines' = [Fines EXCEPT ![c] = Append(@, new.amount)]
  <1>1. new.version = Latest(c) + 1 /\ Latest(c) \in Nat
    BY LatestGrows, LatestBounds
  <1>2. /\ new \in fine_rules' /\ new.code = c /\ new.amount \in Amounts
        /\ fine_rules' \subseteq Row
    BY PublishedRows DEF Publishes, Row
  <1>3. OneHistoryPerCode'
    BY PublishedHistory
  <1>4. ASSUME NEW d \in Codes \ {c} PROVE Latest(d)' = Latest(d)
    BY LatestAfter
  <1>5. Latest(c)' = Latest(c) + 1
    BY LatestAfter
  <1>6. ASSUME NEW n, n = Latest(c) + 1
        PROVE  FineOfVersion(c, n)' = new.amount
    <2> DEFINE y == CHOOSE y \in fine_rules' : y.code = c /\ y.version = n
    <2>1. y \in fine_rules' /\ y.code = c /\ y.version = n
      BY <1>1, <1>2, <1>6
    <2>2. y = new
      BY <1>1, <1>2, <1>3, <1>6, <2>1 DEF OneHistoryPerCode
    <2> QED
      BY <2>2 DEF FineOfVersion
  <1>7. ASSUME NEW d \in Codes, NEW k \in 1..Latest(d)
        PROVE  /\ FineOfVersion(d, k)' = FineOfVersion(d, k)
               /\ FineOfVersion(d, k) \in Amounts
    <2>1. k \in Versions(d)
      BY LatestBounds
    <2>2. PICK w \in fine_rules : w.code = d /\ w.version = k
      BY <2>1, VersionsDef
    <2>3. w.amount \in Amounts
      BY DEF WritersOK, Row
    <2> QED
      BY <2>1, <2>2, <2>3, FinesKept, OneFine
  <1>8. \A d \in Codes :
           /\ Fines[d] = [v \in 1..Latest(d) |-> FineOfVersion(d, v)]
           /\ Fines'[d] = [v \in 1..Latest(d)' |-> FineOfVersion(d, v)']
    BY DEF Fines
  <1>9. ASSUME NEW d \in Codes \ {c} PROVE Fines'[d] = Fines[d]
    <2>1. \A v \in 1..Latest(d) : FineOfVersion(d, v)' = FineOfVersion(d, v)
      BY <1>7
    <2>2. Fines[d] = [v \in 1..Latest(d) |-> FineOfVersion(d, v)]
      BY <1>8
    <2>3. Fines'[d] = [v \in 1..Latest(d)' |-> FineOfVersion(d, v)']
      BY <1>8
    <2>4. Latest(d)' = Latest(d)
      BY <1>4
    <2> QED
      BY <2>1, <2>2, <2>3, <2>4
  <1>10. Fines'[c] = Append(Fines[c], new.amount)
    <2> DEFINE s == Fines[c]
               n == Latest(c)
    <2>1. s \in [1..n -> Amounts] /\ n \in Nat
      BY <1>1, <1>7, <1>8
    <2>2. Fines'[c] = [i \in 1..(n + 1) |->
                         IF i = n + 1 THEN new.amount ELSE s[i]]
      <3>1. \A i \in 1..(n + 1) : FineOfVersion(c, i)' =
               IF i = n + 1 THEN new.amount ELSE s[i]
        <4> SUFFICES ASSUME NEW i \in 1..(n + 1)
                     PROVE  FineOfVersion(c, i)' =
                              IF i = n + 1 THEN new.amount ELSE s[i]
          OBVIOUS
        <4>1. CASE i = n + 1
          BY <1>6, <4>1
        <4>2. CASE i # n + 1
          <5>1. i \in 1..Latest(c)
            BY <1>1, <4>2
          <5> QED
            BY <1>7, <1>8, <4>2, <5>1
        <4> QED
          BY <4>1, <4>2
      <3>2. Fines'[c] = [i \in 1..(n + 1) |-> FineOfVersion(c, i)']
        BY <1>5, <1>8
      <3> HIDE DEF s, n
      <3> QED
        BY <3>1, <3>2
    <2> HIDE DEF s, n
    <2>3. Append(s, new.amount) = [i \in 1..(n + 1) |->
                                     IF i = n + 1 THEN new.amount ELSE s[i]]
      BY <1>2, <2>1, AppendToTable
    <2>4. Fines'[c] = Append(s, new.amount)
      BY <2>2, <2>3
    <2> QED
      BY <2>4 DEF s
  <1>11. DOMAIN Fines = Codes /\ DOMAIN Fines' = Codes
         /\ Fines' = [d \in Codes |-> Fines'[d]]
    BY DEF Fines
  <1>12. Fines' = [d \in Codes |-> IF d = c THEN Append(Fines[c], new.amount)
                                            ELSE Fines[d]]
    BY <1>9, <1>10, <1>11
  <1> QED
    BY <1>11, <1>12

\* The mapping depends on the table alone.
LEMMA SameTableSameFines ==
    ASSUME UNCHANGED fine_rules PROVE UNCHANGED Fines
  BY DEF Fines, Latest, FineOfVersion, ActiveVersions

\* Publishing is the Publish of RuleHistory.
LEMMA PublishesHistory ==
    ASSUME RulesInv, NEW c \in Codes, NEW L, NEW new, Publishes(c, L, new)
    PROVE  History!Next
  <1>1. Fines' = [Fines EXCEPT ![c] = Append(@, new.amount)]
    BY PublishesFine DEF RulesInv
  <1>2. new.amount \in Amounts
    BY DEF Publishes, Row
  <1> QED
    BY <1>1, <1>2 DEF History!Next, History!Publish

\* A step leaves the table alone or publishes a version.
LEMMA TableStep ==
    ASSUME RulesInv, [Next]_vars
    PROVE  \/ UNCHANGED fine_rules
           \/ \E c \in Codes : \E L, new : Publishes(c, L, new)
  <1>1. ASSUME NEW r \in Requests, pc[r] = "Insert", ~Clash(r),
               fine_rules' = fine_rules \cup {NewRow(r, 1)}
        PROVE  \E c \in Codes : \E L, new : Publishes(c, L, new)
    BY <1>1, FirstVersion
  <1>2. ASSUME NEW r \in open, pc[r] = "Commit", fine_rules' = Committed(r)
        PROVE  \E c \in Codes : \E L, new : Publishes(c, L, new)
    BY <1>2, NextVersion
  <1>3. \/ UNCHANGED fine_rules
        \/ \E r \in Requests : Insert(r) \/ OrphanInsert(r)
        \/ \E r \in Requests : Commit(r) \/ ServerEnds(r)
    BY DEF Next, vars, writers, Receive, Statement, Server, StatementFails,
           Crash, GetActive, Begin, Deactivate, LockRow, InsertVersion,
           Ask, Select, ReadFails
  <1>4. ASSUME NEW r \in Requests, Insert(r) \/ OrphanInsert(r)
        PROVE  \/ UNCHANGED fine_rules
               \/ \E c \in Codes : \E L, new : Publishes(c, L, new)
    <2>1. r \in orphans => pc[r] = "Insert"
      BY DEF RulesInv, WritersOK
    <2> QED
      BY <1>1, <1>4, <2>1 DEF Insert, OrphanInsert, At
  <1>5. ASSUME NEW r \in Requests, Commit(r) \/ ServerEnds(r)
        PROVE  \/ UNCHANGED fine_rules
               \/ \E c \in Codes : \E L, new : Publishes(c, L, new)
    <2>1. At(r, "Commit") => r \in open
      BY DEF RulesInv, Coherent, Live, At
    <2> QED
      BY <1>2, <1>5, <2>1 DEF Commit, ServerEnds, At
  <1> QED
    BY <1>3, <1>4, <1>5

\* Every step of RuleCatalogue is one of RuleHistory or a stutter.
LEMMA StepRefines ==
    ASSUME RulesInv, [Next]_vars
    PROVE  [History!Next]_Fines
  BY TableStep, SameTableSameFines, PublishesHistory

\* The empty table is the empty history.
LEMMA InitRefines == Init => History!Init
  <1> SUFFICES ASSUME Init PROVE History!Init
    OBVIOUS
  <1>1. \A c \in Codes : Latest(c) = 0
    BY DEF Init, Latest, ActiveVersions
  <1>2. \A c \in Codes : [v \in 1..Latest(c) |-> FineOfVersion(c, v)] = << >>
    BY <1>1
  <1> QED
    BY <1>2 DEF History!Init, Fines

\* RuleCatalogue implements RuleHistory: Create and Update publish versions
\* one at a time, each after the last of its code, whatever overlaps or
\* fails, and no published fine ever changes.
THEOREM Refinement == Spec => ImplementsHistory
  <1>1. RulesInv /\ [Next]_vars => [History!Next]_Fines
    BY StepRefines
  <1> QED
    BY <1>1, InitRefines, InvariantHolds, PTL
       DEF Spec, ImplementsHistory, History!Spec

-----------------------------------------------------------------------------
(* Waiting.                                                                *)

\* A transaction that another waits for has changed the active row of its
\* code.  There is one such row, so nobody has what it needs.
LEMMA WaitsEndHere == RulesInv => WaitsEnd
  <1> SUFFICES ASSUME RulesInv, NEW q \in open, NEW p \in WaitsFor(q)
               PROVE  WaitsFor(p) = {}
    BY DEF WaitsEnd
  <1>1. WritersOK /\ p \in open /\ pc[q] \in InTx /\ pc[p] \in InTx
    BY DEF RulesInv, WritersOK, WaitsFor
  <1>2. Coherent(p)
    BY <1>1 DEF RulesInv, WritersOK
  <1>3. locked[p] # {}
    BY <1>1 DEF WaitsFor, UsesPool, Decides, Holds
  <1>4. pc[p] \in {"InsertVersion", "Commit"}
    BY <1>2, <1>3 DEF Coherent
  <1>5. ASSUME NEW x \in open, pc[p] = "InsertVersion", Decides(x, p) PROVE FALSE
    <2>1. /\ Coherent(x) /\ x # p /\ locked[x] # {}
          /\ Code(x) = Code(p) /\ Code(p) \in Codes
      BY <1>1, <1>2, <1>5 DEF Decides, RulesInv, WritersOK, Coherent, Code, InputRow
    <2>2. locked[x] \cap locked[p] = {}
      BY <1>1, <2>1 DEF RulesInv, LocksDisjoint
    <2>3. /\ locked[x] \subseteq ActiveVersions(Code(p))
          /\ locked[p] \subseteq ActiveVersions(Code(p))
      BY <1>1, <1>2, <2>1 DEF Coherent
    <2>4. ActiveVersions(Code(p)) # {} => ActiveVersions(Code(p)) = {Latest(Code(p))}
      BY <1>1, <2>1, LatestBounds DEF RulesInv
    <2> QED
      BY <1>3, <2>1, <2>2, <2>3, <2>4
  <1> QED
    BY <1>4, <1>5 DEF WaitsFor, UsesPool

\* No deadlock among transactions: one that another waits for, for a row, a
\* key or a connection, does not wait itself (rule.go:154, WithTx).
THEOREM NoCircle == Spec => []WaitsEnd
  BY WaitsEndHere, InvariantHolds, PTL

\* While a request is being served, someone's next statement waits for
\* nobody, or the server has a transaction of a lost client to end.
THEOREM NeverStuck == Spec => []SomeoneCanMove
  <1>1. RulesInv => SomeoneCanMove
    <2> SUFFICES ASSUME RulesInv, NEW q \in Requests, Live(q)
                 PROVE  \E r \in Requests : WaitsFor(r) = {} /\ (Live(r) \/ r \in open)
      BY DEF SomeoneCanMove
    <2>1. open \subseteq Requests /\ WaitsEnd
      BY WaitsEndHere DEF RulesInv, WritersOK
    <2>2. \A r : WaitsFor(r) \subseteq open
      BY DEF WaitsFor
    <2>3. CASE WaitsFor(q) = {}
      BY <2>3
    <2>4. ASSUME NEW p \in WaitsFor(q)
          PROVE  \E r \in open : WaitsFor(r) = {}
      <3>1. CASE WaitsFor(p) = {}
        BY <2>2, <3>1
      <3>2. ASSUME NEW x \in WaitsFor(p) PROVE WaitsFor(x) = {} /\ x \in open
        BY <2>1, <2>2 DEF WaitsEnd
      <3> QED
        BY <3>1, <3>2
    <2> QED
      BY <2>1, <2>3, <2>4
  <1> QED
    BY <1>1, InvariantHolds, PTL

\* A request executes each of its statements once, and no step of another
\* request takes it back.
THEOREM Advance == Spec => StatementsAdvance
  <1> DEFINE Step == \A r \in Requests :
                /\ Live(r) => StatementsLeft(r)' <= StatementsLeft(r)
                /\ Statement(r) => StatementsLeft(r)' < StatementsLeft(r)
  <1>1. RulesInv /\ [Next]_vars => [Step]_vars
    <2> SUFFICES ASSUME RulesInv, Next, NEW r \in Requests
                 PROVE  /\ Live(r) => StatementsLeft(r)' <= StatementsLeft(r)
                        /\ Statement(r) => StatementsLeft(r)' < StatementsLeft(r)
      OBVIOUS
    <2>1. WritersOK /\ StatementsLeft(r) \in Nat /\ (Live(r) => StatementsLeft(r) > 0)
      BY DEF RulesInv, WritersOK, StatementsLeft, Live
    <2>2. Statement(r) => StatementsLeft(r)' < StatementsLeft(r)
      <3> USE DEF Goto, Respond, At, Live, StatementsLeft
      <3>1. ASSUME GetActive(r) PROVE StatementsLeft(r)' < StatementsLeft(r)
        BY <2>1, <3>1 DEF GetActive, WritersOK
      <3>2. ASSUME Insert(r) \/ Begin(r) \/ Deactivate(r) \/ Commit(r)
            PROVE  StatementsLeft(r)' < StatementsLeft(r)
        BY <2>1, <3>2 DEF Insert, Begin, Deactivate, Commit, WritersOK
      <3>3. ASSUME LockRow(r) \/ InsertVersion(r)
            PROVE  StatementsLeft(r)' < StatementsLeft(r)
        BY <2>1, <3>3 DEF LockRow, InsertVersion, WritersOK
      <3> QED
        BY <3>1, <3>2, <3>3 DEF Statement
    <2>3. ASSUME Live(r), ~Statement(r) PROVE StatementsLeft(r)' <= StatementsLeft(r)
      <3>1. \/ pc'[r] = pc[r] /\ answer'[r] = answer[r]
            \/ pc'[r] = pc[r] /\ answer'[r] # "none"
        <4>1. ASSUME NEW q \in Requests, NEW role \in {"officer", "member"},
                     NEW kind \in {"Create", "Update"}, NEW c \in Codes,
                     NEW a \in Amounts, NEW valid \in BOOLEAN,
                     Receive(q, role, kind, c, a, valid)
              PROVE  pc'[r] = pc[r] /\ answer'[r] = answer[r]
          BY <2>1, <2>3, <4>1 DEF Receive, Live, WritersOK
        <4>2. ASSUME NEW q \in Requests, Statement(q)
              PROVE  pc'[r] = pc[r] /\ answer'[r] = answer[r]
          <5>1. q # r
            BY <2>3, <4>2
          <5> QED
            BY <2>1, <4>2, <5>1 DEF Statement, GetActive, Insert, Begin, Deactivate,
               LockRow, InsertVersion, Commit, Goto, Respond, WritersOK
        <4>3. ASSUME NEW q \in Requests, StatementFails(q) \/ Server(q)
              PROVE  \/ pc'[r] = pc[r] /\ answer'[r] = answer[r]
                     \/ pc'[r] = pc[r] /\ answer'[r] # "none"
          BY <2>1, <4>3 DEF StatementFails, Server, ServerEnds, OrphanInsert,
             Respond, WritersOK
        <4>4. ASSUME NEW g \in Readers, Reading(g)
              PROVE  pc'[r] = pc[r] /\ answer'[r] = answer[r]
          BY <4>4 DEF Reading, Ask, Select, ReadFails, writers
        <4>5. ASSUME Crash PROVE pc'[r] = pc[r] /\ answer'[r] # "none"
          BY <2>3, <4>5 DEF Crash
        <4> QED
          BY <4>1, <4>2, <4>3, <4>4, <4>5 DEF Next, Reading
      <3> QED
        BY <2>1, <2>3, <3>1 DEF StatementsLeft, Live
    <2>4. RulesInv'
      BY NextRules
    <2>5. StatementsLeft(r)' \in Nat
      BY <2>4 DEF RulesInv, WritersOK, StatementsLeft, Live
    <2> QED
      BY <2>1, <2>2, <2>3, <2>5
  <1> QED
    BY <1>1, InvariantHolds, PTL DEF Spec, StatementsAdvance

\* Of two acknowledged Updates of a code, each replaced a version of its
\* own: neither overwrote what the other had not seen.
THEOREM UpdatesKept == Spec => []NoUpdateLost
  <1>1. RulesInv => NoUpdateLost
    <2> SUFFICES ASSUME RulesInv, NEW q \in Requests, NEW r \in Requests, q # r,
                        answer[q] = "200", answer[r] = "200",
                        Code(q) = Code(r), read[q] = read[r]
                 PROVE  FALSE
      BY DEF NoUpdateLost
    <2>1. /\ WritersOK /\ OneHistoryPerCode
          /\ Published(q) /\ Published(r) /\ q \in DOMAIN input
      BY DEF RulesInv, Coherent
    <2>2. Code(q) \in Codes
      BY <2>1 DEF WritersOK, InputRow, Code
    <2>3. PICK w \in fine_rules : w.id = q /\ w.code = Code(q) /\ w.version = read[q] + 1
      BY <2>1 DEF Published
    <2>4. PICK x \in fine_rules : x.id = r /\ x.code = Code(q) /\ x.version = read[q] + 1
      BY <2>1 DEF Published
    <2>5. w = x
      BY <2>1, <2>2, <2>3, <2>4 DEF OneHistoryPerCode
    <2> QED
      BY <2>3, <2>4, <2>5
  <1> QED
    BY <1>1, InvariantHolds, PTL

-----------------------------------------------------------------------------
(* Readers.                                                                *)

\* The active version of a code never falls.
LEMMA LatestKept ==
    ASSUME RulesInv, [Next]_vars, NEW c \in Codes
    PROVE  Latest(c) \in Nat /\ Latest(c)' \in Nat /\ Latest(c) <= Latest(c)'
  <1>1. Latest(c) \in Nat
    BY LatestBounds DEF RulesInv
  <1>2. CASE UNCHANGED fine_rules
    <2>1. Latest(c)' = Latest(c)
      BY <1>2 DEF Latest, ActiveVersions
    <2> QED
      BY <1>1, <2>1
  <1>3. ASSUME NEW d \in Codes, NEW L, NEW new, Publishes(d, L, new)
        PROVE  Latest(c)' = Latest(c) \/ Latest(c)' = Latest(c) + 1
    <2>1. WritersOK /\ OneHistoryPerCode
      BY DEF RulesInv
    <2>2. \A e \in Codes : Latest(e)' = IF e = d THEN Latest(e) + 1 ELSE Latest(e)
      BY <1>3, <2>1, LatestAfter
    <2> QED
      BY <2>2
  <1> QED
    BY <1>1, <1>2, <1>3, TableStep

\* A row that was true once stays so, but for being active.
LEMMA StaysTrue ==
    ASSUME RulesInv, [Next]_vars, NEW w \in Row, StillTrue(w)
    PROVE  StillTrue(w)'
  <1>1. CASE UNCHANGED fine_rules
    BY <1>1 DEF StillTrue
  <1>2. ASSUME NEW c \in Codes, NEW L, NEW new, Publishes(c, L, new)
        PROVE  StillTrue(w)'
    <2>1. PICK b \in {w.active, FALSE} : [w EXCEPT !.active = b] \in fine_rules
      BY DEF StillTrue
    <2>2. After(c, L, [w EXCEPT !.active = b]) \in fine_rules'
      BY <1>2, <2>1 DEF Publishes
    <2>3. \E d \in {w.active, FALSE} :
             After(c, L, [w EXCEPT !.active = b]) = [w EXCEPT !.active = d]
      BY <2>1 DEF After, Row
    <2> QED
      BY <2>2, <2>3 DEF StillTrue
  <1> QED
    BY <1>1, <1>2, TableStep

\* What a statement reads of the table is one history.
LEMMA SelectSees ==
    ASSUME RulesInv, ReadersInv, NEW g \in Readers, Select(g)
    PROVE  SeesOneHistory(g)'
  <1>1. /\ WritersOK /\ OneHistoryPerCode /\ ReadersOK
        /\ query[g] \in Query /\ query'[g] = query[g]
        /\ since'[g] = since[g] /\ shown'[g] = Selected(query[g])
        /\ UNCHANGED fine_rules
    BY DEF RulesInv, ReadersInv, ReadersOK, Select, writers
  <1>2. \A c : ShownOf(g, c)' = {w \in Selected(query[g]) : w.code = c}
    BY <1>1 DEF ShownOf
  <1>3. ASSUME NEW c \in Asked(query[g])
        PROVE  \A w \in fine_rules :
                  w.code = c /\ w.active => w \in ShownOf(g, c)'
    BY <1>1, <1>2, <1>3 DEF Asked, Selected
  <1>4. ASSUME NEW c \in Asked(query[g]) PROVE ShownActive(g, c)'
    <2>1. c \in Codes
      BY <1>1 DEF Asked, Query
    <2>2. /\ since'[g][c] \in Nat /\ Latest(c) \in Nat
          /\ since'[g][c] <= Latest(c)
          /\ ActiveVersions(c) # {} => ActiveVersions(c) = {Latest(c)}
          /\ ActiveVersions(c) = {} => Latest(c) = 0
      BY <1>1, <2>1, LatestBounds DEF ReadersInv, ReadersOK
    <2>3. since'[g][c] > 0 =>
            \E w \in ShownOf(g, c)' : w.active /\ w.version >= since'[g][c]
      <3> SUFFICES ASSUME since'[g][c] > 0
                   PROVE  \E w \in ShownOf(g, c)' :
                             w.active /\ w.version >= since'[g][c]
        OBVIOUS
      <3>1. Latest(c) \in ActiveVersions(c)
        BY <2>2
      <3>2. PICK w \in fine_rules : w.code = c /\ w.active /\ w.version = Latest(c)
        BY <3>1, VersionsDef
      <3> QED
        BY <1>3, <2>2, <3>2
    <2>4. ASSUME NEW w1 \in ShownOf(g, c)', NEW w2 \in ShownOf(g, c)',
                 w1.active, w2.active
          PROVE  w1 = w2
      <3>1. /\ w1 \in fine_rules /\ w1.code = c
            /\ w2 \in fine_rules /\ w2.code = c
        BY <1>2 DEF Selected
      <3>2. w1.version \in ActiveVersions(c) /\ w2.version \in ActiveVersions(c)
        BY <2>4, <3>1, VersionsDef
      <3> QED
        BY <1>1, <2>1, <2>2, <3>1, <3>2 DEF OneHistoryPerCode
    <2> QED
      BY <2>3, <2>4 DEF ShownActive
  <1>5. ASSUME NEW c \in Asked(query[g]), query[g].op = "ListVersions"
        PROVE  ShownComplete(g, c)'
    <2>1. c \in Codes /\ c = query[g].code
      BY <1>1, <1>5 DEF Asked, Query
    <2>2. ShownOf(g, c)' = {w \in fine_rules : w.code = c}
      BY <1>2, <1>5, <2>1 DEF Selected
    <2>3. ASSUME NEW w \in fine_rules, w.code = c, NEW k \in 1..w.version
          PROVE  \E x \in fine_rules : x.code = c /\ x.version = k
      <3>1. k \in Versions(c)
        BY <1>1, <2>1, <2>3 DEF OneHistoryPerCode
      <3> QED
        BY <3>1, VersionsDef
    <2> QED
      BY <2>2, <2>3 DEF ShownComplete
  <1>6. ASSUME NEW w \in shown'[g] PROVE StillTrue(w)'
    <2>1. w \in fine_rules /\ w \in Row
      BY <1>1 DEF Selected, WritersOK
    <2>2. [w EXCEPT !.active = w.active] = w
      BY <2>1 DEF Row
    <2> QED
      BY <1>1, <2>1, <2>2 DEF StillTrue
  <1>7. Asked(query[g])' = Asked(query[g])
    BY <1>1 DEF Asked
  <1> QED
    BY <1>1, <1>4, <1>5, <1>6, <1>7 DEF SeesOneHistory

\* What a reader was answered stays true while others publish.
LEMMA ReaderFrame ==
    ASSUME RulesInv, ReadersInv, [Next]_vars, NEW g \in Readers,
           reply[g] \in {"200", "404"},
           query'[g] = query[g], shown'[g] = shown[g], since'[g] = since[g]
    PROVE  SeesOneHistory(g)'
  <1>1. SeesOneHistory(g) /\ shown[g] \subseteq Row
    BY DEF ReadersInv, ReadersOK, ReadersSeeOneHistory
  <1>2. \A w \in shown[g] : StillTrue(w)'
    BY <1>1, StaysTrue DEF SeesOneHistory
  <1>3. \A c : /\ ShownActive(g, c)' <=> ShownActive(g, c)
               /\ ShownComplete(g, c)' <=> ShownComplete(g, c)
    BY DEF ShownActive, ShownComplete, ShownOf
  <1>4. Asked(query[g])' = Asked(query[g])
    BY DEF Asked
  <1> QED
    BY <1>1, <1>2, <1>3, <1>4 DEF SeesOneHistory

\* What a step does to one reader.
LEMMA ReaderStep ==
    ASSUME RulesInv, ReadersInv, [Next]_vars, NEW g \in Readers
    PROVE  \/ /\ query'[g] = query[g] /\ shown'[g] = shown[g]
              /\ since'[g] = since[g]
              /\ \/ reply'[g] = reply[g]
                 \/ reply[g] # "idle" /\ reply'[g] \in {"500", "lost"}
           \/ /\ query'[g] \in Query /\ shown'[g] = shown[g]
              /\ since'[g] = [c \in Codes |-> Latest(c)]
              /\ reply'[g] \in {"none", "403"}
           \/ Select(g)
  <1>1. ReadersOK
    BY DEF ReadersInv
  <1>2. CASE UNCHANGED readers
    BY <1>2 DEF readers
  <1>3. ASSUME NEW h \in Readers, Reading(h), h # g PROVE
              /\ query'[g] = query[g] /\ shown'[g] = shown[g]
              /\ since'[g] = since[g] /\ reply'[g] = reply[g]
    BY <1>1, <1>3 DEF Reading, Ask, Select, ReadFails, ReadersOK
  <1>4. ASSUME NEW role \in {"officer", "member"}, NEW q \in Query,
               Ask(g, role, q.op, q.code)
        PROVE  /\ query'[g] \in Query /\ shown'[g] = shown[g]
               /\ since'[g] = [c \in Codes |-> Latest(c)]
               /\ reply'[g] \in {"none", "403"}
    BY <1>1, <1>4 DEF Ask, ReadersOK, Query
  <1>5. ASSUME ReadFails(g) \/ Crash
        PROVE  /\ query'[g] = query[g] /\ shown'[g] = shown[g]
               /\ since'[g] = since[g]
               /\ \/ reply'[g] = reply[g]
                  \/ reply[g] # "idle" /\ reply'[g] \in {"500", "lost"}
    BY <1>1, <1>5 DEF ReadFails, Crash, ReadersOK
  <1>6. \/ UNCHANGED readers \/ Crash
        \/ \E h \in Readers : Reading(h)
    BY DEF Next, vars, Reading, Receive, Statement, Server, StatementFails,
           GetActive, Insert, Begin, Deactivate, LockRow, InsertVersion,
           Commit, ServerEnds, OrphanInsert
  <1> QED
    BY <1>2, <1>3, <1>4, <1>5, <1>6 DEF Reading

\* Every step keeps what the readers rely on.
LEMMA NextReaders == RulesInv /\ ReadersInv /\ [Next]_vars => ReadersInv'
  <1> SUFFICES ASSUME RulesInv, ReadersInv, [Next]_vars PROVE ReadersInv'
    OBVIOUS
  <1>1. ReadersOK /\ fine_rules \subseteq Row
    BY DEF ReadersInv, RulesInv, WritersOK
  <1>2. \A c \in Codes : Latest(c) \in Nat /\ Latest(c)' \in Nat
                         /\ Latest(c) <= Latest(c)'
    BY LatestKept
  <1>3. ReadersOK'
    <2>1. CASE UNCHANGED readers
      BY <1>1, <2>1 DEF readers, ReadersOK
    <2>2. ASSUME NEW g \in Readers, Reading(g) PROVE ReadersOK'
      <3>1. ASSUME NEW role \in {"officer", "member"}, NEW q \in Query,
                   Ask(g, role, q.op, q.code)
            PROVE  ReadersOK'
        <4>1. [k \in Codes |-> Latest(k)] \in [Codes -> Nat]
          BY <1>2
        <4>2. [op |-> q.op, code |-> q.code] \in Query
          BY DEF Query
        <4> QED
          BY <1>1, <3>1, <4>1, <4>2 DEF Ask, ReadersOK
      <3>2. ASSUME Select(g) PROVE ReadersOK'
        <4>1. Selected(query[g]) \subseteq Row
          BY <1>1 DEF Selected
        <4> QED
          BY <1>1, <3>2, <4>1 DEF Select, ReadersOK
      <3>3. ASSUME ReadFails(g) PROVE ReadersOK'
        BY <1>1, <3>3 DEF ReadFails, ReadersOK
      <3> QED
        BY <2>2, <3>1, <3>2, <3>3 DEF Reading
    <2>3. CASE Crash
      BY <1>1, <2>3 DEF Crash, ReadersOK
    <2>4. \/ UNCHANGED readers \/ Crash
          \/ \E g \in Readers : Reading(g)
      BY DEF Next, vars, Reading, Receive, Statement, Server, StatementFails,
             GetActive, Insert, Begin, Deactivate, LockRow, InsertVersion,
             Commit, ServerEnds, OrphanInsert
    <2> QED
      BY <2>1, <2>2, <2>3, <2>4
  <1>4. ASSUME NEW g \in Readers, reply'[g] \in {"200", "404"}
        PROVE  SeesOneHistory(g)'
    <2>1. CASE Select(g)
      BY <2>1, SelectSees
    <2>2. CASE ~Select(g)
      BY <1>4, <2>2, ReaderStep, ReaderFrame
    <2> QED
      BY <2>1, <2>2
  <1>5. ASSUME NEW g \in Readers, NEW c \in Codes
        PROVE  since'[g][c] <= Latest(c)'
    <2>1. since'[g] = since[g] \/ since'[g] = [k \in Codes |-> Latest(k)]
      BY ReaderStep DEF Select
    <2>2. since[g][c] \in Nat /\ since[g][c] <= Latest(c)
      BY <1>1 DEF ReadersInv, ReadersOK
    <2>3. since'[g][c] \in Nat /\ since'[g][c] <= Latest(c)
      BY <1>2, <2>1, <2>2
    <2> QED
      BY <1>2, <2>3
  <1>6. ASSUME NEW g \in Readers, reply'[g] # "idle" PROVE query'[g] \in Query
    <2>1. CASE Select(g)
      BY <2>1 DEF Select, ReadersInv
    <2>2. CASE ~Select(g)
      BY <1>6, <2>2, ReaderStep DEF ReadersInv
    <2> QED
      BY <2>1, <2>2
  <1> QED
    BY <1>3, <1>4, <1>5, <1>6 DEF ReadersInv, ReadersSeeOneHistory

\* What readers rely on holds in every reachable state: the active version
\* of a code never falls, and rows that were shown stay.
THEOREM ReadersInvHolds == Spec => []ReadersInv
  <1>1. Init => ReadersInv
    BY DEF Init, ReadersInv, ReadersOK, ReadersSeeOneHistory, Latest,
           ActiveVersions, NoQuery
  <1> QED
    BY <1>1, NextReaders, InvariantHolds, PTL DEF Spec

\* No reader of the rules looks into the gap between the two writes of an
\* Update, sees a version twice or a history with a hole, or is shown a row
\* that is later contradicted (RuleService.GetActiveByCode, ListActive and
\* ListVersions).
THEOREM ReadersSeeHistory == Spec => []ReadersSeeOneHistory
  <1>1. ReadersInv => ReadersSeeOneHistory
    BY DEF ReadersInv
  <1> QED
    BY <1>1, ReadersInvHolds, PTL

\* The rows have the types of the schema, requests and readers theirs, and
\* only open transactions hold locks.
THEOREM TypeCorrect == Spec => []TypeOK
  <1>1. RulesInv /\ ReadersInv => TypeOK
    BY DEF RulesInv, ReadersInv, TypeOK
  <1> QED
    BY <1>1, InvariantHolds, ReadersInvHolds, PTL

-----------------------------------------------------------------------------
(* Codes do not lose their active version, and lone Creates do not clash.  *)

ActiveKept == \A c \in Codes : Versions(c) # {} => ActiveVersions(c) # {}

\* A code that has a version has an active one, so that reports of it are
\* possible: no Update that fails, is overtaken or is cut off leaves a code
\* deactivated.
THEOREM NeverInactive == Spec => []ActiveKept
  <1>1. Init => ActiveKept
    BY DEF Init, ActiveKept, Versions
  <1>2. RulesInv /\ ActiveKept /\ [Next]_vars => ActiveKept'
    <2> SUFFICES ASSUME RulesInv, ActiveKept, [Next]_vars PROVE ActiveKept'
      OBVIOUS
    <2>1. CASE UNCHANGED fine_rules
      BY <2>1 DEF ActiveKept, Versions, ActiveVersions
    <2>2. ASSUME NEW c \in Codes, NEW L, NEW new, Publishes(c, L, new)
          PROVE  ActiveKept'
      BY <2>2, PublishedVersions DEF RulesInv, ActiveKept
    <2> QED
      BY <2>1, <2>2, TableStep
  <1> QED
    BY <1>1, <1>2, InvariantHolds, PTL DEF Spec

NoneYet(r) == Inserting(r) => Versions(Code(r)) = {}

\* A Create comes to its insert when its code has no version.
LEMMA ComesToInsert ==
    ASSUME RulesInv, ActiveKept, [Next]_vars, NEW r \in Requests,
           ~Inserting(r), Inserting(r)'
    PROVE  Versions(Code(r))' = {}
  <1>1. WritersOK /\ Coherent(r)
    BY DEF RulesInv
  <1>2. GetActive(r) /\ pc'[r] = "Insert"
    BY <1>1 DEF Next, vars, writers, tx, Receive, Statement, Server, StatementFails,
           Crash, GetActive, Insert, OrphanInsert, Begin, Deactivate, LockRow,
           InsertVersion, Commit, ServerEnds, Ask, Select, ReadFails, Inserting,
           Goto, Respond, At, Live, WritersOK
  <1>3. /\ ActiveVersions(Code(r)) = {} /\ UNCHANGED <<fine_rules, input>>
        /\ Code(r) \in Codes
    BY <1>1, <1>2 DEF GetActive, Goto, Respond, At, WritersOK, InputRow, Code,
                      Coherent
  <1>4. Versions(Code(r)) = {}
    BY <1>3 DEF ActiveKept
  <1> QED
    BY <1>3, <1>4 DEF Versions, Code

\* While it is there, it alone can publish a version of its code.
LEMMA StaysFirst ==
    ASSUME RulesInv, OneCreateAtATime, [Next]_vars, NEW r \in Requests,
           Inserting(r), Inserting(r)', Versions(Code(r)) = {}
    PROVE  Versions(Code(r))' = {}
  <1>1. WritersOK /\ Coherent(r) /\ r \in DOMAIN input
    BY DEF RulesInv, Coherent, Inserting
  <1>2. Code(r)' = Code(r)
    BY <1>1 DEF Next, vars, writers, Receive, Statement, Server, StatementFails,
           Crash, GetActive, Insert, OrphanInsert, Begin, Deactivate, LockRow,
           InsertVersion, Commit, ServerEnds, Ask, Select, ReadFails, Code,
           Coherent
  <1> DEFINE Silent == \A w \in fine_rules' : w.code # Code(r)
  <1>3. \A w \in fine_rules : w.code # Code(r)
    BY DEF Versions
  <1>4. ASSUME UNCHANGED fine_rules PROVE Silent
    BY <1>3, <1>4
  <1>5. ASSUME NEW q \in Requests, Insert(q) \/ OrphanInsert(q)
        PROVE  Silent
    <2>1. Inserting(q) /\ ~Inserting(q)'
      BY <1>1, <1>5 DEF Insert, OrphanInsert, At, Inserting, Respond, WritersOK,
                        RulesInv, Coherent, Live
    <2>2. Code(q) # Code(r)
      BY <2>1 DEF OneCreateAtATime
    <2> QED
      BY <1>3, <1>5, <2>2 DEF Insert, OrphanInsert, NewRow
  <1>6. ASSUME NEW q \in Requests, Commit(q) \/ ServerEnds(q),
               fine_rules' = Committed(q)
        PROVE  Silent
    <2>1. pc[q] = "Commit" \/ fine_rules' = fine_rules
      BY <1>6 DEF Commit, ServerEnds, At
    <2>2. CASE pc[q] = "Commit"
      <3>1. read[q] \in Versions(Code(q))
        BY <2>2 DEF RulesInv, Coherent
      <3>2. Code(q) # Code(r)
        BY <3>1
      <3>3. /\ \A w \in fine_rules : [w EXCEPT !.active = FALSE].code = w.code
            /\ NewRow(q, read[q] + 1).code = Code(q)
        BY <1>1 DEF WritersOK, Row, NewRow
      <3>4. \A x \in fine_rules' :
                \/ x = NewRow(q, read[q] + 1)
                \/ \E w \in fine_rules : x = w \/ x = [w EXCEPT !.active = FALSE]
        BY <1>6 DEF Committed
      <3> QED
        BY <1>3, <3>2, <3>3, <3>4
    <2> QED
      BY <1>3, <2>1, <2>2
  <1>7. \/ UNCHANGED fine_rules
        \/ \E q \in Requests : Insert(q) \/ OrphanInsert(q)
        \/ \E q \in Requests : /\ Commit(q) \/ ServerEnds(q)
                               /\ fine_rules' = Committed(q)
    BY DEF Next, vars, writers, Receive, Statement, Server, StatementFails,
           Crash, GetActive, Begin, Deactivate, LockRow, InsertVersion,
           Ask, Select, ReadFails, Commit, ServerEnds
  <1>8. Silent
    BY <1>4, <1>5, <1>6, <1>7
  <1> QED
    BY <1>2, <1>8 DEF Versions

\* When no two Creates of a code overlap, one that passes the check of
\* rule.go:90-93 succeeds: whoever comes second has been answered 409.
THEOREM LoneCreatesSucceed ==
    Spec /\ []OneCreateAtATime
        => [][\A r \in Requests : Insert(r) => answer'[r] = "201"]_vars
  <1> DEFINE Succeeds == \A r \in Requests : Insert(r) => answer'[r] = "201"
             AllFirst == \A r \in Requests : NoneYet(r)
  <1>1. Init => AllFirst
    BY DEF Init, NoneYet, Inserting
  <1>2. RulesInv /\ ActiveKept /\ OneCreateAtATime /\ AllFirst /\ [Next]_vars
            => AllFirst'
    BY ComesToInsert, StaysFirst DEF NoneYet
  <1>3. RulesInv /\ AllFirst /\ [Next]_vars => [Succeeds]_vars
    <2> SUFFICES ASSUME RulesInv, AllFirst, NEW r \in Requests, Insert(r)
                 PROVE  answer'[r] = "201"
      OBVIOUS
    <2>1. Versions(Code(r)) = {}
      BY DEF NoneYet, Inserting, Insert, At
    <2>2. ~Clash(r)
      BY <2>1, VersionsTyped DEF Clash, RulesInv
    <2> QED
      BY <2>2 DEF Insert, Respond, RulesInv, WritersOK
  <1> HIDE DEF AllFirst, Succeeds
  <1>4. Spec /\ []OneCreateAtATime => [][Succeeds]_vars
    BY <1>1, <1>2, <1>3, InvariantHolds, NeverInactive, PTL DEF Spec
  <1> QED
    BY <1>4 DEF Succeeds

=============================================================================
