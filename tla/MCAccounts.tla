----------------------------- MODULE MCAccounts -----------------------------
(* A small instance of Accounts for TLC. *)
EXTENDS Accounts, TLC

\* Addresses are stored in lower case, plates in upper case; a blank text
\* has no normal form that is stored.
MCNormal == [text \in EmailTexts \cup PlateTexts |->
               CASE text = "A" -> "a"
                 [] text = "B" -> "b"
                 [] text = "p" -> "P"
                 [] text = " " -> ""
                 [] OTHER      -> text]

\* Two members, one with a vehicle, and an officer.
MCFounders == "b" :> [id |-> "u1", password |-> "secret", role |-> "member"]
           @@ "m" :> [id |-> "u3", password |-> "secret", role |-> "member"]
           @@ "o" :> [id |-> "u2", password |-> "secret", role |-> "officer"]
MCFleet    == "P" :> [id |-> "w1", user |-> "u1"]

RequestSymmetry == Permutations(Requests)

=============================================================================
