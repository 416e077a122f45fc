----------------------------- MODULE MCReports -----------------------------
(* Small instances of Reports for TLC. *)
EXTENDS Reports, TLC

\* A text is an upper-case letter as stored, or its lower-case spelling;
\* "x" stands for a plate that is too short.
MCNormal == [text \in CodeTexts \cup PlateTexts |->
               CASE text = "c" -> "C"
                 [] text = "p" -> "P"
                 [] OTHER      -> text]

ReportsSymmetry == Permutations(Requests \ Alone) \cup Permutations(Members)
                     \cup Permutations(Amounts)

\* Requests that were told nothing but that they failed, or were refused,
\* are alike once they can insert nothing: no step depends on where such a
\* request was, how it failed or what it knew, and no property but TypeOK
\* asks.  What it has read of violations is kept, for ReadsStayTrue.
Failed(r)  == answer[r] \in {"500", "lost"}
Over(r)    == r \notin orphans /\ answer[r] \in {"403", "404", "422", "500", "lost"}

Of(requests, f) == [r \in requests \cap DOMAIN f |-> f[r]]

ReportsView ==
    LET over    == {r \in Requests : Over(r)}
        running == Requests \ over
        sources == running \cup DOMAIN violations IN
    <<tables, orphans,
      [r \in over |-> IF Failed(r) THEN "failed" ELSE "refused"],
      Of(sources, input), Of(sources, since), Of(running, cited),
      Of(running, pc), Of(running, plates), shown, Of(running, total),
      Of(running, held), Of(running, due),
      [r \in running |-> IF Failed(r) THEN "failed" ELSE answer[r]]>>

=============================================================================
