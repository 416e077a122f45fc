------------------------------ MODULE MCPortal ------------------------------
(* A small instance of Portal for TLC. *)
EXTENDS Portal, TLC

MCNormal == [text \in CodeTexts \cup PlateTexts |->
               IF text = "p" THEN "P" ELSE text]

=============================================================================
