---------------------------- MODULE PlateRegistry ----------------------------
(***************************************************************************)
(* What the vehicle registry promises to the rest of the portal: a plate   *)
(* has at most one owner at a time, gets one only while it is free, and    *)
(* never passes from one owner to another in a single step.                *)
(*                                                                         *)
(* Accounts is the detailed model of the registry and implements this      *)
(* module; Payment and Reports use its actions as their environment.       *)
(***************************************************************************)
EXTENDS Tables

CONSTANTS Plates, Owners

VARIABLE owner  \* plate -> owner, for the plates that are registered

\* Whatever has been registered before.
Init == /\ DOMAIN owner \subseteq Plates
        /\ owner \in [DOMAIN owner -> Owners]

Register(plate, user) == /\ plate \notin DOMAIN owner
                         /\ owner' = Insert(owner, plate, user)

Remove(plate) == /\ plate \in DOMAIN owner
                 /\ owner' = Delete(owner, plate)

Next == \E plate \in Plates : \/ \E user \in Owners : Register(plate, user)
                              \/ Remove(plate)

Spec == Init /\ [][Next]_owner

=============================================================================
