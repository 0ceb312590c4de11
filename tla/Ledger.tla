-------------------------------- MODULE Ledger --------------------------------
(***************************************************************************)
(* What pay-to-relay promises: an invoice is credited to its owner at most *)
(* once and only after it was paid, and only owners of credited invoices   *)
(* are admitted.                                                           *)
(***************************************************************************)
EXTENDS Naturals

CONSTANTS Users, Invoices, OwnerOf

VARIABLES
    paid,     \* the invoices paid at the processor
    credits,  \* credits[i]: times i's amount was added to its owner's balance
    admitted  \* the users who may publish

vars == <<paid, credits, admitted>>

Init ==
    /\ paid = {}
    /\ credits = [i \in Invoices |-> 0]
    /\ admitted = {}

Pay(i) ==
    /\ paid' = paid \cup {i}
    /\ UNCHANGED <<credits, admitted>>

(* The owner is admitted with the credit, if the amount covers the fee.    *)
Credit(i) ==
    /\ i \in paid
    /\ credits[i] = 0
    /\ credits' = [credits EXCEPT ![i] = 1]
    /\ admitted' \in {admitted, admitted \cup {OwnerOf[i]}}
    /\ UNCHANGED paid

(* An invoice confirmed again covers a fee that was lowered since.         *)
Admit(i) ==
    /\ credits[i] = 1
    /\ admitted' = admitted \cup {OwnerOf[i]}
    /\ UNCHANGED <<paid, credits>>

Next == \E i \in Invoices : Pay(i) \/ Credit(i) \/ Admit(i)

Spec == Init /\ [][Next]_vars
=============================================================================
