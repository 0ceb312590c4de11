------------------------------ MODULE MCPayments ------------------------------
(* A payer with two invoices.  The safety run tells no states apart by     *)
(* `aborted`, which no action and no invariant but the type reads.         *)
EXTENDS Payments, TLC

CONSTANTS i1, i2, ann

MCOwnerOf == [i \in Invoices |-> ann]
MCView == <<invoiceVars, fee, database, cb, poll, tx>>
MCSymmetry == Permutations(Callbacks) \cup Permutations(Pollers)
=============================================================================
