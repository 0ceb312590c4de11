------------------------------- MODULE Payments -------------------------------
(***************************************************************************)
(* Pay-to-relay: admission invoices, from the request on the invoices page *)
(* to the credit that admits the payer.                                    *)
(*                                                                         *)
(* A payment is learnt twice: the processor calls the relay back (any      *)
(* worker, possibly late or more than once), and the maintenance worker    *)
(* polls the processor for the invoices that are pending.  Both write the  *)
(* status with one statement and confirm in a second, serializable         *)
(* transaction.  The other may run, the fee may change, and the process    *)
(* may die between any two of the statements; a transaction that finds a   *)
(* row changed since its snapshot is aborted, and nobody starts it again.  *)
(* Amounts and fees are in the unit of the settings, msats.                *)
(***************************************************************************)
EXTENDS Naturals, FiniteSets, FiniteSetsExt

CONSTANTS
    Users,
    Invoices,
    OwnerOf,    \* the pubkey each invoice is for
    Processor,  \* payments.processor in the settings
    Callbacks,  \* callback requests in progress
    Pollers,    \* runs of the maintenance worker's schedule in progress
    PollLimit,  \* rows findPendingInvoices returns at most
    MinBalance, \* limits.event.pubkey.minBalance
    Fees,       \* the admission fees operators set, 0 for none
    Sat,        \* units of a sat, 1000 in the code
    Faults      \* TRUE if processes may die and calls may fail

Processors == {"zebedee", "nodeless", "opennode", "lnbits", "lnurl"}

ASSUME PaymentsAssumption ==
    /\ Invoices # {}
    /\ OwnerOf \in [Invoices -> Users]
    /\ Processor \in Processors
    /\ PollLimit \in Nat \ {0}
    /\ MinBalance \in Nat
    /\ Fees \subseteq Nat /\ Fees # {}
    /\ Sat \in Nat \ {0}
    /\ Callbacks \cap Pollers = {}
    /\ Faults \in BOOLEAN

VARIABLES
    proc,      \* proc[i]: the invoice at the payment processor
    creating,  \* the invoices whose creating transaction is open
    fee,       \* the admission fee in the settings
    amount,    \* amount[i]: what the processor asks for, once it was requested
    status,    \* status[i]: the row's status, or "none" without a row
    confirmed, \* the invoices with confirmed_at
    credits,   \* credits[i]: times i's amount was added to its owner's balance
    admitted,  \* the users with is_admitted
    cb,        \* cb[k]: what callback request k is doing
    poll,      \* poll[p]: what poll p is doing
    tx,        \* tx[q]: the confirming transaction of callback or poll q
    asked,     \* history: asked[i]: the fees in force since i was requested
    aborted    \* history: the invoices of which a confirmation was aborted

invoiceVars == <<proc, creating, amount, asked>>

ledger == <<confirmed, credits, admitted>>

database == <<status, ledger>>

vars == <<invoiceVars, fee, database, cb, poll, tx, aborted>>

Confirmers == Callbacks \cup Pollers

ProcStates == {"none", "pending", "paid", "overpaid", "expired"}

Statuses == {"none", "pending", "completed", "expired"}

(* Mutant: a refunded or expired charge is reported like a paid one. *)
ReportRefunded(s) ==
    [status |-> IF s = "pending" THEN "pending" ELSE "completed",
     dated  |-> s \in {"paid", "expired"}]

(* Mutant: overpaid has no case in the mapping. *)
ReportUnmapped(s) ==
    [status |-> IF s = "paid" THEN "completed"
                ELSE IF s = "overpaid" THEN "undefined" ELSE "pending",
     dated  |-> s = "paid"]

(* How the processor's answers and callbacks are read: the status, and     *)
(* whether there is a confirmation date.  LNbits and LNURL only tell       *)
(* whether the invoice is paid.                                            *)
Report(s) ==
    [status |-> IF s \in {"paid", "overpaid"} THEN "completed"
                ELSE IF s = "expired" /\ Processor \notin {"lnbits", "lnurl"} THEN "expired"
                ELSE "pending",
     dated  |-> s = "paid"]

-----------------------------------------------------------------------------
IdleCb == [pc |-> "idle", inv |-> CHOOSE i \in Invoices : TRUE,
           told |-> "none", stored |-> "none", dated |-> FALSE]

IdlePoll == [pc |-> "idle", left |-> {}, inv |-> CHOOSE i \in Invoices : TRUE,
             told |-> "none"]

NoTx == [phase |-> "none", inv |-> CHOOSE i \in Invoices : TRUE, unseen |-> FALSE, stale |-> FALSE]

Init ==
    /\ proc = [i \in Invoices |-> "none"]
    /\ creating = {}
    /\ fee \in Fees
    /\ amount = [i \in Invoices |-> 0]
    /\ status = [i \in Invoices |-> "none"]
    /\ confirmed = {}
    /\ credits = [i \in Invoices |-> 0]
    /\ admitted = {}
    /\ cb = [k \in Callbacks |-> IdleCb]
    /\ poll = [p \in Pollers |-> IdlePoll]
    /\ tx = [q \in Confirmers |-> NoTx]
    /\ asked = [i \in Invoices |-> {}]
    /\ aborted = {}

(* The processor: payers pay, or do not.  Only Nodeless reports "overpaid". *)
Pay(i) ==
    /\ proc[i] = "pending"
    /\ \/ proc' = [proc EXCEPT ![i] = "paid"]
       \/ Processor = "nodeless" /\ proc' = [proc EXCEPT ![i] = "overpaid"]
    /\ UNCHANGED <<creating, amount, asked, fee, database, cb, poll, tx, aborted>>

Expire(i) ==
    /\ proc[i] = "pending"
    /\ proc' = [proc EXCEPT ![i] = "expired"]
    /\ UNCHANGED <<creating, amount, asked, fee, database, cb, poll, tx, aborted>>

(* Operators edit the fee in the settings. *)
ChangeFee(f) ==
    /\ f # fee
    /\ fee' = f
    /\ asked' = [i \in Invoices |-> IF proc[i] = "none" THEN {} ELSE asked[i] \cup {f}]
    /\ UNCHANGED <<proc, creating, amount, database, cb, poll, tx, aborted>>

-----------------------------------------------------------------------------
(* Rows and transactions. *)

(* A transaction that found no confirmation date writes the invoice's row  *)
(* and its owner's, and holds both from then on.                           *)
HasWritten(q) == tx[q].phase = "written" /\ tx[q].unseen

(* Nobody else has written the row of invoice i, or of user u, without     *)
(* having committed.  Creating an invoice writes the user's row first.     *)
InvoiceRowFree(q, i) ==
    \A r \in Confirmers \ {q} : HasWritten(r) => tx[r].inv # i

UserRowFree(q, u) ==
    /\ \A r \in Confirmers \ {q} : HasWritten(r) => OwnerOf[tx[r].inv] # u
    /\ \A j \in creating : OwnerOf[j] # u

(* Invoice i's row changes: a snapshot taken before is out of date for the *)
(* transactions that have yet to write it.                                 *)
InvoiceWritten(i) ==
    tx' = [q \in Confirmers |->
              IF tx[q].phase = "open" /\ tx[q].unseen /\ tx[q].inv = i
              THEN [tx[q] EXCEPT !.stale = TRUE] ELSE tx[q]]

(* The same for user u's row. *)
UserWritten(u) ==
    [q \in Confirmers |->
        IF tx[q].phase # "none" /\ ~HasWritten(q) /\ OwnerOf[tx[q].inv] = u
        THEN [tx[q] EXCEPT !.stale = TRUE] ELSE tx[q]]

-----------------------------------------------------------------------------
(* The invoices page. *)

Balance(u) ==
    MapThenSumSet(LAMBDA i : credits[i] * amount[i], {i \in Invoices : OwnerOf[i] = u})

(* Zebedee and LNURL are asked for msats, the others for whole sats.       *)
Charged(f) == IF Processor \in {"zebedee", "lnurl"} THEN f ELSE (f \div Sat) * Sat

(* There is a fee, and the user is not admitted, or short of the balance;  *)
(* createInvoice opens a transaction, writes the user's row and asks the   *)
(* processor within it.  One that had to wait for the row is aborted.      *)
RequestInvoice(i) ==
    /\ proc[i] = "none"
    /\ fee > 0
    /\ OwnerOf[i] \notin admitted \/ Balance(OwnerOf[i]) < MinBalance
    /\ \A q \in Confirmers : HasWritten(q) => OwnerOf[tx[q].inv] # OwnerOf[i]
    /\ \A j \in creating : OwnerOf[j] # OwnerOf[i]
    /\ proc' = [proc EXCEPT ![i] = "pending"]
    /\ amount' = [amount EXCEPT ![i] = Charged(fee)]
    /\ asked' = [asked EXCEPT ![i] = {fee}]
    /\ creating' = creating \cup {i}
    /\ UNCHANGED <<fee, database, cb, poll, tx, aborted>>

(* The row is inserted with the status the processor answered then. *)
CommitInvoice(i) ==
    /\ i \in creating
    /\ creating' = creating \ {i}
    /\ status' = [status EXCEPT ![i] = "pending"]
    /\ tx' = UserWritten(OwnerOf[i])
    /\ UNCHANGED <<proc, amount, asked, fee, ledger, cb, poll, aborted>>

(* Rollback: the invoice stays payable, and the relay does not know it. *)
RollbackInvoice(i) ==
    /\ Faults
    /\ i \in creating
    /\ creating' = creating \ {i}
    /\ UNCHANGED <<proc, amount, asked, fee, database, cb, poll, tx, aborted>>

-----------------------------------------------------------------------------
(* Confirmation, one serializable transaction of callback or poll q. *)

(* Its snapshot is that of its first statement, confirm_invoice: does it   *)
(* see a confirmation date?                                                *)
Begin(q, i) ==
    /\ tx[q].phase = "none"
    /\ tx' = [tx EXCEPT ![q] = [phase |-> "open", inv |-> i,
                                unseen |-> i \notin confirmed, stale |-> FALSE]]
    /\ UNCHANGED <<invoiceVars, fee, database, cb, poll, aborted>>

(* Mutant: confirm_invoice is committed on its own. *)
CreditAtOnce(q) ==
    IF tx[q].unseen
    THEN /\ confirmed' = confirmed \cup {tx[q].inv}
         /\ credits' = [credits EXCEPT ![tx[q].inv] = @ + 1]
    ELSE UNCHANGED <<confirmed, credits>>

(* What it writes nobody sees before the commit. *)
CreditUnseen(q) == UNCHANGED <<confirmed, credits>>

(* Mutant: the default isolation level, under which an update goes on with *)
(* the row as it is now.                                                   *)
MayAlways(q) == TRUE

(* First updater wins: a row changed since the snapshot may not be written. *)
MayWrite(q) == ~tx[q].stale

(* confirm_invoice waits for the rows it writes. *)
Credit(q) ==
    LET i == tx[q].inv IN
    /\ tx[q].phase = "open"
    /\ tx[q].unseen => InvoiceRowFree(q, i) /\ UserRowFree(q, OwnerOf[i]) /\ MayWrite(q)
    /\ tx' = [tx EXCEPT ![q].phase = "written"]
    /\ CreditUnseen(q)
    /\ UNCHANGED <<invoiceVars, fee, status, admitted, cb, poll, aborted>>

(* Mutant: no controller passes the unit. *)
PaidSats(q) == amount[tx[q].inv] \div Sat

(* The amount in msats; OpenNode's callback does not pass the unit, so     *)
(* that sats are taken for msats.                                          *)
PaidMsats(q) ==
    IF Processor = "opennode" /\ q \in Callbacks
    THEN amount[tx[q].inv] \div Sat ELSE amount[tx[q].inv]

(* The fee is that of the settings now; when there is none nobody is       *)
(* admitted.                                                               *)
CoversFee(q) == fee > 0 /\ PaidMsats(q) >= fee

(* The payer is admitted if the amount covers the fee, and all is          *)
(* committed.  A transaction that credited nothing writes the user's row   *)
(* only now.                                                               *)
Commit(q) ==
    LET i == tx[q].inv
        u == OwnerOf[i]
        writesUser == tx[q].unseen \/ CoversFee(q)
    IN  /\ tx[q].phase = "written"
        /\ ~tx[q].unseen /\ CoversFee(q) => UserRowFree(q, u) /\ MayWrite(q)
        /\ confirmed' = IF tx[q].unseen THEN confirmed \cup {i} ELSE confirmed
        /\ credits' = IF tx[q].unseen THEN [credits EXCEPT ![i] = @ + 1] ELSE credits
        /\ admitted' = IF CoversFee(q) THEN admitted \cup {u} ELSE admitted
        /\ tx' = IF writesUser THEN [UserWritten(u) EXCEPT ![q] = NoTx] ELSE [tx EXCEPT ![q] = NoTx]
        /\ UNCHANGED <<status, aborted>>

(* Error 40001, or another failure: everything is rolled back, the error   *)
(* is logged, and nothing starts the transaction again.                    *)
Abort(q) ==
    /\ tx[q].phase # "none"
    /\ tx[q].stale \/ Faults
    /\ tx' = [tx EXCEPT ![q] = NoTx]
    /\ aborted' = aborted \cup {tx[q].inv}
    /\ UNCHANGED database

-----------------------------------------------------------------------------
(* Callbacks. *)

(* The body tells the state the processor was in when it sent it; the      *)
(* LNbits controller asks the processor instead.                           *)
ReceiveCallback(k, i) ==
    /\ cb[k].pc = "idle"
    /\ Processor # "lnurl"
    /\ proc[i] # "none"
    /\ \E told \in IF Processor = "lnbits" THEN {proc[i]} ELSE {"pending", proc[i]} :
           cb' = [cb EXCEPT ![k] = [IdleCb EXCEPT !.inv = i, !.told = told,
                                    !.pc = IF Processor = "lnbits" THEN "find" ELSE "update"]]
    /\ UNCHANGED <<invoiceVars, fee, database, poll, tx, aborted>>

(* LNbits: the row is read before the update, 404 without one. *)
FindInvoice(k) ==
    LET i == cb[k].inv IN
    /\ cb[k].pc = "find"
    /\ cb' = [cb EXCEPT ![k] = IF status[i] = "none" THEN IdleCb
                               ELSE [@ EXCEPT !.pc = "update", !.stored = status[i]]]
    /\ UNCHANGED <<invoiceVars, fee, database, poll, tx, aborted>>

(* What lets a callback go on to confirmInvoice: for LNbits, a completed   *)
(* invoice that was not completed before (409 otherwise); for the others,  *)
(* the updated row is completed or has a confirmation date.                *)
Proceeds(k) ==
    LET i == cb[k].inv
        told == Report(cb[k].told)
    IN IF Processor = "lnbits"
       THEN told.status = "completed" /\ cb[k].stored # "completed"
       ELSE told.status = "completed" \/ i \in confirmed

(* OpenNode's controller takes the date from the row, the others from the  *)
(* processor.                                                              *)
DateGiven(k) ==
    IF Processor = "opennode" THEN cb[k].inv \in confirmed ELSE Report(cb[k].told).dated

(* The status is written whatever it was; without a row, reading the       *)
(* result raises.                                                          *)
UpdateByCallback(k) ==
    LET i == cb[k].inv IN
    /\ cb[k].pc = "update"
    /\ IF status[i] = "none"
       THEN /\ cb' = [cb EXCEPT ![k] = IdleCb]
            /\ UNCHANGED <<status, tx>>
       ELSE /\ InvoiceRowFree(k, i)
            /\ status' = [status EXCEPT ![i] = Report(cb[k].told).status]
            /\ InvoiceWritten(i)
            /\ cb' = [cb EXCEPT ![k] = IF Proceeds(k)
                                       THEN [@ EXCEPT !.pc = "confirm", !.dated = DateGiven(k)]
                                       ELSE IdleCb]
    /\ UNCHANGED <<invoiceVars, fee, ledger, poll, aborted>>

(* confirmInvoice wants a date and a completed status. *)
Confirmable(k) == cb[k].dated /\ Report(cb[k].told).status = "completed"

ConfirmByCallback(k) ==
    /\ cb[k].pc = "confirm"
    /\ \/ Confirmable(k) /\ Begin(k, cb[k].inv)
       \/ Credit(k)
       \/ /\ \/ ~Confirmable(k) /\ UNCHANGED <<database, tx, aborted>>
             \/ Commit(k)
             \/ Abort(k)
          /\ cb' = [cb EXCEPT ![k] = IdleCb]
          /\ UNCHANGED <<invoiceVars, fee, poll>>

(* The database rolls back the transaction of a process that dies. *)
CallbackDies(k) ==
    /\ Faults
    /\ cb[k].pc # "idle"
    /\ cb' = [cb EXCEPT ![k] = IdleCb]
    /\ tx' = [tx EXCEPT ![k] = NoTx]
    /\ UNCHANGED <<invoiceVars, fee, database, poll, aborted>>

-----------------------------------------------------------------------------
(* The maintenance worker. *)

Pending == {i \in Invoices : status[i] = "pending"}

(* Up to PollLimit pending rows, in no order the query asks for. *)
StartPoll(p) ==
    /\ poll[p].pc = "idle"
    /\ \E batch \in SUBSET Pending :
           /\ batch # {}
           /\ Cardinality(batch) = PollLimit \/ (batch = Pending /\ Cardinality(batch) < PollLimit)
           /\ poll' = [poll EXCEPT ![p].pc = "fetch", ![p].left = batch]
    /\ UNCHANGED <<invoiceVars, fee, database, cb, tx, aborted>>

(* After one invoice the next, and after the last the poll ends. *)
ToNext(left) ==
    [IdlePoll EXCEPT !.pc = IF left = {} THEN "idle" ELSE "fetch", !.left = left]

(* Ask the processor for one invoice; the answer is used after a delay. *)
PollInvoice(p, i) ==
    /\ poll[p].pc = "fetch"
    /\ i \in poll[p].left
    /\ \/ poll' = [poll EXCEPT ![p] = [pc |-> "update", left |-> @.left \ {i},
                                       inv |-> i, told |-> proc[i]]]
       \/ Faults /\ poll' = [poll EXCEPT ![p] = ToNext(@.left \ {i})]
    /\ UNCHANGED <<invoiceVars, fee, database, cb, tx, aborted>>

(* Mutant: the date is looked up in the row, as OpenNode's callback does. *)
PollProceedsDated(p) ==
    Report(poll[p].told).status = "completed" /\ poll[p].inv \in confirmed

(* The row was pending when the poll began. *)
PollProceeds(p) ==
    Report(poll[p].told).status = "completed" /\ Report(poll[p].told).dated

UpdateByPoll(p) ==
    LET i == poll[p].inv IN
    /\ poll[p].pc = "update"
    /\ InvoiceRowFree(p, i)
    /\ status' = [status EXCEPT ![i] = Report(poll[p].told).status]
    /\ InvoiceWritten(i)
    /\ poll' = [poll EXCEPT ![p] = IF PollProceeds(p) THEN [@ EXCEPT !.pc = "confirm"]
                                   ELSE ToNext(@.left)]
    /\ UNCHANGED <<invoiceVars, fee, ledger, cb, aborted>>

ConfirmByPoll(p) ==
    /\ poll[p].pc = "confirm"
    /\ \/ Begin(p, poll[p].inv)
       \/ Credit(p)
       \/ /\ Commit(p) \/ Abort(p)
          /\ poll' = [poll EXCEPT ![p] = ToNext(@.left)]
          /\ UNCHANGED <<invoiceVars, fee, cb>>

PollDies(p) ==
    /\ Faults
    /\ poll[p].pc # "idle"
    /\ poll' = [poll EXCEPT ![p] = IdlePoll]
    /\ tx' = [tx EXCEPT ![p] = NoTx]
    /\ UNCHANGED <<invoiceVars, fee, database, cb, aborted>>

-----------------------------------------------------------------------------
CallbackStep(k) == FindInvoice(k) \/ UpdateByCallback(k) \/ ConfirmByCallback(k)

PollStep(p) ==
    \/ StartPoll(p)
    \/ \E i \in Invoices : PollInvoice(p, i)
    \/ UpdateByPoll(p)
    \/ ConfirmByPoll(p)

Next ==
    \/ \E i \in Invoices :
          \/ RequestInvoice(i) \/ CommitInvoice(i) \/ RollbackInvoice(i)
          \/ Pay(i) \/ Expire(i)
    \/ \E f \in Fees : ChangeFee(f)
    \/ \E k \in Callbacks :
          \/ \E i \in Invoices : ReceiveCallback(k, i)
          \/ CallbackStep(k)
          \/ CallbackDies(k)
    \/ \E p \in Pollers : PollStep(p) \/ PollDies(p)

Spec == Init /\ [][Next]_vars

(* Requests in progress go on, the processor answers what it is asked, and *)
(* the schedule fires every minute.  Nobody has to pay, and the processor  *)
(* need not call back.                                                     *)
Fairness ==
    /\ \A i \in Invoices : WF_vars(CommitInvoice(i))
    /\ \A k \in Callbacks : WF_vars(CallbackStep(k))
    /\ \A p \in Pollers : WF_vars(PollStep(p))

FairSpec == Spec /\ Fairness

-----------------------------------------------------------------------------
(* Properties. *)

(* The type invariant: every variable of the invoices, callbacks, polls    *)
(* and transactions holds values of its kind.                              *)
TypeOK ==
    /\ proc \in [Invoices -> ProcStates]
    /\ creating \subseteq Invoices
    /\ fee \in Fees
    /\ amount \in [Invoices -> Nat]
    /\ status \in [Invoices -> Statuses]
    /\ confirmed \subseteq Invoices
    /\ credits \in [Invoices -> Nat]
    /\ admitted \subseteq Users
    /\ cb \in [Callbacks -> [pc: {"idle", "find", "update", "confirm"}, inv: Invoices,
                             told: ProcStates, stored: Statuses, dated: BOOLEAN]]
    /\ poll \in [Pollers -> [pc: {"idle", "fetch", "update", "confirm"}, inv: Invoices,
                             told: ProcStates, left: SUBSET Invoices]]
    /\ tx \in [Confirmers -> [phase: {"none", "open", "written"}, inv: Invoices,
                              unseen: BOOLEAN, stale: BOOLEAN]]
    /\ asked \in [Invoices -> SUBSET Fees]
    /\ aborted \subseteq Invoices

Paid == {i \in Invoices : proc[i] \in {"paid", "overpaid"}}

(* A confirmed invoice was added to its owner's balance once and no other  *)
(* was, whichever of a callback, its duplicates and overlapping polls      *)
(* confirm it, and whichever die or are aborted half-way.                  *)
CreditedOnce == \A i \in Invoices : credits[i] = IF i \in confirmed THEN 1 ELSE 0

(* Nothing is given away: a confirmed invoice was paid, even when statuses *)
(* arrive late, out of order or for an invoice that has expired.           *)
ConfirmedIsPaid ==
    /\ confirmed \subseteq Paid
    /\ admitted \subseteq {OwnerOf[i] : i \in Paid}

(* A payer whose invoice covers every fee that was set since they asked    *)
(* for it is not charged and left out: once the invoice is confirmed they  *)
(* are admitted, whoever confirms it and whatever fails.                   *)
ConfirmedIsAdmitted ==
    \A i \in confirmed :
        (\A f \in asked[i] : 0 < f /\ f <= amount[i]) => OwnerOf[i] \in admitted

(* "Admission fee charged per public key in msats": a payer who was asked  *)
(* for the one fee that was ever set, and was credited what they paid, is  *)
(* admitted.                                                               *)
ChargedIsAdmitted ==
    \A i \in confirmed : asked[i] = {fee} => OwnerOf[i] \in admitted

LedgerOf == INSTANCE Ledger WITH paid <- Paid

(* The callbacks and polls together implement the ledger. *)
ImplementsLedger == LedgerOf!Spec

(* A paid invoice that the relay has a row for admits its owner, by        *)
(* callback or poll, whatever the order of the two, unless a transaction   *)
(* that would have confirmed it was aborted.                               *)
PaidIsAdmitted ==
    \A i \in Invoices :
        (proc[i] = "paid" /\ status[i] # "none") ~> (OwnerOf[i] \in admitted \/ i \in aborted)

(* "Wait until the screen indicates that payment was received", then "Send *)
(* a couple notes to test": the screen waits for the status completed.     *)
CompletedIsAdmitted ==
    \A i \in Invoices : status[i] = "completed" ~> OwnerOf[i] \in admitted

(* The same, but for the invoices of which a confirmation was aborted.     *)
CompletedIsAdmittedOrAborted ==
    \A i \in Invoices :
        status[i] = "completed" ~> (OwnerOf[i] \in admitted \/ i \in aborted)
=============================================================================
