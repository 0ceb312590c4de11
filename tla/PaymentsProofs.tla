---------------------------- MODULE PaymentsProofs ----------------------------
(***************************************************************************)
(* Theorems about pay-to-relay, for any users, invoices, fees, processor,  *)
(* callbacks and pollers, with faults or without.                          *)
(***************************************************************************)
EXTENDS Payments, TLAPS

Callback == [pc: {"idle", "find", "update", "confirm"}, inv: Invoices,
             told: ProcStates, stored: Statuses, dated: BOOLEAN]

Poll == [pc: {"idle", "fetch", "update", "confirm"}, inv: Invoices,
         told: ProcStates, left: SUBSET Invoices]

Transaction == [phase: {"none", "open", "written"}, inv: Invoices,
                unseen: BOOLEAN, stale: BOOLEAN]

PaidStates == {"paid", "overpaid"}

(* The fee that is set now is among those that were since the invoice was  *)
(* requested.                                                              *)
FeeIsAsked == \A i \in Invoices : proc[i] # "none" => fee \in asked[i]

(* What a callback or a poll was told of a payment is still so when it     *)
(* acts on it: a processor never takes a payment back.                     *)
ToldIsTrue ==
    /\ \A k \in Callbacks : cb[k].told \in PaidStates => proc[cb[k].inv] = cb[k].told
    /\ \A p \in Pollers : poll[p].told \in PaidStates => proc[poll[p].inv] = poll[p].told

(* A poll that is about to confirm was told of a completed payment. *)
PollMayConfirm == \A p \in Pollers : poll[p].pc = "confirm" => poll[p].told \in PaidStates

(* OpenNode's callback has a date for invoices that are confirmed only, so *)
(* its confirmation credits nothing.                                       *)
RowDateIsConfirmed ==
    \A k \in Callbacks :
        Processor = "opennode" /\ cb[k].pc = "confirm" /\ cb[k].dated
            => cb[k].inv \in confirmed

(* A transaction is that of a callback or poll that may confirm, for the   *)
(* same invoice.                                                           *)
TxIsConfirmers ==
    /\ \A k \in Callbacks :
           tx[k].phase # "none" => cb[k].pc = "confirm" /\ Confirmable(k) /\ tx[k].inv = cb[k].inv
    /\ \A p \in Pollers :
           tx[p].phase # "none" => poll[p].pc = "confirm" /\ tx[p].inv = poll[p].inv

(* What a snapshot showed of the confirmation date is still so, unless the *)
(* snapshot is stale; to a transaction that has written the row it is.     *)
SnapshotHolds ==
    \A q \in Confirmers :
        tx[q].phase # "none" =>
            IF tx[q].unseen
            THEN tx[q].phase = "written" \/ ~tx[q].stale => tx[q].inv \notin confirmed
            ELSE tx[q].inv \in confirmed

(* The row of an invoice has one writer at a time. *)
OneWriter ==
    \A q, r \in Confirmers :
        HasWritten(q) /\ HasWritten(r) /\ tx[q].inv = tx[r].inv => q = r

PaymentsInv ==
    /\ TypeOK
    /\ FeeIsAsked
    /\ ToldIsTrue
    /\ PollMayConfirm
    /\ RowDateIsConfirmed
    /\ TxIsConfirmers
    /\ SnapshotHolds
    /\ OneWriter
    /\ CreditedOnce
    /\ ConfirmedIsPaid
    /\ ConfirmedIsAdmitted

-----------------------------------------------------------------------------
(* The invariant holds initially. *)

LEMMA IdleTyped == IdleCb \in Callback /\ IdlePoll \in Poll /\ NoTx \in Transaction
BY PaymentsAssumption
DEF IdleCb, IdlePoll, NoTx, Callback, Poll, Transaction, ProcStates, Statuses

LEMMA PaymentsInit == Init => PaymentsInv
<1>. SUFFICES ASSUME Init PROVE PaymentsInv
  OBVIOUS
<1>1. TypeOK
  BY IdleTyped DEF Init, TypeOK, Callback, Poll, Transaction, ProcStates, Statuses
<1>2. FeeIsAsked /\ ToldIsTrue /\ PollMayConfirm /\ RowDateIsConfirmed
  BY DEF Init, FeeIsAsked, ToldIsTrue, PollMayConfirm, RowDateIsConfirmed, IdleCb, IdlePoll,
         PaidStates
<1>3. TxIsConfirmers /\ SnapshotHolds /\ OneWriter
  BY DEF Init, TxIsConfirmers, SnapshotHolds, OneWriter, HasWritten, NoTx, Confirmers
<1>4. CreditedOnce /\ ConfirmedIsPaid /\ ConfirmedIsAdmitted
  BY DEF Init, CreditedOnce, ConfirmedIsPaid, ConfirmedIsAdmitted
<1>5. QED
  BY <1>1, <1>2, <1>3, <1>4 DEF PaymentsInv

-----------------------------------------------------------------------------
(* Type correctness. *)

LEMMA ReportTyped ==
    ASSUME NEW s
    PROVE  /\ Report(s).status \in Statuses
           /\ Report(s).dated \in BOOLEAN
           /\ Report(s).status = "completed" <=> s \in PaidStates
BY DEF Report, Statuses, PaidStates

LEMMA DateTyped ==
    ASSUME NEW k
    PROVE  DateGiven(k) \in BOOLEAN
<1>1. Report(cb[k].told).dated \in BOOLEAN
  BY ReportTyped
<1>2. (cb[k].inv \in confirmed) \in BOOLEAN
  OBVIOUS
<1>3. QED
  BY Zenon, <1>1, <1>2 DEF DateGiven

(* What is asked for is an amount. *)
LEMMA ChargedTyped == ASSUME NEW f \in Nat PROVE Charged(f) \in Nat
<1>1. f \div Sat \in Nat /\ Sat \in Nat
  BY PaymentsAssumption
<1>2. (f \div Sat) * Sat \in Nat
  BY <1>1
<1>3. QED
  BY <1>2 DEF Charged

(* A row that changes leaves a transaction what it is, though stale. *)
Kept(q) ==
    /\ tx'[q].phase = tx[q].phase
    /\ tx'[q].inv = tx[q].inv
    /\ tx'[q].unseen = tx[q].unseen
    /\ tx[q].stale => tx'[q].stale

LEMMA InvoiceWrittenKeeps ==
    ASSUME TypeOK, NEW i, InvoiceWritten(i)
    PROVE  tx' \in [Confirmers -> Transaction] /\ \A q \in Confirmers : Kept(q)
BY DEF TypeOK, InvoiceWritten, Transaction, Kept

LEMMA UserWrittenKeeps ==
    ASSUME TypeOK, NEW u
    PROVE  /\ UserWritten(u) \in [Confirmers -> Transaction]
           /\ \A q \in Confirmers :
                  /\ UserWritten(u)[q].phase = tx[q].phase
                  /\ UserWritten(u)[q].inv = tx[q].inv
                  /\ UserWritten(u)[q].unseen = tx[q].unseen
                  /\ tx[q].stale => UserWritten(u)[q].stale
                  /\ tx[q].phase # "none" /\ ~HasWritten(q) /\ OwnerOf[tx[q].inv] = u
                     => UserWritten(u)[q].stale
BY DEF TypeOK, UserWritten, Transaction

LEMMA InvoiceTyped ==
    ASSUME TypeOK, NEW i \in Invoices,
           \/ RequestInvoice(i) \/ CommitInvoice(i) \/ RollbackInvoice(i)
           \/ Pay(i) \/ Expire(i)
    PROVE  TypeOK'
<1>1. CASE RequestInvoice(i)
  <2>1. Charged(fee) \in Nat
    BY PaymentsAssumption, ChargedTyped DEF TypeOK
  <2>2. amount' \in [Invoices -> Nat] /\ asked' \in [Invoices -> SUBSET Fees]
    BY <1>1, <2>1 DEF RequestInvoice, TypeOK
  <2>3. QED
    BY <1>1, <2>2 DEF RequestInvoice, TypeOK, database, ledger, ProcStates
<1>2. CASE CommitInvoice(i)
  <2>1. tx' \in [Confirmers -> Transaction]
    BY <1>2, UserWrittenKeeps DEF CommitInvoice
  <2>2. QED
    BY <1>2, <2>1 DEF CommitInvoice, TypeOK, ledger, Statuses, Transaction
<1>3. CASE RollbackInvoice(i) \/ Pay(i) \/ Expire(i)
  BY <1>3 DEF RollbackInvoice, Pay, Expire, TypeOK, database, ledger, ProcStates
<1>4. QED
  BY <1>1, <1>2, <1>3

LEMMA FeeTyped ==
    ASSUME TypeOK, NEW f \in Fees, ChangeFee(f)
    PROVE  TypeOK'
<1>1. asked' \in [Invoices -> SUBSET Fees]
  BY DEF ChangeFee, TypeOK
<1>2. QED
  BY <1>1 DEF ChangeFee, TypeOK, database, ledger

(* The steps of a confirming transaction. *)
LEMMA ConfirmTyped ==
    ASSUME TypeOK, NEW q \in Confirmers, NEW i \in Invoices,
           Begin(q, i) \/ Credit(q) \/ Commit(q) \/ Abort(q)
    PROVE  /\ tx' \in [Confirmers -> Transaction]
           /\ confirmed' \subseteq Invoices
           /\ credits' \in [Invoices -> Nat]
           /\ admitted' \subseteq Users
           /\ aborted' \subseteq Invoices
           /\ status' = status
<1>0. /\ tx \in [Confirmers -> Transaction]
      /\ tx[q].inv \in Invoices /\ OwnerOf[tx[q].inv] \in Users
  BY PaymentsAssumption DEF TypeOK, Transaction
<1>1. CASE Begin(q, i)
  <2>1. tx' \in [Confirmers -> Transaction]
    <3>1. (i \notin confirmed) \in BOOLEAN
      OBVIOUS
    <3>2. [phase |-> "open", inv |-> i, unseen |-> i \notin confirmed, stale |-> FALSE]
              \in Transaction
      BY <3>1 DEF Transaction
    <3>3. QED
      BY Zenon, <1>0, <1>1, <3>2 DEF Begin
  <2>2. QED
    BY <1>1, <2>1 DEF Begin, TypeOK, database, ledger
<1>2. CASE Credit(q)
  <2>1. tx' \in [Confirmers -> Transaction]
    BY <1>0, <1>2 DEF Credit, Transaction
  <2>2. QED
    BY <1>2, <2>1 DEF Credit, CreditUnseen, TypeOK
<1>3. CASE Commit(q)
  <2>1. tx' \in [Confirmers -> Transaction]
    BY <1>0, <1>3, IdleTyped, UserWrittenKeeps DEF Commit
  <2>2. confirmed' \subseteq Invoices /\ credits' \in [Invoices -> Nat] /\ admitted' \subseteq Users
    BY <1>0, <1>3 DEF Commit, TypeOK
  <2>3. QED
    BY <1>3, <2>1, <2>2 DEF Commit, TypeOK
<1>4. CASE Abort(q)
  BY <1>0, <1>4, IdleTyped DEF Abort, TypeOK, database, ledger
<1>5. QED
  BY <1>1, <1>2, <1>3, <1>4

LEMMA CallbackTyped ==
    ASSUME TypeOK, NEW k \in Callbacks,
           \/ \E i \in Invoices : ReceiveCallback(k, i)
           \/ CallbackStep(k)
           \/ CallbackDies(k)
    PROVE  TypeOK'
<1>0. /\ cb \in [Callbacks -> Callback]
      /\ cb[k].inv \in Invoices
      /\ k \in Confirmers
  BY DEF TypeOK, Callback, Confirmers
<1>1. ASSUME NEW i \in Invoices, ReceiveCallback(k, i) PROVE TypeOK'
  <2>1. PICK told \in ProcStates :
            cb' = [cb EXCEPT ![k] = [IdleCb EXCEPT !.inv = i, !.told = told,
                                     !.pc = IF Processor = "lnbits" THEN "find" ELSE "update"]]
    BY <1>1 DEF ReceiveCallback, TypeOK, ProcStates
  <2>2. [IdleCb EXCEPT !.inv = i, !.told = told,
                       !.pc = IF Processor = "lnbits" THEN "find" ELSE "update"] \in Callback
    BY IdleTyped DEF Callback
  <2>3. cb' \in [Callbacks -> Callback]
    BY <1>0, <2>1, <2>2
  <2>4. QED
    BY <1>1, <2>3 DEF ReceiveCallback, invoiceVars, database, ledger, TypeOK, Callback
<1>2. CASE FindInvoice(k)
  <2>1. status[cb[k].inv] \in Statuses
    BY <1>0 DEF TypeOK
  <2>2. [cb[k] EXCEPT !.pc = "update", !.stored = status[cb[k].inv]] \in Callback
    BY <1>0, <2>1 DEF Callback
  <2>3. cb' \in [Callbacks -> Callback]
    BY <1>0, <1>2, <2>2, IdleTyped DEF FindInvoice
  <2>4. QED
    BY <1>2, <2>3 DEF FindInvoice, invoiceVars, database, ledger, TypeOK, Callback
<1>3. CASE UpdateByCallback(k)
  <2>1. DateGiven(k) \in BOOLEAN
    BY DateTyped
  <2>2. [cb[k] EXCEPT !.pc = "confirm", !.dated = DateGiven(k)] \in Callback
    BY <1>0, <2>1 DEF Callback
  <2>3. cb' \in [Callbacks -> Callback]
    BY <1>0, <1>3, <2>2, IdleTyped DEF UpdateByCallback
  <2>4. status' \in [Invoices -> Statuses]
    BY <1>0, <1>3, ReportTyped DEF UpdateByCallback, TypeOK
  <2>5. tx' \in [Confirmers -> Transaction]
    <3>1. CASE UNCHANGED tx
      BY <3>1 DEF TypeOK, Transaction
    <3>2. CASE InvoiceWritten(cb[k].inv)
      BY <3>2, InvoiceWrittenKeeps
    <3>3. QED
      BY <1>3, <3>1, <3>2 DEF UpdateByCallback
  <2>6. QED
    BY <1>3, <2>3, <2>4, <2>5
    DEF UpdateByCallback, invoiceVars, ledger, TypeOK, Callback, Transaction
<1>4. CASE ConfirmByCallback(k)
  <2>1. /\ tx' \in [Confirmers -> Transaction]
        /\ confirmed' \subseteq Invoices
        /\ credits' \in [Invoices -> Nat]
        /\ admitted' \subseteq Users
        /\ aborted' \subseteq Invoices
        /\ status' = status
    <3>1. CASE UNCHANGED <<database, tx, aborted>>
      BY <3>1 DEF TypeOK, Transaction, database, ledger
    <3>2. CASE Begin(k, cb[k].inv) \/ Credit(k) \/ Commit(k) \/ Abort(k)
      BY <1>0, <3>2, ConfirmTyped
    <3>3. QED
      BY <1>4, <3>1, <3>2 DEF ConfirmByCallback
  <2>2. cb' = cb \/ cb' = [cb EXCEPT ![k] = IdleCb]
    BY <1>4 DEF ConfirmByCallback, Begin, Credit
  <2>3. cb' \in [Callbacks -> Callback]
    BY <1>0, <2>2, IdleTyped
  <2>4. UNCHANGED <<invoiceVars, fee, poll>>
    BY <1>4 DEF ConfirmByCallback, Begin, Credit
  <2>5. QED
    BY <2>1, <2>3, <2>4 DEF invoiceVars, TypeOK, Callback, Transaction
<1>5. CASE CallbackDies(k)
  <2>1. cb' \in [Callbacks -> Callback] /\ tx' \in [Confirmers -> Transaction]
    BY <1>0, <1>5, IdleTyped DEF CallbackDies, TypeOK, Transaction
  <2>2. QED
    BY <1>5, <2>1 DEF CallbackDies, invoiceVars, database, ledger, TypeOK, Callback, Transaction
<1>6. QED
  BY <1>1, <1>2, <1>3, <1>4, <1>5 DEF CallbackStep

(* A poll that goes on with its batch, or ends. *)
LEMMA ToNextTyped ==
    ASSUME NEW rest \in SUBSET Invoices
    PROVE  /\ ToNext(rest) \in Poll
           /\ ToNext(rest).told = "none"
           /\ ToNext(rest).pc # "confirm"
BY IdleTyped DEF Poll, ToNext, IdlePoll

LEMMA PollTyped ==
    ASSUME TypeOK, NEW p \in Pollers, PollStep(p) \/ PollDies(p)
    PROVE  TypeOK'
<1>0. /\ poll \in [Pollers -> Poll]
      /\ poll[p].left \in SUBSET Invoices /\ poll[p].inv \in Invoices
      /\ p \in Confirmers
  BY DEF TypeOK, Poll, Confirmers
<1>1. CASE StartPoll(p)
  <2>1. PICK batch \in SUBSET Invoices :
            poll' = [poll EXCEPT ![p].pc = "fetch", ![p].left = batch]
    BY <1>1 DEF StartPoll, Pending
  <2>2. poll' \in [Pollers -> Poll]
    BY <1>0, <2>1 DEF Poll
  <2>3. QED
    BY <1>1, <2>2 DEF StartPoll, invoiceVars, database, ledger, TypeOK, Poll
<1>2. ASSUME NEW i \in Invoices, PollInvoice(p, i) PROVE TypeOK'
  <2>1. /\ poll[p].left \ {i} \in SUBSET Invoices
        /\ proc[i] \in ProcStates
    BY <1>0 DEF TypeOK
  <2>2. [pc |-> "update", left |-> poll[p].left \ {i}, inv |-> i, told |-> proc[i]] \in Poll
    BY <2>1 DEF Poll
  <2>3. poll' \in [Pollers -> Poll]
    BY <1>0, <1>2, <2>1, <2>2, ToNextTyped DEF PollInvoice
  <2>4. QED
    BY <1>2, <2>3 DEF PollInvoice, invoiceVars, database, ledger, TypeOK, Poll
<1>3. CASE UpdateByPoll(p)
  <2>1. [poll[p] EXCEPT !.pc = "confirm"] \in Poll
    BY <1>0 DEF Poll
  <2>2. poll' \in [Pollers -> Poll]
    BY <1>0, <1>3, <2>1, ToNextTyped DEF UpdateByPoll
  <2>3. status' \in [Invoices -> Statuses]
    BY <1>0, <1>3, ReportTyped DEF UpdateByPoll, TypeOK
  <2>4. tx' \in [Confirmers -> Transaction]
    BY <1>3, InvoiceWrittenKeeps DEF UpdateByPoll
  <2>5. QED
    BY <1>3, <2>2, <2>3, <2>4
    DEF UpdateByPoll, invoiceVars, ledger, TypeOK, Poll, Transaction
<1>4. CASE ConfirmByPoll(p)
  <2>1. /\ tx' \in [Confirmers -> Transaction]
        /\ confirmed' \subseteq Invoices
        /\ credits' \in [Invoices -> Nat]
        /\ admitted' \subseteq Users
        /\ aborted' \subseteq Invoices
        /\ status' = status
    <3>1. Begin(p, poll[p].inv) \/ Credit(p) \/ Commit(p) \/ Abort(p)
      BY <1>4 DEF ConfirmByPoll
    <3>2. QED
      BY <1>0, <3>1, ConfirmTyped
  <2>2. poll' = poll \/ poll' = [poll EXCEPT ![p] = ToNext(poll[p].left)]
    BY <1>0, <1>4 DEF ConfirmByPoll, Begin, Credit
  <2>3. poll' \in [Pollers -> Poll]
    BY <1>0, <2>2, ToNextTyped
  <2>4. UNCHANGED <<invoiceVars, fee, cb>>
    BY <1>4 DEF ConfirmByPoll, Begin, Credit
  <2>5. QED
    BY <2>1, <2>3, <2>4 DEF invoiceVars, TypeOK, Poll, Transaction
<1>5. CASE PollDies(p)
  <2>1. poll' \in [Pollers -> Poll] /\ tx' \in [Confirmers -> Transaction]
    BY <1>0, <1>5, IdleTyped DEF PollDies, TypeOK, Transaction
  <2>2. QED
    BY <1>5, <2>1 DEF PollDies, invoiceVars, database, ledger, TypeOK, Poll, Transaction
<1>6. QED
  BY <1>1, <1>2, <1>3, <1>4, <1>5 DEF PollStep

LEMMA TypeOKStep == TypeOK /\ [Next]_vars => TypeOK'
<1>1. TypeOK /\ UNCHANGED vars => TypeOK'
  BY DEF TypeOK, vars, invoiceVars, database, ledger
<1>2. QED
  BY <1>1, InvoiceTyped, FeeTyped, CallbackTyped, PollTyped DEF Next

(* Every variable keeps to its domain, those of the confirming             *)
(* transactions and the amounts asked for included.                        *)
THEOREM PaymentsTypeOK == Spec => []TypeOK
<1>1. Init => TypeOK
  BY PaymentsInit DEF PaymentsInv
<1>2. QED
  BY <1>1, TypeOKStep, PTL DEF Spec

-----------------------------------------------------------------------------
(* What one step does to the processor, the transactions and the ledger. *)

(* A payment is never taken back. *)
LEMMA PaidStaysPaid ==
    ASSUME TypeOK, [Next]_vars, NEW i \in Invoices, proc[i] \in PaidStates
    PROVE  proc'[i] = proc[i]
<1>1. CASE UNCHANGED vars
  BY <1>1 DEF vars, invoiceVars
<1>2. ASSUME NEW j \in Invoices,
             RequestInvoice(j) \/ CommitInvoice(j) \/ RollbackInvoice(j) \/ Pay(j) \/ Expire(j)
      PROVE  proc'[i] = proc[i]
  BY <1>2 DEF RequestInvoice, CommitInvoice, RollbackInvoice, Pay, Expire, PaidStates, TypeOK
<1>3. ASSUME NEW f \in Fees, ChangeFee(f) PROVE proc'[i] = proc[i]
  BY <1>3 DEF ChangeFee
<1>4. ASSUME NEW k \in Callbacks,
             (\E j \in Invoices : ReceiveCallback(k, j)) \/ CallbackStep(k) \/ CallbackDies(k)
      PROVE  proc'[i] = proc[i]
  BY <1>4 DEF CallbackStep, ReceiveCallback, FindInvoice, UpdateByCallback, ConfirmByCallback,
              CallbackDies, Begin, Credit, invoiceVars
<1>5. ASSUME NEW p \in Pollers, PollStep(p) \/ PollDies(p) PROVE proc'[i] = proc[i]
  BY <1>5 DEF PollStep, StartPoll, PollInvoice, UpdateByPoll, ConfirmByPoll, PollDies,
              Begin, Credit, invoiceVars
<1>6. QED
  BY <1>1, <1>2, <1>3, <1>4, <1>5 DEF Next

(* No step of a confirming transaction but its own begin, write and commit *)
(* touches the ledger or does more to a transaction than let its snapshot  *)
(* get out of date or end it.                                              *)
Aside == UNCHANGED ledger /\ \A q \in Confirmers : Kept(q) \/ tx'[q].phase = "none"

Confirming(q) ==
    /\ UNCHANGED <<invoiceVars, fee>>
    /\ (\E i \in Invoices : Begin(q, i)) \/ Credit(q) \/ Commit(q)

LEMMA UnchangedAside == UNCHANGED <<tx, ledger>> => Aside
BY DEF Aside, Kept

LEMMA EndAside ==
    ASSUME TypeOK, NEW q \in Confirmers, tx' = [tx EXCEPT ![q] = NoTx], UNCHANGED ledger
    PROVE  Aside
BY DEF Aside, Kept, NoTx, TypeOK

LEMMA TxStep ==
    ASSUME TypeOK, [Next]_vars
    PROVE  Aside \/ \E q \in Confirmers : Confirming(q)
<1>1. CASE UNCHANGED vars
  BY <1>1, UnchangedAside DEF vars, database
<1>2. ASSUME NEW i \in Invoices,
             RequestInvoice(i) \/ RollbackInvoice(i) \/ Pay(i) \/ Expire(i)
      PROVE  Aside
  BY <1>2, UnchangedAside DEF RequestInvoice, RollbackInvoice, Pay, Expire, database
<1>3. ASSUME NEW i \in Invoices, CommitInvoice(i) PROVE Aside
  BY <1>3, UserWrittenKeeps DEF CommitInvoice, Aside, Kept
<1>4. ASSUME NEW f \in Fees, ChangeFee(f) PROVE Aside
  BY <1>4, UnchangedAside DEF ChangeFee, database
<1>5. ASSUME NEW k \in Callbacks,
             (\E i \in Invoices : ReceiveCallback(k, i)) \/ CallbackStep(k) \/ CallbackDies(k)
      PROVE  Aside \/ \E q \in Confirmers : Confirming(q)
  <2>0. k \in Confirmers /\ cb[k].inv \in Invoices
    BY DEF Confirmers, TypeOK
  <2>1. CASE (\E i \in Invoices : ReceiveCallback(k, i)) \/ FindInvoice(k)
    BY <2>1, UnchangedAside DEF ReceiveCallback, FindInvoice, database
  <2>2. CASE UpdateByCallback(k)
    <3>1. UNCHANGED tx \/ InvoiceWritten(cb[k].inv)
      BY <2>2 DEF UpdateByCallback
    <3>2. UNCHANGED ledger
      BY <2>2 DEF UpdateByCallback
    <3>3. QED
      BY <3>1, <3>2, UnchangedAside, InvoiceWrittenKeeps DEF Aside
  <2>3. CASE ConfirmByCallback(k)
    <3>1. CASE UNCHANGED <<database, tx, aborted>>
      BY <3>1, UnchangedAside DEF database
    <3>2. CASE Begin(k, cb[k].inv) \/ Credit(k) \/ Commit(k)
      <4>1. UNCHANGED <<invoiceVars, fee>>
        BY <2>3 DEF ConfirmByCallback, Begin, Credit
      <4>2. QED
        BY <2>0, <3>2, <4>1 DEF Confirming
    <3>3. CASE Abort(k)
      BY <2>0, <3>3, EndAside DEF Abort, database
    <3>4. QED
      BY <2>3, <3>1, <3>2, <3>3 DEF ConfirmByCallback
  <2>4. CASE CallbackDies(k)
    BY <2>0, <2>4, EndAside DEF CallbackDies, database
  <2>5. QED
    BY <1>5, <2>1, <2>2, <2>3, <2>4 DEF CallbackStep
<1>6. ASSUME NEW p \in Pollers, PollStep(p) \/ PollDies(p)
      PROVE  Aside \/ \E q \in Confirmers : Confirming(q)
  <2>0. p \in Confirmers /\ poll[p].inv \in Invoices
    BY DEF Confirmers, TypeOK
  <2>1. CASE StartPoll(p) \/ \E i \in Invoices : PollInvoice(p, i)
    BY <2>1, UnchangedAside DEF StartPoll, PollInvoice, database
  <2>2. CASE UpdateByPoll(p)
    BY <2>2, InvoiceWrittenKeeps DEF UpdateByPoll, Aside
  <2>3. CASE ConfirmByPoll(p)
    <3>1. CASE Begin(p, poll[p].inv) \/ Credit(p) \/ Commit(p)
      <4>1. UNCHANGED <<invoiceVars, fee>>
        BY <2>3 DEF ConfirmByPoll, Begin, Credit
      <4>2. QED
        BY <2>0, <3>1, <4>1 DEF Confirming
    <3>2. CASE Abort(p)
      BY <2>0, <3>2, EndAside DEF Abort, database
    <3>3. QED
      BY <2>3, <3>1, <3>2 DEF ConfirmByPoll
  <2>4. CASE PollDies(p)
    BY <2>0, <2>4, EndAside DEF PollDies, database
  <2>5. QED
    BY <1>6, <2>1, <2>2, <2>3, <2>4 DEF PollStep
<1>7. QED
  BY <1>1, <1>2, <1>3, <1>4, <1>5, <1>6 DEF Next

(* A transaction is about an invoice that is paid. *)
LEMMA TxPaid ==
    ASSUME PaymentsInv, NEW q \in Confirmers, tx[q].phase # "none"
    PROVE  tx[q].inv \in Paid
<1>1. CASE q \in Callbacks
  <2>1. Confirmable(q) /\ tx[q].inv = cb[q].inv /\ cb[q].inv \in Invoices
    BY <1>1 DEF PaymentsInv, TxIsConfirmers, TypeOK
  <2>2. cb[q].told \in PaidStates
    BY <2>1, ReportTyped DEF Confirmable
  <2>3. QED
    BY <1>1, <2>1, <2>2 DEF PaymentsInv, ToldIsTrue, Paid, PaidStates
<1>2. CASE q \in Pollers
  <2>1. poll[q].pc = "confirm" /\ tx[q].inv = poll[q].inv /\ poll[q].inv \in Invoices
    BY <1>2 DEF PaymentsInv, TxIsConfirmers, TypeOK
  <2>2. QED
    BY <1>2, <2>1 DEF PaymentsInv, PollMayConfirm, ToldIsTrue, Paid, PaidStates
<1>3. QED
  BY <1>1, <1>2 DEF Confirmers

(* A commit credits a paid invoice for the first time, and admits its      *)
(* owner if the amount covers the fee; or, for an invoice that was         *)
(* confirmed, it admits the owner at most.                                 *)
Credited(i) ==
    /\ i \in Paid \ confirmed
    /\ confirmed' = confirmed \cup {i}
    /\ credits' = [credits EXCEPT ![i] = @ + 1]
    /\ \/ admitted' = admitted /\ (0 < fee => ~(fee <= amount[i]))
       \/ admitted' = admitted \cup {OwnerOf[i]}

Admitted(i) ==
    /\ i \in confirmed \cap Paid
    /\ UNCHANGED <<confirmed, credits>>
    /\ admitted' = admitted \cup {OwnerOf[i]}

LEMMA CommitStep ==
    ASSUME PaymentsInv, NEW q \in Confirmers, Commit(q)
    PROVE  Credited(tx[q].inv) \/ Admitted(tx[q].inv) \/ UNCHANGED ledger
<1> DEFINE i == tx[q].inv
<1>0. i \in Paid /\ i \in Invoices /\ tx[q].phase = "written"
  <2>1. tx[q].phase = "written"
    BY DEF Commit
  <2>2. QED
    BY <2>1, TxPaid DEF Paid
<1>1. CASE tx[q].unseen
  <2>1. i \notin confirmed
    BY <1>0, <1>1 DEF PaymentsInv, SnapshotHolds
  <2>2. PaidMsats(q) = amount[i]
    <3>1. CASE Processor = "opennode" /\ q \in Callbacks
      <4>1. cb[q].pc = "confirm" /\ cb[q].dated /\ cb[q].inv = i
        BY <1>0, <3>1 DEF PaymentsInv, TxIsConfirmers, Confirmable
      <4>2. i \in confirmed
        BY <3>1, <4>1 DEF PaymentsInv, RowDateIsConfirmed
      <4>3. QED
        BY <2>1, <4>2
    <3>2. CASE ~(Processor = "opennode" /\ q \in Callbacks)
      BY <3>2 DEF PaidMsats
    <3>3. QED
      BY <3>1, <3>2
  <2>3. fee \in Nat /\ amount[i] \in Nat
    BY <1>0, PaymentsAssumption DEF PaymentsInv, TypeOK
  <2>4. confirmed' = confirmed \cup {i} /\ credits' = [credits EXCEPT ![i] = @ + 1]
    BY <1>1 DEF Commit
  <2>5. CASE CoversFee(q)
    BY <1>0, <2>1, <2>4, <2>5 DEF Commit, Credited
  <2>6. CASE ~CoversFee(q)
    <3>1. admitted' = admitted
      BY <2>6 DEF Commit
    <3>2. 0 < fee => ~(fee <= amount[i])
      BY <2>2, <2>3, <2>6 DEF CoversFee
    <3>3. QED
      BY <1>0, <2>1, <2>4, <3>1, <3>2 DEF Credited
  <2>7. QED
    BY <2>5, <2>6
<1>2. CASE ~tx[q].unseen
  <2>1. i \in confirmed
    BY <1>0, <1>2 DEF PaymentsInv, SnapshotHolds
  <2>2. confirmed' = confirmed /\ credits' = credits
    BY <1>2 DEF Commit
  <2>3. admitted' = admitted \/ admitted' = admitted \cup {OwnerOf[i]}
    BY DEF Commit
  <2>4. QED
    BY <1>0, <2>1, <2>2, <2>3 DEF Admitted, ledger
<1>3. QED
  BY <1>1, <1>2

LEMMA LedgerChange ==
    ASSUME PaymentsInv, [Next]_vars
    PROVE  \/ UNCHANGED ledger
           \/ \E i \in Invoices : (Credited(i) \/ Admitted(i)) /\ UNCHANGED <<invoiceVars, fee>>
<1>1. TypeOK
  BY DEF PaymentsInv
<1>2. CASE Aside
  BY <1>2 DEF Aside
<1>3. ASSUME NEW q \in Confirmers, Confirming(q)
      PROVE  \/ UNCHANGED ledger
             \/ \E i \in Invoices : (Credited(i) \/ Admitted(i)) /\ UNCHANGED <<invoiceVars, fee>>
  <2>1. CASE (\E i \in Invoices : Begin(q, i)) \/ Credit(q)
    BY <2>1 DEF Begin, Credit, CreditUnseen, database, ledger
  <2>2. CASE Commit(q)
    <3>1. tx[q].inv \in Invoices /\ UNCHANGED <<invoiceVars, fee>>
      BY <1>1, <1>3 DEF TypeOK, Confirming
    <3>2. QED
      BY <2>2, <3>1, CommitStep
  <2>3. QED
    BY <1>3, <2>1, <2>2 DEF Confirming
<1>4. QED
  BY <1>1, <1>2, <1>3, TxStep

-----------------------------------------------------------------------------
(* The parts of the invariant. *)

(* A snapshot can only get out of date by a commit, which makes those it   *)
(* contradicts stale; a writer of the invoice's row excludes another.      *)
LEMMA SnapshotStep ==
    ASSUME PaymentsInv, [Next]_vars
    PROVE  SnapshotHolds' /\ OneWriter'
<1>0. TypeOK /\ TypeOK' /\ SnapshotHolds /\ OneWriter
  BY TypeOKStep DEF PaymentsInv
<1>1. CASE Aside
  <2>1. SnapshotHolds'
    BY <1>0, <1>1 DEF Aside, Kept, ledger, SnapshotHolds, TypeOK
  <2>2. OneWriter'
    BY <1>0, <1>1 DEF Aside, Kept, OneWriter, HasWritten
  <2>3. QED
    BY <2>1, <2>2
<1>2. ASSUME NEW q \in Confirmers, NEW i \in Invoices, Begin(q, i)
      PROVE  SnapshotHolds' /\ OneWriter'
  <2>1. /\ tx'[q].phase = "open" /\ tx'[q].inv = i /\ tx'[q].stale = FALSE
        /\ tx'[q].unseen <=> i \notin confirmed
        /\ \A r \in Confirmers \ {q} : tx'[r] = tx[r]
        /\ confirmed' = confirmed
    BY <1>0, <1>2 DEF Begin, TypeOK, database, ledger
  <2>2. SnapshotHolds'
    BY <1>0, <2>1 DEF SnapshotHolds
  <2>3. OneWriter'
    BY <1>0, <2>1 DEF OneWriter, HasWritten
  <2>4. QED
    BY <2>2, <2>3
<1>3. ASSUME NEW q \in Confirmers, Credit(q)
      PROVE  SnapshotHolds' /\ OneWriter'
  <2>1. /\ tx[q].phase = "open" /\ tx'[q].phase = "written"
        /\ tx'[q].inv = tx[q].inv /\ tx'[q].unseen = tx[q].unseen
        /\ \A r \in Confirmers \ {q} : tx'[r] = tx[r]
        /\ confirmed' = confirmed
        /\ tx[q].unseen => InvoiceRowFree(q, tx[q].inv) /\ ~tx[q].stale
    BY <1>0, <1>3 DEF Credit, CreditUnseen, MayWrite, TypeOK
  <2>2. SnapshotHolds'
    BY <1>0, <2>1 DEF SnapshotHolds
  <2>3. OneWriter'
    BY <1>0, <2>1 DEF OneWriter, HasWritten, InvoiceRowFree
  <2>4. QED
    BY <2>2, <2>3
<1>4. ASSUME NEW q \in Confirmers, Commit(q)
      PROVE  SnapshotHolds' /\ OneWriter'
  <2> DEFINE i == tx[q].inv
             u == OwnerOf[i]
  <2>1. /\ tx[q].phase = "written" /\ i \in Invoices
        /\ tx'[q].phase = "none"
        /\ confirmed' = IF tx[q].unseen THEN confirmed \cup {i} ELSE confirmed
    <3>1. tx' = [UserWritten(u) EXCEPT ![q] = NoTx] \/ tx' = [tx EXCEPT ![q] = NoTx]
      BY <1>4 DEF Commit
    <3>2. tx'[q].phase = "none"
      BY <1>0, <3>1, UserWrittenKeeps DEF TypeOK, NoTx
    <3>3. QED
      BY <1>0, <1>4, <3>2 DEF Commit, TypeOK
  <2>2. ASSUME NEW r \in Confirmers, r # q PROVE Kept(r)
    <3>1. tx'[r] = UserWritten(u)[r] \/ tx'[r] = tx[r]
      BY <1>0, <1>4, <2>2, UserWrittenKeeps DEF Commit, TypeOK
    <3>2. QED
      BY <1>0, <3>1, UserWrittenKeeps DEF Kept
  <2>3. ASSUME tx[q].unseen, NEW r \in Confirmers, r # q,
               tx[r].phase # "none", tx[r].inv = i, tx[r].unseen
        PROVE  tx'[r].phase = "open" /\ tx'[r].stale
    <3>1. ~HasWritten(r)
      BY <1>0, <2>1, <2>3 DEF OneWriter, HasWritten
    <3>2. tx[r].phase = "open"
      BY <1>0, <2>3, <3>1 DEF HasWritten, TypeOK
    <3>3. tx'[r] = UserWritten(u)[r]
      BY <1>0, <1>4, <2>3, UserWrittenKeeps DEF Commit
    <3>4. QED
      BY <1>0, <2>3, <3>1, <3>2, <3>3, UserWrittenKeeps
  <2>4. SnapshotHolds'
    <3>1. ASSUME NEW r \in Confirmers, tx'[r].phase # "none"
          PROVE  IF tx'[r].unseen
                 THEN tx'[r].phase = "written" \/ ~tx'[r].stale => tx'[r].inv \notin confirmed'
                 ELSE tx'[r].inv \in confirmed'
      <4>1. r # q /\ Kept(r) /\ tx[r].phase # "none"
        BY <2>1, <2>2, <3>1 DEF Kept
      <4>2. CASE tx[r].unseen
        <5>1. tx[r].phase = "written" \/ ~tx[r].stale => tx[r].inv \notin confirmed
          BY <1>0, <4>1, <4>2 DEF SnapshotHolds
        <5>2. CASE tx[q].unseen /\ tx[r].inv = i
          BY <2>3, <4>1, <4>2, <5>2 DEF Kept
        <5>3. CASE ~(tx[q].unseen /\ tx[r].inv = i)
          BY <2>1, <4>1, <4>2, <5>1, <5>3 DEF Kept
        <5>4. QED
          BY <5>2, <5>3
      <4>3. CASE ~tx[r].unseen
        BY <1>0, <2>1, <4>1, <4>3 DEF SnapshotHolds, Kept
      <4>4. QED
        BY <4>2, <4>3
    <3>2. QED
      BY <3>1 DEF SnapshotHolds
  <2>5. OneWriter'
    BY <1>0, <2>1, <2>2 DEF OneWriter, HasWritten, Kept
  <2>6. QED
    BY <2>4, <2>5
<1>5. QED
  BY <1>0, <1>1, <1>2, <1>3, <1>4, TxStep DEF Confirming

LEMMA CallbackFields ==
    ASSUME TypeOK, NEW k \in Callbacks, NEW b \in BOOLEAN
    PROVE  [cb[k] EXCEPT !.pc = "confirm", !.dated = b].dated = b
BY DEF TypeOK

(* What callback k and its transaction hold. *)
CallbackHolds(k) ==
    /\ cb[k].told \in PaidStates => proc[cb[k].inv] = cb[k].told
    /\ Processor = "opennode" /\ cb[k].pc = "confirm" /\ cb[k].dated => cb[k].inv \in confirmed
    /\ tx[k].phase # "none" => cb[k].pc = "confirm" /\ Confirmable(k) /\ tx[k].inv = cb[k].inv

(* Callback k stays where it is while its transaction does nothing new. *)
LEMMA CallbackKept ==
    ASSUME TypeOK, NEW k \in Callbacks, CallbackHolds(k), confirmed \subseteq confirmed',
           cb[k].told \in PaidStates => proc'[cb[k].inv] = cb[k].told,
           cb'[k] = cb[k], Kept(k) \/ tx'[k].phase = "none"
    PROVE  CallbackHolds(k)'
BY DEF CallbackHolds, Kept, Confirmable

LEMMA NoTxHolds ==
    ASSUME NEW k \in Callbacks, cb'[k] = IdleCb, tx'[k].phase = "none"
    PROVE  CallbackHolds(k)'
BY DEF CallbackHolds, IdleCb, PaidStates

(* What poll p and its transaction hold. *)
PollHolds(p) ==
    /\ poll[p].told \in PaidStates => proc[poll[p].inv] = poll[p].told
    /\ poll[p].pc = "confirm" => poll[p].told \in PaidStates
    /\ tx[p].phase # "none" => poll[p].pc = "confirm" /\ tx[p].inv = poll[p].inv

(* The transactions of the others, while one confirms. *)
LEMMA OthersKept ==
    ASSUME TypeOK, NEW q \in Confirmers, NEW r \in Confirmers, r # q,
           \/ \E i \in Invoices : Begin(q, i)
           \/ Credit(q) \/ Commit(q) \/ Abort(q) \/ tx' = [tx EXCEPT ![q] = NoTx]
    PROVE  Kept(r)
<1>1. CASE \E i \in Invoices : Begin(q, i)
  BY <1>1 DEF Begin, Kept, TypeOK
<1>2. CASE Credit(q)
  BY <1>2 DEF Credit, Kept, TypeOK
<1>3. CASE Commit(q)
  <2>1. tx'[r] = UserWritten(OwnerOf[tx[q].inv])[r] \/ tx'[r] = tx[r]
    BY <1>3, UserWrittenKeeps DEF Commit, TypeOK
  <2>2. QED
    BY <2>1, UserWrittenKeeps DEF Kept
<1>4. CASE Abort(q) \/ tx' = [tx EXCEPT ![q] = NoTx]
  BY <1>4 DEF Abort, Kept, TypeOK
<1>5. QED
  BY <1>1, <1>2, <1>3, <1>4

(* Its own transaction, when it is over. *)
LEMMA OwnEnded ==
    ASSUME TypeOK, NEW q \in Confirmers,
           Commit(q) \/ Abort(q) \/ tx' = [tx EXCEPT ![q] = NoTx]
    PROVE  tx'[q].phase = "none"
<1>1. CASE Commit(q)
  BY <1>1, UserWrittenKeeps DEF Commit, NoTx, TypeOK
<1>2. CASE Abort(q) \/ tx' = [tx EXCEPT ![q] = NoTx]
  BY <1>2 DEF Abort, NoTx, TypeOK
<1>3. QED
  BY <1>1, <1>2

(* A callback's step leaves the others' transactions what they are, and so *)
(* does a poll's, and a step of neither.                                   *)
LEMMA ByCallbackKept ==
    ASSUME TypeOK, NEW k \in Callbacks, NEW r \in Confirmers, r # k,
           (\E i \in Invoices : ReceiveCallback(k, i)) \/ CallbackStep(k) \/ CallbackDies(k)
    PROVE  Kept(r)
<1>0. k \in Confirmers /\ cb[k].inv \in Invoices
  BY DEF Confirmers, TypeOK
<1>1. CASE (\E i \in Invoices : ReceiveCallback(k, i)) \/ FindInvoice(k)
  BY <1>1 DEF ReceiveCallback, FindInvoice, Kept
<1>2. CASE UpdateByCallback(k)
  <2>1. UNCHANGED tx \/ InvoiceWritten(cb[k].inv)
    BY <1>2 DEF UpdateByCallback
  <2>2. QED
    BY <2>1, InvoiceWrittenKeeps DEF Kept
<1>3. CASE ConfirmByCallback(k)
  <2>1. UNCHANGED tx \/ Begin(k, cb[k].inv) \/ Credit(k) \/ Commit(k) \/ Abort(k)
    BY <1>3 DEF ConfirmByCallback
  <2>2. CASE UNCHANGED tx
    BY <2>2 DEF Kept
  <2>3. QED
    BY <1>0, <2>1, <2>2, OthersKept
<1>4. CASE CallbackDies(k)
  BY <1>0, <1>4, OthersKept DEF CallbackDies
<1>5. QED
  BY <1>1, <1>2, <1>3, <1>4 DEF CallbackStep

LEMMA ByPollKept ==
    ASSUME TypeOK, NEW p \in Pollers, NEW r \in Confirmers, r # p, PollStep(p) \/ PollDies(p)
    PROVE  Kept(r)
<1>0. p \in Confirmers /\ poll[p].inv \in Invoices
  BY DEF Confirmers, TypeOK
<1>1. CASE StartPoll(p) \/ \E i \in Invoices : PollInvoice(p, i)
  BY <1>1 DEF StartPoll, PollInvoice, Kept
<1>2. CASE UpdateByPoll(p)
  BY <1>2, InvoiceWrittenKeeps DEF UpdateByPoll
<1>3. CASE ConfirmByPoll(p)
  BY <1>0, <1>3, OthersKept DEF ConfirmByPoll
<1>4. CASE PollDies(p)
  BY <1>0, <1>4, OthersKept DEF PollDies
<1>5. QED
  BY <1>1, <1>2, <1>3, <1>4 DEF PollStep

Elsewhere ==
    \/ \E i \in Invoices :
          \/ RequestInvoice(i) \/ CommitInvoice(i) \/ RollbackInvoice(i)
          \/ Pay(i) \/ Expire(i)
    \/ \E f \in Fees : ChangeFee(f)
    \/ UNCHANGED vars

LEMMA ElsewhereKept ==
    ASSUME TypeOK, Elsewhere
    PROVE  UNCHANGED <<cb, poll>> /\ \A r \in Confirmers : Kept(r)
<1>1. CASE \E i \in Invoices : RequestInvoice(i) \/ RollbackInvoice(i) \/ Pay(i) \/ Expire(i)
  BY <1>1 DEF RequestInvoice, RollbackInvoice, Pay, Expire, Kept
<1>2. CASE \E i \in Invoices : CommitInvoice(i)
  BY <1>2, UserWrittenKeeps DEF CommitInvoice, Kept
<1>3. CASE (\E f \in Fees : ChangeFee(f)) \/ UNCHANGED vars
  BY <1>3 DEF ChangeFee, vars, Kept
<1>4. QED
  BY <1>1, <1>2, <1>3 DEF Elsewhere

LEMMA CallbackHoldsStep ==
    ASSUME PaymentsInv, [Next]_vars, NEW k \in Callbacks
    PROVE  CallbackHolds(k)'
<1>1. /\ TypeOK /\ CallbackHolds(k) /\ k \in Confirmers /\ cb[k].inv \in Invoices
      /\ tx \in [Confirmers -> Transaction]
      /\ confirmed \subseteq confirmed'
  BY LedgerChange
  DEF PaymentsInv, ToldIsTrue, RowDateIsConfirmed, TxIsConfirmers, CallbackHolds, Confirmers,
      Credited, Admitted, ledger, TypeOK, Transaction
<1>2. cb[k].told \in PaidStates => proc'[cb[k].inv] = cb[k].told
  BY <1>1, PaidStaysPaid DEF CallbackHolds
<1>3. ASSUME cb'[k] = cb[k], Kept(k) \/ tx'[k].phase = "none" PROVE CallbackHolds(k)'
  BY <1>1, <1>2, <1>3, CallbackKept
<1>4. CASE Elsewhere
  BY <1>1, <1>3, <1>4, ElsewhereKept
<1>5. ASSUME NEW i \in Invoices, ReceiveCallback(k, i) PROVE CallbackHolds(k)'
  <2>1. /\ cb'[k].inv = i /\ cb'[k].pc # "confirm"
        /\ cb'[k].told \in {"pending", proc[i]} /\ proc' = proc
    BY <1>1, <1>5 DEF ReceiveCallback, TypeOK, IdleCb, invoiceVars
  <2>2. tx'[k].phase = "none"
    BY <1>1, <1>5 DEF ReceiveCallback, CallbackHolds
  <2>3. QED
    BY <2>1, <2>2 DEF CallbackHolds, PaidStates
<1>6. CASE FindInvoice(k)
  <2>1. cb'[k] = IdleCb \/ (cb'[k].inv = cb[k].inv /\ cb'[k].told = cb[k].told
                            /\ cb'[k].pc = "update")
    BY <1>1, <1>6 DEF FindInvoice, TypeOK
  <2>2. tx'[k].phase = "none"
    BY <1>1, <1>6 DEF FindInvoice, CallbackHolds
  <2>3. QED
    BY <1>2, <2>1, <2>2, NoTxHolds DEF CallbackHolds
<1>7. CASE UpdateByCallback(k)
  <2>1. tx'[k].phase = "none"
    <3>1. tx[k].phase = "none"
      BY <1>1, <1>7 DEF UpdateByCallback, CallbackHolds
    <3>2. UNCHANGED tx \/ InvoiceWritten(cb[k].inv)
      BY <1>7 DEF UpdateByCallback
    <3>3. QED
      BY <1>1, <3>1, <3>2, InvoiceWrittenKeeps DEF Kept
  <2>2. \/ cb'[k] = IdleCb
        \/ cb'[k] = [cb[k] EXCEPT !.pc = "confirm", !.dated = DateGiven(k)]
    BY <1>1, <1>7 DEF UpdateByCallback, TypeOK
  <2>3. CASE cb'[k] = [cb[k] EXCEPT !.pc = "confirm", !.dated = DateGiven(k)]
    <3>1. cb'[k].inv = cb[k].inv /\ cb'[k].told = cb[k].told
      BY <1>1, <2>3 DEF TypeOK
    <3>2. cb'[k].dated = DateGiven(k)
      BY Zenon, <1>1, <2>3, CallbackFields, DateTyped
    <3>3. QED
      BY <1>1, <1>2, <2>1, <3>1, <3>2 DEF DateGiven, CallbackHolds
  <2>4. QED
    BY <2>1, <2>2, <2>3, NoTxHolds
<1>8. CASE ConfirmByCallback(k)
  <2>1. CASE Confirmable(k) /\ Begin(k, cb[k].inv)
    <3>1. /\ cb' = cb
          /\ tx'[k].inv = cb[k].inv
      BY <1>1, <2>1 DEF Begin
    <3>2. cb[k].pc = "confirm" /\ Confirmable(k)'
      BY <1>8, <2>1, <3>1 DEF ConfirmByCallback, Confirmable
    <3>3. QED
      BY <1>1, <1>2, <3>1, <3>2 DEF CallbackHolds
  <2>2. CASE Credit(k)
    <3>1. cb' = cb /\ tx'[k].inv = tx[k].inv /\ tx[k].phase # "none"
      BY <1>1, <2>2 DEF Credit, Transaction
    <3>2. QED
      BY <1>1, <1>2, <3>1 DEF CallbackHolds, Confirmable
  <2>3. CASE ~Confirmable(k) /\ UNCHANGED <<database, tx, aborted>> /\ cb' = [cb EXCEPT ![k] = IdleCb]
    <3>1. tx'[k].phase = "none" /\ cb'[k] = IdleCb
      BY <1>1, <2>3 DEF CallbackHolds, TypeOK
    <3>2. QED
      BY <3>1, NoTxHolds
  <2>4. CASE (Commit(k) \/ Abort(k)) /\ cb' = [cb EXCEPT ![k] = IdleCb]
    <3>1. tx'[k].phase = "none" /\ cb'[k] = IdleCb
      BY <1>1, <2>4, OwnEnded DEF TypeOK
    <3>2. QED
      BY <3>1, NoTxHolds
  <2>5. QED
    BY <1>8, <2>1, <2>2, <2>3, <2>4 DEF ConfirmByCallback
<1>9. CASE CallbackDies(k)
  <2>1. tx'[k].phase = "none" /\ cb'[k] = IdleCb
    BY <1>1, <1>9, OwnEnded DEF CallbackDies, TypeOK
  <2>2. QED
    BY <2>1, NoTxHolds
<1>10. ASSUME NEW j \in Callbacks, j # k,
              (\E i \in Invoices : ReceiveCallback(j, i)) \/ CallbackStep(j) \/ CallbackDies(j)
       PROVE  CallbackHolds(k)'
  <2>1. cb'[k] = cb[k]
    BY <1>1, <1>10 DEF CallbackStep, ReceiveCallback, FindInvoice, UpdateByCallback,
                       ConfirmByCallback, CallbackDies, Begin, Credit, TypeOK
  <2>2. QED
    BY <1>1, <1>3, <1>10, <2>1, ByCallbackKept
<1>11. ASSUME NEW p \in Pollers, PollStep(p) \/ PollDies(p) PROVE CallbackHolds(k)'
  <2>1. cb' = cb
    BY <1>11 DEF PollStep, StartPoll, PollInvoice, UpdateByPoll, ConfirmByPoll, PollDies,
                 Begin, Credit
  <2>2. k # p
    BY PaymentsAssumption
  <2>3. QED
    BY <1>1, <1>3, <1>11, <2>1, <2>2, ByPollKept
<1>12. QED
  BY <1>4, <1>5, <1>6, <1>7, <1>8, <1>9, <1>10, <1>11 DEF Next, CallbackStep, Elsewhere

LEMMA PollHoldsStep ==
    ASSUME PaymentsInv, [Next]_vars, NEW p \in Pollers
    PROVE  PollHolds(p)'
<1>1. /\ TypeOK /\ PollHolds(p) /\ p \in Confirmers
      /\ poll[p].inv \in Invoices /\ poll[p].left \in SUBSET Invoices
      /\ tx \in [Confirmers -> Transaction]
  BY DEF PaymentsInv, ToldIsTrue, PollMayConfirm, TxIsConfirmers, PollHolds, Confirmers,
         TypeOK, Transaction
<1>2. poll[p].told \in PaidStates => proc'[poll[p].inv] = poll[p].told
  BY <1>1, PaidStaysPaid DEF PollHolds
<1>3. ASSUME poll'[p] = poll[p], Kept(p) PROVE PollHolds(p)'
  BY <1>1, <1>2, <1>3 DEF PollHolds, Kept
<1>4. ASSUME NEW rest \in SUBSET Invoices, poll'[p] = ToNext(rest), tx'[p].phase = "none"
      PROVE  PollHolds(p)'
  BY <1>4, ToNextTyped DEF PollHolds, PaidStates
<1>5. CASE Elsewhere
  BY <1>1, <1>3, <1>5, ElsewhereKept
<1>6. CASE StartPoll(p)
  <2>1. /\ poll'[p].inv = poll[p].inv /\ poll'[p].told = poll[p].told
        /\ poll'[p].pc = "fetch"
    BY <1>1, <1>6 DEF StartPoll, TypeOK
  <2>2. tx'[p].phase = "none"
    BY <1>1, <1>6 DEF StartPoll, PollHolds
  <2>3. QED
    BY <1>2, <2>1, <2>2 DEF PollHolds
<1>7. ASSUME NEW i \in Invoices, PollInvoice(p, i) PROVE PollHolds(p)'
  <2>1. /\ poll[p].left \ {i} \in SUBSET Invoices /\ proc' = proc
        /\ tx'[p].phase = "none"
    BY <1>1, <1>7 DEF PollInvoice, PollHolds, invoiceVars
  <2>2. CASE poll'[p] = [pc |-> "update", left |-> poll[p].left \ {i},
                         inv |-> i, told |-> proc[i]]
    BY <2>1, <2>2 DEF PollHolds
  <2>3. CASE poll'[p] = ToNext(poll[p].left \ {i})
    BY <1>4, <2>1, <2>3
  <2>4. QED
    BY <1>1, <1>7, <2>2, <2>3 DEF PollInvoice, TypeOK
<1>8. CASE UpdateByPoll(p)
  <2>1. tx'[p].phase = "none"
    <3>1. tx[p].phase = "none"
      BY <1>1, <1>8 DEF UpdateByPoll, PollHolds
    <3>2. QED
      BY <1>1, <1>8, <3>1, InvoiceWrittenKeeps DEF UpdateByPoll, Kept
  <2>2. CASE PollProceeds(p)
    <3>1. /\ poll'[p].inv = poll[p].inv /\ poll'[p].told = poll[p].told
          /\ poll[p].told \in PaidStates
      BY <1>1, <1>8, <2>2, ReportTyped DEF UpdateByPoll, PollProceeds, TypeOK
    <3>2. QED
      BY <1>2, <2>1, <3>1 DEF PollHolds
  <2>3. CASE ~PollProceeds(p)
    <3>1. poll'[p] = ToNext(poll[p].left)
      BY <1>1, <1>8, <2>3 DEF UpdateByPoll, TypeOK
    <3>2. QED
      BY <1>1, <1>4, <2>1, <3>1
  <2>4. QED
    BY <2>2, <2>3
<1>9. CASE ConfirmByPoll(p)
  <2>1. CASE Begin(p, poll[p].inv)
    <3>1. poll' = poll /\ tx'[p].inv = poll[p].inv /\ poll[p].pc = "confirm"
      BY <1>1, <1>9, <2>1 DEF ConfirmByPoll, Begin
    <3>2. QED
      BY <1>1, <1>2, <3>1 DEF PollHolds
  <2>2. CASE Credit(p)
    <3>1. poll' = poll /\ tx'[p].inv = tx[p].inv /\ tx[p].phase # "none"
      BY <1>1, <2>2 DEF Credit, Transaction
    <3>2. QED
      BY <1>1, <1>2, <3>1 DEF PollHolds
  <2>3. CASE (Commit(p) \/ Abort(p)) /\ poll' = [poll EXCEPT ![p] = ToNext(@.left)]
    <3>1. tx'[p].phase = "none" /\ poll'[p] = ToNext(poll[p].left)
      BY <1>1, <2>3, OwnEnded DEF TypeOK
    <3>2. QED
      BY <1>1, <1>4, <3>1
  <2>4. QED
    BY <1>9, <2>1, <2>2, <2>3 DEF ConfirmByPoll
<1>10. CASE PollDies(p)
  <2>1. tx'[p].phase = "none" /\ poll'[p] = IdlePoll
    BY <1>1, <1>10, OwnEnded DEF PollDies, TypeOK
  <2>2. QED
    BY <2>1 DEF PollHolds, IdlePoll, PaidStates
<1>11. ASSUME NEW q \in Pollers, q # p, PollStep(q) \/ PollDies(q) PROVE PollHolds(p)'
  <2>1. poll'[p] = poll[p]
    BY <1>1, <1>11 DEF PollStep, StartPoll, PollInvoice, UpdateByPoll, ConfirmByPoll, PollDies,
                       Begin, Credit, TypeOK
  <2>2. QED
    BY <1>1, <1>3, <1>11, <2>1, ByPollKept
<1>12. ASSUME NEW k \in Callbacks,
              (\E i \in Invoices : ReceiveCallback(k, i)) \/ CallbackStep(k) \/ CallbackDies(k)
       PROVE  PollHolds(p)'
  <2>1. poll' = poll
    BY <1>12 DEF CallbackStep, ReceiveCallback, FindInvoice, UpdateByCallback,
                 ConfirmByCallback, CallbackDies, Begin, Credit
  <2>2. k # p
    BY PaymentsAssumption
  <2>3. QED
    BY <1>1, <1>3, <1>12, <2>1, <2>2, ByCallbackKept
<1>13. QED
  BY <1>5, <1>6, <1>7, <1>8, <1>9, <1>10, <1>11, <1>12 DEF Next, PollStep, Elsewhere

LEMMA ToldStep ==
    ASSUME PaymentsInv, [Next]_vars
    PROVE  ToldIsTrue' /\ PollMayConfirm' /\ RowDateIsConfirmed' /\ TxIsConfirmers'
<1>1. \A k \in Callbacks : CallbackHolds(k)'
  BY CallbackHoldsStep
<1>2. \A p \in Pollers : PollHolds(p)'
  BY PollHoldsStep
<1>3. QED
  BY <1>1, <1>2 DEF CallbackHolds, PollHolds, ToldIsTrue, PollMayConfirm, RowDateIsConfirmed,
                    TxIsConfirmers

(* Confirmations leave what was asked for as it was. *)
LEMMA InvoiceKept ==
    ASSUME TypeOK, [Next]_vars
    PROVE  Elsewhere \/ UNCHANGED <<invoiceVars, fee>>
<1>1. ASSUME NEW k \in Callbacks,
             (\E j \in Invoices : ReceiveCallback(k, j)) \/ CallbackStep(k) \/ CallbackDies(k)
      PROVE  UNCHANGED <<invoiceVars, fee>>
  BY <1>1 DEF CallbackStep, ReceiveCallback, FindInvoice, UpdateByCallback, ConfirmByCallback,
              CallbackDies, Begin, Credit
<1>2. ASSUME NEW p \in Pollers, PollStep(p) \/ PollDies(p)
      PROVE  UNCHANGED <<invoiceVars, fee>>
  BY <1>2 DEF PollStep, StartPoll, PollInvoice, UpdateByPoll, ConfirmByPoll, PollDies,
              Begin, Credit
<1>3. QED
  BY <1>1, <1>2 DEF Next, Elsewhere

(* Once an invoice is requested its amount stays, and every fee that is    *)
(* set from then on is remembered.                                         *)
LEMMA AskedStep ==
    ASSUME TypeOK, FeeIsAsked, [Next]_vars, NEW i \in Invoices
    PROVE  /\ proc[i] # "none" => amount'[i] = amount[i] /\ asked[i] \subseteq asked'[i]
           /\ proc'[i] # "none" => fee' \in asked'[i]
<1>1. CASE UNCHANGED <<invoiceVars, fee>>
  BY <1>1 DEF invoiceVars, FeeIsAsked
<1>2. ASSUME NEW j \in Invoices, RequestInvoice(j)
      PROVE  /\ proc[i] # "none" => amount'[i] = amount[i] /\ asked[i] \subseteq asked'[i]
             /\ proc'[i] # "none" => fee' \in asked'[i]
  BY <1>2 DEF RequestInvoice, FeeIsAsked, TypeOK
<1>3. ASSUME NEW j \in Invoices, CommitInvoice(j) \/ RollbackInvoice(j) \/ Pay(j) \/ Expire(j)
      PROVE  /\ proc[i] # "none" => amount'[i] = amount[i] /\ asked[i] \subseteq asked'[i]
             /\ proc'[i] # "none" => fee' \in asked'[i]
  BY <1>3 DEF CommitInvoice, RollbackInvoice, Pay, Expire, FeeIsAsked, TypeOK
<1>4. ASSUME NEW f \in Fees, ChangeFee(f)
      PROVE  /\ proc[i] # "none" => amount'[i] = amount[i] /\ asked[i] \subseteq asked'[i]
             /\ proc'[i] # "none" => fee' \in asked'[i]
  BY <1>4 DEF ChangeFee
<1>5. CASE UNCHANGED vars
  BY <1>1, <1>5 DEF vars
<1>6. QED
  BY <1>1, <1>2, <1>3, <1>4, <1>5, InvoiceKept DEF Elsewhere

LEMMA CreditStep ==
    ASSUME PaymentsInv, [Next]_vars
    PROVE  CreditedOnce'
<1>1. CASE UNCHANGED ledger
  BY <1>1 DEF PaymentsInv, CreditedOnce, ledger
<1>2. ASSUME NEW i \in Invoices, Credited(i) PROVE CreditedOnce'
  BY <1>2 DEF PaymentsInv, CreditedOnce, Credited, TypeOK
<1>3. ASSUME NEW i \in Invoices, Admitted(i) PROVE CreditedOnce'
  BY <1>3 DEF PaymentsInv, CreditedOnce, Admitted
<1>4. QED
  BY <1>1, <1>2, <1>3, LedgerChange

LEMMA PaidStep ==
    ASSUME PaymentsInv, [Next]_vars
    PROVE  ConfirmedIsPaid'
<1>1. Paid \subseteq Paid'
  BY PaidStaysPaid DEF Paid, PaidStates, PaymentsInv
<1>2. ConfirmedIsPaid
  BY DEF PaymentsInv
<1>3. CASE UNCHANGED ledger
  BY <1>1, <1>2, <1>3 DEF ConfirmedIsPaid, ledger
<1>4. ASSUME NEW i \in Invoices, Credited(i) \/ Admitted(i) PROVE ConfirmedIsPaid'
  BY <1>1, <1>2, <1>4 DEF ConfirmedIsPaid, Credited, Admitted
<1>5. QED
  BY <1>3, <1>4, LedgerChange

(* The commit that credits compares the amount with the fee of that        *)
(* moment, which is among those the invoice was asked to cover.            *)
LEMMA AdmittedStep ==
    ASSUME PaymentsInv, [Next]_vars
    PROVE  ConfirmedIsAdmitted'
<1>1. /\ TypeOK /\ FeeIsAsked /\ ConfirmedIsAdmitted
      /\ \A j \in confirmed : j \in Invoices /\ proc[j] # "none"
  BY DEF PaymentsInv, ConfirmedIsPaid, Paid
<1>2. ASSUME NEW j \in confirmed, admitted \subseteq admitted',
             \A f \in asked'[j] : 0 < f /\ f <= amount'[j]
      PROVE  OwnerOf[j] \in admitted'
  <2>1. amount'[j] = amount[j] /\ asked[j] \subseteq asked'[j]
    BY <1>1, AskedStep
  <2>2. QED
    BY <1>1, <1>2, <2>1 DEF ConfirmedIsAdmitted
<1>3. CASE UNCHANGED ledger
  BY <1>2, <1>3 DEF ledger, ConfirmedIsAdmitted
<1>4. ASSUME NEW i \in Invoices, Credited(i), UNCHANGED <<invoiceVars, fee>>
      PROVE  ConfirmedIsAdmitted'
  <2>1. /\ confirmed' = confirmed \cup {i} /\ admitted \subseteq admitted'
        /\ asked' = asked /\ amount' = amount
    BY <1>4 DEF Credited, invoiceVars
  <2>2. ASSUME \A f \in asked[i] : 0 < f /\ f <= amount[i] PROVE OwnerOf[i] \in admitted'
    <3>1. fee \in asked[i]
      BY <1>1, <1>4 DEF Credited, Paid, FeeIsAsked
    <3>2. QED
      BY <1>4, <2>2, <3>1 DEF Credited
  <2>3. QED
    BY <1>2, <2>1, <2>2 DEF ConfirmedIsAdmitted
<1>5. ASSUME NEW i \in Invoices, Admitted(i) PROVE ConfirmedIsAdmitted'
  BY <1>2, <1>5 DEF Admitted, ConfirmedIsAdmitted
<1>6. QED
  BY <1>3, <1>4, <1>5, LedgerChange

LEMMA PaymentsStep == PaymentsInv /\ [Next]_vars => PaymentsInv'
<1>. SUFFICES ASSUME PaymentsInv, [Next]_vars PROVE PaymentsInv'
  OBVIOUS
<1>1. TypeOK'
  BY TypeOKStep DEF PaymentsInv
<1>2. FeeIsAsked'
  BY AskedStep DEF FeeIsAsked, PaymentsInv
<1>3. QED
  BY <1>1, <1>2, ToldStep, SnapshotStep, CreditStep, PaidStep, AdmittedStep DEF PaymentsInv

LEMMA PaymentsInvariance == Spec => []PaymentsInv
BY PaymentsInit, PaymentsStep, PTL DEF Spec

-----------------------------------------------------------------------------
(* Results. *)

(* However callbacks, their duplicates and overlapping polls interleave,   *)
(* and whichever die, fail or are aborted, an invoice is added to its      *)
(* owner's balance when it is confirmed and never again.                   *)
THEOREM PaymentsCreditOnce == Spec => []CreditedOnce
<1>1. PaymentsInv => CreditedOnce
  BY DEF PaymentsInv
<1>2. QED
  BY <1>1, PaymentsInvariance, PTL

(* Nobody is credited or admitted for an invoice the processor does not    *)
(* hold as paid, though the status written to the row may be out of date.  *)
THEOREM PaymentsConfirmPaid == Spec => []ConfirmedIsPaid
<1>1. PaymentsInv => ConfirmedIsPaid
  BY DEF PaymentsInv
<1>2. QED
  BY <1>1, PaymentsInvariance, PTL

(* Whoever was credited an amount that covers every fee that was set since *)
(* it was asked for is admitted, though the fee is compared when the       *)
(* payment is confirmed and processes die within the transaction.          *)
THEOREM PaymentsAdmitConfirmed == Spec => []ConfirmedIsAdmitted
<1>1. PaymentsInv => ConfirmedIsAdmitted
  BY DEF PaymentsInv
<1>2. QED
  BY <1>1, PaymentsInvariance, PTL

LEMMA LedgerInit == Init => LedgerOf!Init
BY DEF Init, LedgerOf!Init, Paid

(* The paid invoices change by a payment only. *)
LEMMA PaidChange ==
    ASSUME TypeOK, [Next]_vars
    PROVE  (\E i \in Invoices : Pay(i) /\ Paid' = Paid \cup {i}) \/ Paid' = Paid
<1>1. CASE UNCHANGED <<invoiceVars, fee>>
  BY <1>1 DEF invoiceVars, Paid
<1>2. ASSUME NEW i \in Invoices, Pay(i) PROVE Paid' = Paid \cup {i}
  BY <1>2 DEF Pay, Paid, TypeOK
<1>3. ASSUME NEW i \in Invoices,
             RequestInvoice(i) \/ CommitInvoice(i) \/ RollbackInvoice(i) \/ Expire(i)
      PROVE  Paid' = Paid
  BY <1>3 DEF RequestInvoice, CommitInvoice, RollbackInvoice, Expire, Paid, TypeOK
<1>4. ASSUME NEW f \in Fees, ChangeFee(f) PROVE Paid' = Paid
  BY <1>4 DEF ChangeFee, Paid
<1>5. CASE UNCHANGED vars
  BY <1>1, <1>5 DEF vars
<1>6. QED
  BY <1>1, <1>2, <1>3, <1>4, <1>5, InvoiceKept DEF Elsewhere

(* A step is a payment, a first confirmation, a late admission, or nothing *)
(* to the ledger.                                                          *)
LEMMA LedgerStep ==
    ASSUME PaymentsInv, [Next]_vars
    PROVE  [LedgerOf!Next]_(LedgerOf!vars)
<1>1. TypeOK /\ CreditedOnce
  BY DEF PaymentsInv
<1>2. ASSUME NEW i \in Invoices, Credited(i), UNCHANGED <<invoiceVars, fee>>
      PROVE  LedgerOf!Credit(i)
  <2>1. credits[i] = 0 /\ credits' = [credits EXCEPT ![i] = 1]
    <3>1. credits[i] = 0
      BY <1>1, <1>2 DEF Credited, CreditedOnce
    <3>2. credits' = [credits EXCEPT ![i] = credits[i] + 1]
      BY <1>2 DEF Credited
    <3>3. credits[i] + 1 = 1
      BY <3>1
    <3>4. QED
      BY <3>1, <3>2, <3>3
  <2>2. Paid' = Paid
    BY <1>2 DEF Paid, invoiceVars
  <2>3. QED
    BY <1>2, <2>1, <2>2 DEF Credited, LedgerOf!Credit
<1>3. ASSUME NEW i \in Invoices, Admitted(i), UNCHANGED <<invoiceVars, fee>>
      PROVE  LedgerOf!Admit(i)
  <2>1. Paid' = Paid
    BY <1>3 DEF Paid, invoiceVars
  <2>2. QED
    BY <1>1, <1>3, <2>1 DEF Admitted, CreditedOnce, LedgerOf!Admit
<1>4. CASE UNCHANGED ledger
  <2>1. ASSUME NEW i \in Invoices, Paid' = Paid \cup {i} PROVE LedgerOf!Pay(i)
    BY <1>4, <2>1 DEF LedgerOf!Pay, ledger
  <2>2. Paid' = Paid => UNCHANGED LedgerOf!vars
    BY <1>4 DEF LedgerOf!vars, ledger
  <2>3. QED
    BY <1>1, <2>1, <2>2, PaidChange DEF LedgerOf!Next
<1>5. QED
  BY <1>2, <1>3, <1>4, LedgerChange DEF LedgerOf!Next

(* The requests, callbacks and polls together implement the ledger. *)
THEOREM PaymentsRefineLedger == Spec => ImplementsLedger
<1>1. Init => LedgerOf!Init
  BY LedgerInit
<1>2. PaymentsInv /\ [Next]_vars => [LedgerOf!Next]_(LedgerOf!vars)
  BY LedgerStep
<1>3. QED
  BY <1>1, <1>2, PaymentsInvariance, PTL DEF Spec, ImplementsLedger, LedgerOf!Spec
=============================================================================
