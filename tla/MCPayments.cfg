SPECIFICATION Spec
CONSTANTS
    i1 = i1
    i2 = i2
    ann = ann
    Users = {ann}
    Invoices = {i1, i2}
    OwnerOf <- MCOwnerOf
    Processor = "nodeless"
    Callbacks = {c1, c2}
    Pollers = {p1}
    PollLimit = 1
    MinBalance = 4
    Fees = {2, 3}
    Sat = 2
    Faults = TRUE
INVARIANTS TypeOK CreditedOnce ConfirmedIsPaid ConfirmedIsAdmitted
PROPERTIES ImplementsLedger
SYMMETRY MCSymmetry
VIEW MCView
