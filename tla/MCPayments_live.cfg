SPECIFICATION FairSpec
CONSTANTS
    i1 = i1
    i2 = i2
    ann = ann
    Users = {ann}
    Invoices = {i1, i2}
    OwnerOf <- MCOwnerOf
    Processor = "lnbits"
    Callbacks = {c1}
    Pollers = {p1}
    PollLimit = 2
    MinBalance = 4
    Fees = {2}
    Sat = 2
    Faults = FALSE
PROPERTIES PaidIsAdmitted
