SPECIFICATION FairSpec
CONSTANTS
    i1 = i1
    i2 = i2
    r1 = r1
    r2 = r2
    b1 = b1
    b2 = b2
    NoInvoice = NoInvoice
    NoBatch = NoBatch
    Invoices = {i1}
    Requests = {r1, r2}
    Batches = {b1}
    MaxRuns = 3
CHECK_DEADLOCK FALSE
PROPERTY RetryEnds
