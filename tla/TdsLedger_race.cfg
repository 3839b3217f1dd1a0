SPECIFICATION Spec
CONSTANTS
    i1 = i1
    i2 = i2
    v1 = v1
    v2 = v2
    r1 = r1
    r2 = r2
    NoInvoice = NoInvoice
    NoVendor = NoVendor
    Vendors = {v1, v2}
    Invoices = {i1, i2}
    Requests = {r1, r2}
    Amount <- Amounts
    RateBps = 1000
    Threshold = 70
    Single = 35
    Cap = 1
    MaxRuns = 4
SYMMETRY Symmetry
CHECK_DEADLOCK FALSE
INVARIANTS
    TypeOK
    RecordingsListedOnce
    CumulativesMatchEntries
    CrossedIsTrue
PROPERTY
    TaxKeepsUp
