SPECIFICATION Spec
CONSTANTS
    i1 = i1
    i2 = i2
    r1 = r1
    r2 = r2
    b1 = b1
    b2 = b2
    NoInvoice = NoInvoice
    NoBatch = NoBatch
    Invoices = {i1}
    Requests = {r1, r2}
    Batches = {b1, b2}
    MaxRuns = 4
SYMMETRY Symmetry
CHECK_DEADLOCK FALSE
INVARIANTS
    TypeOK
    InFlightIsNext
    DbNeverAhead
    TallyAtMostOneAhead
    ConflictMeansVersionMoved
    ExportedHasVersion
    SuccessItemIsInTally
PROPERTIES
    RegisterSpec
    SuccessItemIsFinal
