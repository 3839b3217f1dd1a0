SPECIFICATION Spec
CONSTANTS
    i1 = i1
    r1 = r1
    r2 = r2
    u1 = u1
    u2 = u2
    NoUser = NoUser
    NoInvoice = NoInvoice
    Invoices = {i1}
    Requests = {r1, r2}
    Users = {u1, u2}
    Amounts = {1}
    Limit <- HighLimit
    Plans <- TwoSigners
    MaxRuns = 4
SYMMETRY Symmetry
CHECK_DEADLOCK FALSE
INVARIANT
    SignedStepMovesOn
