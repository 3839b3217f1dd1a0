SPECIFICATION Spec
CONSTANTS
    t1 = t1
    t2 = t2
    s1 = s1
    s2 = s2
    s3 = s3
    f1 = f1
    f2 = f2
    f3 = f3
    m1 = m1
    m2 = m2
    r1 = r1
    r2 = r2
    c1 = c1
    o1 = o1
    Tenants = {t1, t2}
    Sources = {s1, s2, s3}
    Folders = {s1, s2}
    Files = {m1, m2}
    Runs = {r1, r2}
    Clerks = {}
    Orgs = {}
    NoOrg = NoOrg
    NoSource = NoSource
    Owner <- Owners
    Origin <- Origins
    DocumentId <- Ids
    Mail = {m1, m2}
    Unsupported = {}
    Concurrency = 2
    MaxReruns = 1
    CallsFail = TRUE
    ReadsFail = FALSE
    SameInstant = FALSE
    MaxStarts = 2
    MaxUploads = 0
SYMMETRY Symmetry
CHECK_DEADLOCK FALSE
INVARIANTS
    RunningJobIsOne
    CheckpointCovers
