SPECIFICATION FairSpec
CONSTANTS
    t1 = t1
    t2 = t2
    s1 = s1
    s2 = s2
    s3 = s3
    f1 = f1
    f2 = f2
    f3 = f3
    m1 = m1
    m2 = m2
    r1 = r1
    r2 = r2
    c1 = c1
    o1 = o1
    Tenants = {t1}
    Sources = {s1}
    Folders = {s1}
    Files = {f1, f2, f3}
    Runs = {r1}
    Clerks = {c1}
    Orgs = {o1}
    NoOrg = NoOrg
    NoSource = NoSource
    Owner <- Owners
    Origin <- Origins
    DocumentId <- Ids
    Mail = {}
    Unsupported = {f3}
    Concurrency = 1
    MaxReruns = 1
    CallsFail = TRUE
    ReadsFail = TRUE
    SameInstant = TRUE
    MaxStarts = 1
    MaxUploads = 1
CHECK_DEADLOCK FALSE
INVARIANTS
    TypeOK
    CheckpointCovers
    AnnouncedIsRead
    ParsedHasOrg
PROPERTIES
    KeepsAssigned
    RunsEnd
