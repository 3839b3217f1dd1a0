SPECIFICATION FairSpec
CONSTANTS
    job = job
    poll = poll
    Jobs = {job}
    Poller = poll
    MaxRetries = 2
    MaxTokens = 2
    MaxNotices = 1
    MaxFaults = 1
CHECK_DEADLOCK FALSE
INVARIANTS
    TypeOK
    MailedTwiceNeedsFaults
    NoticesAreDeduped
PROPERTIES
    NoticesSettle
    RefusalIsNoticed
