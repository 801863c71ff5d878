SPECIFICATION WebSpec
CONSTANTS
    Refreshes = {r1, r2}
    MountRefresh = r1
    FormRefresh = r2
    MaxRetries = 1
    Notes = {n1}
    MaxAttempts = 2
    MaxStops = 1
    Fetches = {f1, f2}
    MaxReconnects = 1
    Mine = {m1, m2}
    WithFile = {m2}
    Moderated = {t1}
    Theirs = {t1}
    Loads = {l1, l2}
    MaxTries = 1
    MaxThreadRetries = 1
    Calls = {c1}
    MountCall = c1
    RevisionLimit = 1
    DevConfirm = TRUE
    MaxMissed = 1
    Words = {}
    Enhanced = enhanced
    Files = {file1}
    MaxSubmits = 2
    ApplyTabs = {tab1, tab2}
    Credentials = {k1}
INVARIANTS
    PagesTypeOK
    UserMatchesStatus
    SentOnce
    OffersAllowed
    LeavesAsPressed
    ApprovedIsBacked
PROPERTIES
    OutageKeepsUser
    MailedForGood
    ReviewWritesKeepApart
    LoadingEnds
    BellSettles
    DeliveryEnds
    StoredIsShown
CHECK_DEADLOCK FALSE
