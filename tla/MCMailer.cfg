\* Two mails, fewer faults than attempts; settings, rows and mails vary.
SPECIFICATION FairSpec
CONSTANTS
    c1 = c1
    c2 = c2
    l1 = l1
    l2 = l2
    l3 = l3
    None = None
    Commands = {c1, c2}
    Given <- MCGiven
    LocaleKind <- MCLocaleKind
    TenantLocale = l2
    NoRun = NoRun
    MaxAttempts = 3
    Tries = 2
    FaultKinds = {"crash", "connection", "sql", "storage", "smtp", "timeout"}
    MaxFaults = 2
INVARIANTS TypeOK RenderedForRecipient SentByNamedServer DoneMeansDelivered
PROPERTIES MailsSettle
