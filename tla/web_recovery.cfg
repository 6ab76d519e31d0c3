SPECIFICATION FairSpec
CONSTANTS
    Tabs = {t1, t2}
    CommandKeys = {c1, c2}
    QuoteKeys = {q1}
    MaxAttempts = 2
    MaxFaults = 1
    None = None
CHECK_DEADLOCK FALSE
INVARIANTS RecoveryIsSound
PROPERTIES RecordsClose ForgottenOnlyWhenKnown
