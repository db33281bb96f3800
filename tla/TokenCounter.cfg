SPECIFICATION FairSpec
CONSTANTS
    Threads = {t1, t2, t3}
    NoThread = NoThread
    Quota = 4
    MaxRequest = 3
    MaxOverrun = 2
INVARIANTS TypeOK Conserved RefusalJustified OverdrawnByOverrunsOnly
PROPERTIES ImplementsLedger LockIsReleased
