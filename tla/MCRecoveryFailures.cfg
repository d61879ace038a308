SPECIFICATION ResumedSpec
CONSTANTS
    s1 = s1
    s2 = s2
    meta = meta
    Slot <- MCSlot
    Page <- MCPage
    Meta = meta
    TxnId <- MCTxnId
    TXN_START_ID = 10
    Preloaded <- MCPreloaded
    Image = {}
    Blank = Blank
    Torn = Torn
    None = None
    Checkpoint = Checkpoint
    CHECKPOINT_LOG_BYTES = 4
    MaxLog = 12
    MaxPoints = 9
    MaxCommitTs = 2
    MaxFailures = 1
    MaxKills = 1
    MaxPowerLosses = 0
INVARIANTS CommittedRows NoOrphanStamps
CHECK_DEADLOCK FALSE
