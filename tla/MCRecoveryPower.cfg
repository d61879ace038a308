SPECIFICATION ResumedSpec
CONSTANTS
    s1 = s1
    s2 = s2
    meta = meta
    Slot <- MCSlot
    Page <- MCPage
    Meta = meta
    TxnId <- MCTxnId
    TXN_START_ID = 10
    Preloaded <- MCPreloaded
    Image = {}
    Blank = Blank
    Torn = Torn
    None = None
    Checkpoint = Checkpoint
    CHECKPOINT_LOG_BYTES = 2
    MaxLog = 9
    MaxPoints = 6
    MaxCommitTs = 2
    MaxFailures = 0
    MaxKills = 0
    MaxPowerLosses = 2
INVARIANT CommittedRows
CHECK_DEADLOCK FALSE
