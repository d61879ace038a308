SPECIFICATION FairResumedSpec
CONSTANTS
    s1 = s1
    s2 = s2
    meta = meta
    Slot <- MCOneSlot
    Page <- MCTwoPages
    Meta = meta
    TxnId <- MCTxnId
    TXN_START_ID = 10
    Preloaded <- MCPreloaded
    Image = {}
    Blank = Blank
    Torn = Torn
    None = None
    Checkpoint = Checkpoint
    CHECKPOINT_LOG_BYTES = 4
    MaxLog = 30
    MaxPoints = 30
    MaxCommitTs = 2
    MaxFailures = 1
    MaxKills = 2
    MaxPowerLosses = 0
PROPERTIES RecoveryCompletes
CHECK_DEADLOCK FALSE
