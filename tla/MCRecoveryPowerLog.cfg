SPECIFICATION RecoverySpec
CONSTANTS
    s1 = s1
    s2 = s2
    meta = meta
    Slot <- MCOneSlot
    Page <- MCTwoPages
    Meta = meta
    TxnId <- MCTxnId
    TXN_START_ID = 10
    Preloaded = {}
    Image = {}
    Blank = Blank
    Torn = Torn
    None = None
    Checkpoint = Checkpoint
    CHECKPOINT_LOG_BYTES = 6
    MaxLog = 9
    MaxPoints = 5
    MaxCommitTs = 2
    MaxFailures = 0
    MaxKills = 0
    MaxPowerLosses = 1
INVARIANTS CommittedRows DurableCommitsStay NoOrphanStamps
CHECK_DEADLOCK FALSE
