SPECIFICATION ResumedSpec
CONSTANTS
    s1 = s1
    s2 = s2
    meta = meta
    Slot <- MCOneSlot
    Page <- MCTwoPages
    Meta = meta
    TxnId <- MCThreeTxns
    TXN_START_ID = 10
    Preloaded <- MCPreloaded
    Image = {}
    Blank = Blank
    Torn = Torn
    None = None
    Checkpoint = Checkpoint
    CHECKPOINT_LOG_BYTES = 3
    MaxLog = 8
    MaxPoints = 6
    MaxCommitTs = 3
    MaxFailures = 0
    MaxKills = 2
    MaxPowerLosses = 0
INVARIANTS CommittedRows DurableCommitsStay NoOrphanStamps
CHECK_DEADLOCK FALSE
