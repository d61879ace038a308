SPECIFICATION Spec
CONSTANTS
    TXN_START_ID = 10
    MaxTxns = 3
    MaxCommitTs = 4
    Rid <- MCRid
    Preloaded <- MCPreloaded
    Collector = {g1}
    MaxFailures = 1
    UnstampMayFail = FALSE
INVARIANTS TypeOK SnapshotReads RollbackReady WatermarkBelowReaders
PROPERTIES ImplementsSnapshotIsolation
