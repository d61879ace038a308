SPECIFICATION Spec
CONSTANTS
    TXN_START_ID = 10
    MaxTxns = 2
    MaxCommitTs = 3
    Rid <- MCRid
    Preloaded <- MCPreloaded
    Collector = {g1, g2}
    MaxFailures = 2
    UnstampMayFail = TRUE
PROPERTIES PublishedVersionsStay CollectorsKeepWhatIsRead
