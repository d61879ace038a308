SPECIFICATION FairSpec
CONSTANTS
    TXN_START_ID = 10
    MaxTxns = 2
    MaxCommitTs = 3
    Rid <- MCRid
    Preloaded <- MCPreloaded
    Collector = {g1}
    MaxFailures = 2
    UnstampMayFail = FALSE
PROPERTIES TaintedIsRolledBack
