SPECIFICATION Spec
CONSTANTS
    Page = {p1, p2}
    Image = {i1}
    TxnId = {t1}
    Blank = Blank
    Torn = Torn
    None = None
    CHECKPOINT_LOG_BYTES = 2
    MaxLog = 4
    MaxPoints = 3
    MaxFailures = 1
    MaxKills = 0
    MaxPowerLosses = 2
CHECK_DEADLOCK FALSE
PROPERTY ImplementsDurablePoints
