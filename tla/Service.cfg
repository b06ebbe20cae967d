SPECIFICATION Spec
CONSTANTS
    None = None
    r1 = r1
    r2 = r2
    Requests = {r1, r2}
    Users = {"ann", "vic", "adm"}
    Keys = {"k1", "k2", "k3"}
    Role <- MCRole
    FirstKeys <- MCFirstKeys
    ColumnNames <- MCColumnNames
    Metrics <- MCMetrics
    Texts <- MCTexts
    Plans <- MCPlans
    Repairs <- MCRepairs
    Orders <- MCOrders
    RowCounts = {0, 1}
    PoolSize = 1
    MaxOutside = 1
INVARIANTS  RevokedKeyRefused AuditTells ErrorsExplained
PROPERTY EveryRequestAnswered
CHECK_DEADLOCK FALSE
