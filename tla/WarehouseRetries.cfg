SPECIFICATION WarehouseSpec
CONSTANTS
    Kinds = {"decision"}
    BatchSize = 2
    Sla = 1
    MaxMessages = 2
    MaxFailures = 0
    MaxTicks = 0
INVARIANT TotalCountsDecisions
CHECK_DEADLOCK FALSE
