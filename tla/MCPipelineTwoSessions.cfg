CONSTANTS
    c1 = c1
    c2 = c2
    s1 = s1
    s2 = s2
    Sessions = {s1, s2}
    Conns = {c1, c2}
    SessionOf <- SessionOfEach
    Messages <- AllMessages
    Consumers = {c1, c2}
    ConfirmationFrames = 2
    Threshold = 2
    MaxLen = 2
    MaxPushes = 3
    MaxFaults = 1
    MaxDisconnects = 1
SPECIFICATION PipelineSpec
CHECK_DEADLOCK FALSE
INVARIANTS
    NewestRunKept
    DroppedAccountsForLoss
    FifoAcrossConsumers
    FlagsInEmissionOrder
    FlagsLinkToOwnTelemetry
    PersistedScoreMatchesFlags
    KillSwitchBackedByRecord
PROPERTY
    RecordImmutable
