CONSTANTS
    c1 = c1
    c2 = c2
    s1 = s1
    s2 = s2
    Sessions = {s1}
    Conns = {c1}
    SessionOf <- SessionOfOne
    Messages <- AllMessages
    Consumers = {c1}
    ConfirmationFrames = 2
    Threshold = 2
    MaxLen = 2
    MaxPushes = 3
    MaxFaults = 1
    MaxDisconnects = 1
SPECIFICATION FairPipelineSpec
CHECK_DEADLOCK FALSE
PROPERTY
    DecisionsSettle
