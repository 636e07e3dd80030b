CONSTANTS
    Flags = {f1, f2}
    MaxConnects = 3
    MaxTelemetry = 1
    MaxServerPings = 1
    MaxClientPings = 1
    MaxLosses = 2
SPECIFICATION FairConnSpec
CHECK_DEADLOCK FALSE
INVARIANTS
    AckMeansLocked
    OneKillSwitchInFlight
PROPERTIES
    KilledClientStaysDown
    ClientSettles
