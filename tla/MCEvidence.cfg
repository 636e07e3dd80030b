SPECIFICATION FairSpec
CONSTANTS
    f1 = f1
    f2 = f2
    s1 = s1
    clip = clip
    frame = frame
    c1 = c1
    c2 = c2
    Flags = {f1, f2}
    Sessions = {s1}
    Kinds = {clip, frame}
    Contents = {c1, c2}
    Uploads <- MCUploads
    Seals = {1, 2}
    Workers = {w1}
    BatchSize = 2
    MaxTime = 2
    Horizons = {2}
    MaxFaults = 2
    Garbage = garbage
    NoBlob = noblob
    NoRow = norow
    Unsent = unsent
    Refused = refused
    NoHorizon = nohorizon
INVARIANTS
    RowEvidenceIntact
    NoBlobOutlivesItsRow
PROPERTIES
    ImplementsContract
    ExpiredRowsReclaimed
CHECK_DEADLOCK FALSE
