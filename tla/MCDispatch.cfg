SPECIFICATION FairSpec
CONSTANTS
    Configs <- MCConfigs
    Faces <- MCFaces
    Chunks <- MCChunks
    Grid = 8
    Size = 20
    SamplesPerFrame = 2
    MaxEvents = 6
    None = None
    Absent = Absent
INVARIANTS
    SamplingExact
    FaceBoxCoversFace
    ChunkVerdictExact
    LandmarkerReleased
PROPERTY
    ThreadStops
CHECK_DEADLOCK FALSE
