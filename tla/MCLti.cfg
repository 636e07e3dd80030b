SPECIFICATION Spec
CONSTANTS
    i1 = i1
    i2 = i2
    k1 = k1
    k2 = k2
    u1 = u1
    s1 = s1
    s2 = s2
    Issuers = {i1, i2}
    Subjects = {u1}
    Kids = {k1, k2}
    Logins = {s1, s2}
    Launches = {1, 2}
    KeySets <- MCKeySets
    Answers <- MCAnswers
    StateTtl = 1
    KeysTtl = 1
    MaxTime = 2
    MaxRotations = 1
    Backends = {"memory", "redis"}
    None = None
INVARIANTS
    StateUsedOnce
    IssuerIsTheLoginsIssuer
    PublishedKeyIsFound
CHECK_DEADLOCK FALSE
