CONSTANTS
    Req = {r1, r2}
    Secret = {s1}
    Batch = {b1, b2}
    Temp = {t1, t2}
    None = None
    CodeCount = 2
    Window = 1
    TotpCount = 1
    MaxEpoch = 1
    Start <- MCStart
    MaxRequests = 3
SPECIFICATION Spec
SYMMETRY Symmetry
VIEW View
CHECK_DEADLOCK FALSE
INVARIANTS
    
    RecoveryCodeOpensOnce
PROPERTIES
    ChangeEndsOlderSessions
    
    ChallengeWritesOnlyItsCode
