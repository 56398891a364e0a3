CONSTANTS
    Subject = {s1}
    Hash = {h1, h2, h3}
    Family = {f1}
    Req = {r1, r2, r3}
    NoFamily = NoFamily
    NoSubject = NoSubject
    NoRecord = NoRecord
    NoHash = NoHash
    RefreshTtl = 3
    GraceTtl = 2
    AbsoluteCap = 1
    MaxSweeps = 1
SPECIFICATION MCSpec
SYMMETRY Symmetry
VIEW View
INVARIANTS
    MintsPerToken
    LineageEnds
    RotatedSessionsPostdateSweep
    ReplayRecognised
    RevokedFamilyStaysDead
