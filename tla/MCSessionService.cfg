CONSTANTS
    Subject = {s1}
    Hash = {h1, h2, h3}
    Family = {f1, f2, f3}
    NoFamily = NoFamily
    NoSubject = NoSubject
    NoRecord = NoRecord
    NoHash = NoHash
    RefreshTtl = 2
    GraceTtl = 1
    Call = {c1, c2, c3}
    Limit = 1
SPECIFICATION MCSpec
SYMMETRY Symmetry
INVARIANT LoginsSettle
PROPERTIES
    ImplementsStore
    ServesTokens
    ListedSessionsEnded
