CONSTANTS
    Id = {login, reproof}
    LoginId = {login}
    Attempt = {a1, a2, a3}
    MaxAttempts = 2
    Window = 2
    Engine = {e1, e2}
    Secret = {k1, k2, k3}
    First = k1
    Access = {j1}
    MaxBumps = 1
    MaxCipher = 3
    Token = {1, 2, 3}
    Lineage = {1, 2}
    Unissued = Unissued
    NoToken = NoToken
    Call = {c1, c2}
    Authority = {"super", "support"}
    Initial = "super"
    WithMfa = {"support"}
    MaxChanges = 1
    MaxEpoch = 1
    Host = {"app", "api"}
    Domain = {"site", "sub"}
    Tab = {1}
    Client = {"c", "d", "e"}
    Proxy = {"p"}
    Junk = "junk"
    NoPeer = "unknown"
    Burst = 1
    Span = 2
    Path <- MCPath
    Written <- MCWritten
    Net <- MCNet
    Suffix <- MCSuffix
    Answer <- MCAnswer
SPECIFICATION MCSpec
SYMMETRY Symmetry
INVARIANTS
    GuessBudget
    RefusedThroughRotation
    
    
    LogoutIsFinal
    
PROPERTIES
    LockEnds
    
    AuthorityIsCurrent
    LogoutClearsJar
