CONSTANTS
    Password = {w1, w2}
    Req = {r1, r2}
    Proof = {p1, p2}
    NoPhc = NoPhc
    MaxTries = 1
    MaxWrites = 2
    MaxWindows = 2
SPECIFICATION MCSpec
SYMMETRY Symmetry
VIEW View
INVARIANTS
    RehashKeepsPassword
    OtpGuessBudget

    
CHECK_DEADLOCK FALSE
