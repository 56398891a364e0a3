CONSTANTS
    Password = {w1, w2}
    Req = {r1, r2}
    Proof = {p1}
    NoPhc = NoPhc
    MaxTries = 1
    MaxWrites = 2
    MaxWindows = 2
SPECIFICATION Spec
SYMMETRY Symmetry
VIEW View
INVARIANTS
    RehashNeverRestores
CHECK_DEADLOCK FALSE
