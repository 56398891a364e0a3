CONSTANTS
    Account = {a1, a2}
    Address = {e1, e2}
    Link = {l1}
    Nonce = {n1}
    Call = {c1, c2}
    Required = TRUE
    NoOne = NoOne
SPECIFICATION MCSpec
VIEW View
SYMMETRY Symmetry
CHECK_DEADLOCK FALSE
INVARIANTS
    VerifiedIsProven
    StaleLinkMovesNothing
