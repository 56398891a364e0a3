CONSTANTS
    Token = {1, 2, 3, 4}
    Lineage = {1, 2}
    Unissued = Unissued
    NoToken = NoToken
    Call = {c1, c2, c3}
    Manual = {c1}
    Tab = {b1, b2}
    NoCall = NoCall
    NoTab = NoTab
SPECIFICATION MCSpec
SYMMETRY Symmetry
VIEW View

    
    
    
PROPERTY RenewedOnce
