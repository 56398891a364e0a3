CONSTANTS
    Subject = {s1, s2}
    Jti = {j1, j2}
    AccessTtl = 3
    EpochTtl = 3
    MaxEpoch = 2
    NoRead = NoRead
    Ticket = {t1}
    Upgrade = {u1, u2}
    TicketTtl = 2
    WriteDelay = 1
SPECIFICATION TicketSpec
SYMMETRY Symmetry
INVARIANTS
    TicketWithinToken
    RevokedTicketRefused
PROPERTY
    RefusedStaysRefused
