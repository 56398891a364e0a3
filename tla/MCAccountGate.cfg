CONSTANTS
    Request = {r1, r2}
    Plain = r2
    CacheTtl = 2
    Delay = 1
SPECIFICATION MCSpec
VIEW View
INVARIANTS
    StaleStatusExpires
PROPERTY
    AnswersAreCurrent
