CONSTANTS
    admin = admin
    member = member
    Role = {admin, member}
    Includes <- MCIncludes
    lead = lead
    aide = aide
    Staff = {lead, aide}
    StaffRole <- MCStaffRole
    Token = {t1, t2}
    Call = {c1, c2}
    InviteTtl = 2
    Attempts = 2
    NoToken = NoToken
SPECIFICATION InvitationSpec
SYMMETRY Symmetry
PROPERTY OutrankedNeverSupersedes
