SPECIFICATION Spec
CONSTANTS
    Requests = {r1, r2}
    MayFail = {r1, r2}
    Users <- MCUsers
    Emails <- MCEmails
    Profiles <- MCProfiles
    NoEmail = NoEmail
    NoKey = NoKey
    NoCall = NoCall
SYMMETRY Symmetry
INVARIANTS
    OnePersonalGroup
CHECK_DEADLOCK FALSE
