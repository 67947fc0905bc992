SPECIFICATION Spec
CONSTANTS
    Requests = {r1, r2, r3}
    MayFail = {r1, r2, r3}
    Users <- MCUsers
    Emails <- MCEmails
    Profiles <- MCProfiles
    NoEmail = NoEmail
    NoKey = NoKey
    NoCall = NoCall
SYMMETRY Symmetry
INVARIANTS
    TypeOK
    AdmittedHavePersonal
    NoLaterPersonal
    RevokedNotAdmitted
PROPERTIES
    RevokedForGood
    OnlyOwnerRevokes
    EmailOnlyByOwner
CHECK_DEADLOCK FALSE
