SPECIFICATION Spec
CONSTANTS
    Requests = {r1, r2, r3, r4}
    MayFail = {r1, r2, r3, r4}
    Users <- MCUsers
    Days <- MCDays
    DaysOfMonth <- MCDaysOfMonth
    CreateBodies <- MCCreate
    PatchBodies <- MCPatch
    Deleters <- MCUsers
    NoMethod = NoMethod
    NoDay = NoDay
    NoType = NoType
    NoCall = NoCall
SYMMETRY Symmetry
INVARIANTS
    TypeOK
PROPERTIES
    OnlyOwnerWrites
    KeepsTable
    CycleFollowsType
    BadDayNeedsNoType
CHECK_DEADLOCK FALSE
