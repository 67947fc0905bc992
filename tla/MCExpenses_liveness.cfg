SPECIFICATION FairSpec
CONSTANTS
    Requests = {r1, r2, r3}
    MayFail = {r1, r2, r3}
    Users <- MCUsers
    Groups <- MCGroups
    DefaultGroups <- MCDefaultGroups
    Members <- MCMembers
    Methods <- MCMethods
    Owner <- MCOwner
    InitialType <- MCInitialType
    PatchableMethods = {"visa"}
    DeletableMethods = {"cash"}
    CreateBodies <- MCSharedOrNot
    CloseBodies <- MCClose
    PatchBodies <- MCEdits
    Deleters = {"ana"}
    NoPlan = NoPlan
    NoMethod = NoMethod
    NoBody = NoBody
    NoJob = NoJob
INVARIANTS
    NegativeOnlyByTolerance
PROPERTIES
    RequestsEnd
CHECK_DEADLOCK FALSE
