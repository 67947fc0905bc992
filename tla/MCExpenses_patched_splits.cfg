SPECIFICATION SerialSpec
CONSTANTS
    Requests = {r1, r2}
    MayFail = {}
    Users <- MCUsers
    Groups <- MCGroups
    DefaultGroups <- MCDefaultGroups
    Members <- MCMembers
    Methods <- MCMethods
    Owner <- MCOwner
    InitialType <- MCInitialType
    PatchableMethods = {}
    DeletableMethods = {}
    CreateBodies <- MCExpense
    CloseBodies <- MCClose
    PatchBodies <- MCEdits
    Deleters = {}
    NoPlan = NoPlan
    NoMethod = NoMethod
    NoBody = NoBody
    NoJob = NoJob
SYMMETRY Symmetry
INVARIANTS
    SplitsAddUp
CHECK_DEADLOCK FALSE
