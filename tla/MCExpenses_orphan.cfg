SPECIFICATION SerialSpec
CONSTANTS
    Requests = {r1, r2}
    MayFail = {}
    Users <- MCUsers
    Groups <- MCGroups
    DefaultGroups <- MCDefaultGroups
    Members <- MCMembers
    Methods <- MCMethods
    Owner <- MCOwner
    InitialType <- MCInitialType
    PatchableMethods = {}
    DeletableMethods = {}
    CreateBodies <- MCRomanaPurchase
    CloseBodies <- MCClose
    PatchBodies = {}
    Deleters = {}
    NoPlan = NoPlan
    NoMethod = NoMethod
    NoBody = NoBody
    NoJob = NoJob
SYMMETRY Symmetry
INVARIANTS
    PlanHasRow
CHECK_DEADLOCK FALSE
