SPECIFICATION SerialSpec
CONSTANTS
    Requests = {r1}
    MayFail = {}
    Users <- MCUsers
    Groups <- MCGroups
    DefaultGroups <- MCDefaultGroups
    Members <- MCMembers
    Methods <- MCMethods
    Owner <- MCOwner
    InitialType <- MCInitialType
    PatchableMethods = {}
    DeletableMethods = {}
    CreateBodies <- MCCashPurchase
    CloseBodies <- MCClose
    PatchBodies = {}
    Deleters = {}
    NoPlan = NoPlan
    NoMethod = NoMethod
    NoBody = NoBody
    NoJob = NoJob
SYMMETRY Symmetry
INVARIANTS
    PlansOnCredit
CHECK_DEADLOCK FALSE
