SPECIFICATION SerialSpec
CONSTANTS
    Requests = {r1, r2, r3}
    MayFail = {r1, r2, r3}
    Users <- MCUsers
    Groups <- MCGroups
    DefaultGroups <- MCDefaultGroups
    Members <- MCMembers
    Methods <- MCMethods
    Owner <- MCOwner
    InitialType <- MCInitialType
    PatchableMethods = {}
    DeletableMethods = {}
    CreateBodies <- MCPersonalPurchase
    CloseBodies <- MCClose
    PatchBodies = {}
    Deleters = {}
    NoPlan = NoPlan
    NoMethod = NoMethod
    NoBody = NoBody
    NoJob = NoJob
SYMMETRY Symmetry
INVARIANTS
    NeverOvercharged
CHECK_DEADLOCK FALSE
