SPECIFICATION SerialSpec
CONSTANTS
    Requests = {r1, r2, r3, r4, r5}
    MayFail = {}
    Users <- MCUsers
    Groups <- MCGroups
    DefaultGroups <- MCDefaultGroups
    Members <- MCMembers
    Methods <- MCMethods
    Owner <- MCOwner
    InitialType <- MCInitialType
    PatchableMethods = {"visa"}
    DeletableMethods = {"cash"}
    CreateBodies <- MCSerialPurchases
    CloseBodies <- MCClose
    PatchBodies <- MCEdits
    Deleters = {"ana"}
    NoPlan = NoPlan
    NoMethod = NoMethod
    NoBody = NoBody
    NoJob = NoJob
SYMMETRY Symmetry
INVARIANTS
    Settled
    SameDivision
PROPERTIES
    NeverGoesBack
    KeepsLedger
CHECK_DEADLOCK FALSE
