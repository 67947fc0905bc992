SPECIFICATION Spec
CONSTANTS
    Requests = {r1, r2, r3, r4}
    MayFail = {r1, r2, r3, r4}
    Users <- MCUsers
    Groups <- MCGroups
    DefaultGroups <- MCDefaultGroups
    Members <- MCMembers
    Methods <- MCMethods
    Owner <- MCOwner
    InitialType <- MCInitialType
    PatchableMethods = {"visa", "cash"}
    DeletableMethods = {"visa", "cash"}
    CreateBodies <- MCMixed
    CloseBodies <- MCClose
    PatchBodies <- MCEdits
    Deleters = {"ana"}
    NoPlan = NoPlan
    NoMethod = NoMethod
    NoBody = NoBody
    NoJob = NoJob
SYMMETRY Symmetry
INVARIANTS
    TypeOK
    PlanProgress
    ChargesMatchPlan
    NoGaps
    RowsAsCharged
    OneParty
    MethodInGroup
    InstallmentSplitsAddUp
PROPERTIES
    KeepsTable
CHECK_DEADLOCK FALSE
