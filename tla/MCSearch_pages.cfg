SPECIFICATION Spec
CONSTANTS
    Rows <- MCRows
    GroupOf <- MCGroupOf
    OwnerOf <- MCOwnerOf
    Places <- MCPlaces
    Kinds <- MCKinds
    Initial <- MCInitial
    User = "ana"
    Members <- MCMembers
    Queries <- MCQueries
    DefaultSize = 2
    MaxSize = 3
    MaxWrites = 2
    NoGroup = NoGroup
    NoQuery = NoQuery
    NoData = NoData
    NoCount = NoCount
INVARIANTS
    TypeOK
    MissedOnlyByWrites
    RepeatedOnlyByWrites
    OnlyOwn
CHECK_DEADLOCK FALSE
