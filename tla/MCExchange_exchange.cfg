SPECIFICATION FairSpec
CONSTANTS
    Requests = {r1, r2}
    k1 = k1
    k2 = k2
    Keys <- MCKeys
    InitialKeys <- MCInitialKeys
    Tokens <- MCTokens
    MaxRotations = 1
    Calls <- MCCalls
    Dtos <- MCDtos
    Results <- MCResults
    Errors <- MCErrors
    snakeToCamel <- snakeToCamelDeep
    camelToSnake <- camelToSnakeDeep
    KeysOf <- KeysIn
    SnakeKey <- IsSnake
    DigitWords = {"2"}
    NoKeys = NoKeys
    NoCache = NoCache
    NoAnswer = NoAnswer
    NoKid = NoKid
    NoToken = NoToken
    NoGuard = NoGuard
    NoCall = NoCall
    NoValue = NoValue
    NoReply = NoReply
INVARIANTS
    TypeOK
    GoodTokenGetsIn
    TwoFetchesAtMost
    HandledIsAdmitted
PROPERTIES
    BodyIsUnderstood
    WireIsSnake
    EveryoneAnswered
CHECK_DEADLOCK FALSE
