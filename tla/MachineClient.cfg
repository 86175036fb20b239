SPECIFICATION FairSpec
CONSTANTS
    Timeout = 7
    DialTimeout = 2
    DecryptTime = 1
    HandshakeTime = 1
    MaxEarly = 2
INVARIANTS
    TypeOK
    WaitIsBounded
    NoConnectionLeft
    PromptHearsOperator
PROPERTIES
    WaitFindsMachine
    CommandEnds
CHECK_DEADLOCK FALSE
