SPECIFICATION AgentFairSpec
CONSTANTS
    MaxRuns = 4
    MaxSignals = 2
    PipeCapacity = 1
    FirstOutput = 2
    SecondOutput = 2
INVARIANTS
    AgentTypeOK
    PlaybookHasKey
    LeakIsReported
PROPERTIES
    NoSuccessAfterForward
    RunReturns
    GoroutinesEnd
    AgentIsKilled
