SPECIFICATION Spec
CONSTANTS
    Cluster = {sc, wc}
    Machine = {m1, m2}
    Broken = Broken
    Null = Null
    MachineResources = 5
    MaxCommands = 4
INVARIANTS
    TypeOK
    TFVarsAsWritten
    InfraTrue
PROPERTIES
    ClustersApart
    AddDestroysNothing
    OwnMachinesManaged
CHECK_DEADLOCK FALSE
SYMMETRY Interchangeable
