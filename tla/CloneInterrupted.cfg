SPECIFICATION Spec
CONSTANTS
    Machine = {1, 2, 3}
    NodeType <- MCNodeType
    CloudProvider = "exoscale"
    ControlPlane = {A, B}
    NoControlPlane = NoControlPlane
    MachineResources = 1
    Faults = {"kill"}
    Client = {c1}
    Command = {"apply", "clone"}
    Exclusive = TRUE
    InitialMachines = {2, 3}
    NoMachine = NoMachine
    MaxCommands = 3
SYMMETRY ControlPlaneSymmetry
PROPERTIES
    ApplyJoinsAll
