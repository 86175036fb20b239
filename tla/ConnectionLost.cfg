SPECIFICATION Spec
CONSTANTS
    Machine = {1, 2, 3}
    NodeType <- MCNodeType
    CloudProvider = "exoscale"
    ControlPlane = {A, B}
    NoControlPlane = NoControlPlane
    MachineResources = 1
    Faults = {"connection"}
    Client = {c1}
    Command = {"apply", "remove"}
    Exclusive = TRUE
    InitialMachines = {1, 2, 3}
    NoMachine = NoMachine
    MaxCommands = 2
SYMMETRY ControlPlaneSymmetry
PROPERTIES
    RemoveKeepsQuorum
