SPECIFICATION Spec
CONSTANTS
    Machine = {1, 2, 3}
    NodeType <- MCNodeType
    CloudProvider = "aws"
    ControlPlane = {A, B}
    NoControlPlane = NoControlPlane
    MachineResources = 1
    Faults = {}
    Client = {c1}
    Command = {"apply", "drain", "remove"}
    Exclusive = TRUE
    InitialMachines = {1, 2, 3}
    NoMachine = NoMachine
    MaxCommands = 2
SYMMETRY ControlPlaneSymmetry
PROPERTIES
    DrainFindsNode
