SPECIFICATION Spec
CONSTANTS
    Machine = {1, 2, 3, 4}
    NodeType <- MCNodeType
    CloudProvider = "azure"
    ControlPlane = {A, B}
    NoControlPlane = NoControlPlane
    MachineResources = 5
    Faults = {}
    Client = {c1}
    Command = {"apply", "remove", "edit"}
    Exclusive = TRUE
    InitialMachines = {1, 2}
    NoMachine = NoMachine
    MaxCommands = 2
SYMMETRY ControlPlaneSymmetry
PROPERTIES
    RemoveTouchesOnlyItsMachine
