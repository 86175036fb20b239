SPECIFICATION Spec
CONSTANTS
    Machine = {1, 2, 3, 4}
    NodeType <- MCNodeType
    CloudProvider = "citycloud"
    ControlPlane = {A, B}
    NoControlPlane = NoControlPlane
    MachineResources = 1
    Faults = {"kill"}
    Client = {c1}
    Command = {"apply", "add", "clone", "drain", "terraform apply", "destroy"}
    Exclusive = TRUE
    InitialMachines = {1, 3}
    NoMachine = NoMachine
    MaxCommands = 5
SYMMETRY ControlPlaneSymmetry
PROPERTIES
    ApplyJoinsAll
