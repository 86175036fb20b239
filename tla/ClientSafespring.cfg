SPECIFICATION Spec
CONSTANTS
    Machine = {1, 2, 3, 4}
    NodeType <- MCNodeTypeBalanced
    CloudProvider = "safespring"
    ControlPlane = {A, B}
    NoControlPlane = NoControlPlane
    MachineResources = 1
    Faults = {"command", "connection", "lookup"}
    Client = {c1}
    Command = {"apply", "add", "clone", "replace", "remove", "terraform apply", "destroy", "edit"}
    Exclusive = TRUE
    InitialMachines = {1, 2, 4}
    NoMachine = NoMachine
    MaxCommands = 3
SYMMETRY ControlPlaneSymmetry
PROPERTIES
    BalancerSeesNodes
