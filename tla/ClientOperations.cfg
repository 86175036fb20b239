SPECIFICATION Spec
CONSTANTS
    Machine = {1, 2, 3}
    NodeType <- MCNodeType
    CloudProvider = "exoscale"
    ControlPlane = {A, B}
    NoControlPlane = NoControlPlane
    MachineResources = 1
    Faults = {"command", "kill"}
    Client = {c1}
    Command = {"apply", "add", "clone", "replace", "remove", "reset", "edit"}
    Exclusive = TRUE
    InitialMachines = {1, 3}
    NoMachine = NoMachine
    MaxCommands = 4
SYMMETRY ControlPlaneSymmetry
INVARIANTS
    TypeOK
    PlaybooksSeeState
    ResetOnlyDrained
    ReplacementJoinedFirst
PROPERTIES
    RemoveTouchesOnlyItsMachine
    RemovedMachineHadLeft
    JoinTouchesOnlyItsMachine
    CompletedCommandsAgree
    ApplyYieldsKubectl
    RemoveKeepsQuorum
    ImplementsMachineChange
