SPECIFICATION Spec
CONSTANTS
    Choice <- Choices
    Kubeadms <- KubeadmChoices
    NewName = {a, b}
    Word = 65536
SYMMETRY Interchangeable
INVARIANTS
    TypeOK
    SkewPolicy
    NodesNotNewer
