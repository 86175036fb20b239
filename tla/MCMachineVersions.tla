--------------------------- MODULE MCMachineVersions ---------------------------
(***************************************************************************)
(* MachineVersions for TLC: a cluster of one master on each provider that  *)
(* has its own images, and one with three masters; the kubeadm of every    *)
(* image is that of its kubelet, or one minor version newer.               *)
(***************************************************************************)
EXTENDS MachineVersions, TLC

Choices == {<<"aws", "dev", "wc">>, <<"azure", "dev", "wc">>, <<"safespring", "dev", "wc">>,
            <<"aws", "prod", "wc">>}

SameKubeadm == [v \in Versions |-> v]

NewerKubeadm ==
    [v \in Versions |-> CASE Minor(v) = 15 -> 1614
                         [] Minor(v) = 16 -> 1711
                         [] Minor(v) = 17 -> 1812
                         [] OTHER -> v]

KubeadmChoices == {SameKubeadm, NewerKubeadm}

Interchangeable == Permutations(NewName)

=============================================================================
