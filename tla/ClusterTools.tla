------------------------------ MODULE ClusterTools ------------------------------
(***************************************************************************)
(* The stores that a ck8s command works on, and what the tools started by  *)
(* the runner package do to them.  One Kubernetes cluster is modelled.     *)
(*                                                                         *)
(* In the configuration directory: the machines wanted (tfvars.json), the  *)
(* machines of this cluster in infra.json, the Ansible inventory and the   *)
(* kubeconfig.  Elsewhere: the machines Terraform has created, the         *)
(* backends of the Safespring load balancers, the kubeadm files of every   *)
(* machine, and, for every control plane ever initialised and not yet      *)
(* lost, its registered nodes and its etcd members.                        *)
(*                                                                         *)
(* A machine is a natural number: inventories list machines sorted by      *)
(* name, and masters[0] of a playbook is the least master.  Terraform,     *)
(* kubeadm, kubectl and Ansible are not part of the source tree; they are  *)
(* modelled by what the code around them relies on.                        *)
(***************************************************************************)
EXTENDS Naturals, FiniteSetsExt

CONSTANTS
    Machine,          \* machine names, ordered
    NodeType,         \* the node type a machine name stands for
    CloudProvider,    \* "exoscale", "safespring", "citycloud", "aws", "azure"
    ControlPlane,     \* identities of the control planes kubeadm init creates
    NoControlPlane,
    MachineResources, \* Terraform resources of one machine
    Faults            \* the faults the environment may inject

NodeTypes == {"master", "worker", "loadbalancer"}
CloudProviders == {"exoscale", "safespring", "citycloud", "aws", "azure"}

\* "command": an external command may fail, perhaps half way;
\* "connection": an SSH connection may be lost while its command runs;
\* "lookup": kubectl may fail with "not found" in its output for another reason;
\* "kill": the ck8s process may be killed between two steps.
FaultKinds == {"command", "connection", "lookup", "kill"}

ASSUME MachineAssumption == Machine \subseteq Nat /\ IsFiniteSet(Machine)
ASSUME NodeTypeAssumption == NodeType \in [Machine -> NodeTypes]
ASSUME CloudProviderAssumption == CloudProvider \in CloudProviders
ASSUME ControlPlaneAssumption == NoControlPlane \notin ControlPlane
ASSUME MachineResourcesAssumption == MachineResources \in Nat \ {0}
ASSUME FaultsAssumption == Faults \subseteq FaultKinds

VARIABLES
    tfvars,           \* tfvars.json: the machines wanted
    infra,            \* infra.json: this cluster's machines
    inventory,        \* the Ansible inventory; {} when truncated or never written
    kubeconfig,       \* state of the file and the control plane it talks to
    tfstate,          \* the machines that exist, as the Terraform state has them
    balancer,         \* machines behind the load balancers (Safespring)
    host,             \* per machine: its kubeadm files and their control plane
    node,             \* per control plane: the registration of every machine
    etcd              \* per control plane: the members of its etcd cluster

stores == <<tfvars, infra, inventory, kubeconfig, tfstate, balancer, host, node, etcd>>
k8s == <<kubeconfig, host, node, etcd>>

HostStates == [admin: BOOLEAN, kubelet: BOOLEAN, cp: ControlPlane \cup {NoControlPlane}]
NodeStates == {"none", "ready", "cordoned", "drained"}
Kubeconfigs == [state: {"absent", "plaintext", "encrypted"},
                cp: ControlPlane \cup {NoControlPlane}]

CleanHost == [admin |-> FALSE, kubelet |-> FALSE, cp |-> NoControlPlane]

StoresTypeOK ==
    /\ tfvars \subseteq Machine
    /\ infra \subseteq Machine
    /\ inventory \subseteq Machine
    /\ kubeconfig \in Kubeconfigs
    /\ tfstate \subseteq Machine
    /\ balancer \subseteq Machine
    /\ host \in [Machine -> HostStates]
    /\ node \in [ControlPlane -> [Machine -> NodeStates]]
    /\ etcd \in [ControlPlane -> SUBSET Machine]

-----------------------------------------------------------------------------
(* Node types and control planes. *)

\* ValidateCluster sees the machines of the OpenStack providers alone, and there
\* requires one; those of the others are in a field that is not exported.
Valid(S) == CloudProvider \in {"citycloud", "safespring"} => S # {}

Masters(S) == {m \in S : NodeType[m] = "master"}
Workers(S) == {m \in S : NodeType[m] = "worker"}
LoadBalancers(S) == {m \in S : NodeType[m] = "loadbalancer"}
K8sNodes(S) == Masters(S) \cup Workers(S)

\* The etcd members that still run: those whose machine holds their files.
RunningMembers(c) == {m \in etcd[c] : host[m].cp = c}

\* The API server answers while a majority of the etcd members runs.
Healthy(c) ==
    /\ c # NoControlPlane
    /\ 2 * Cardinality(RunningMembers(c)) > Cardinality(etcd[c])

\* kubectl runs under `sops exec-file`, which needs an encrypted kubeconfig.
KubectlWorks == kubeconfig.state = "encrypted" /\ Healthy(kubeconfig.cp)

NodeState(m) == node[kubeconfig.cp][m]

\* ck8s calls the node of machine m by prefix and name; on AWS the cloud
\* provider integration registers it under its private DNS name instead.
NodeNamedByPrefix == CloudProvider # "aws"

\* A control plane none of whose masters is left is gone with everything it
\* stored: its nodes, its etcd and what a kubeconfig or kubelet.conf refers to.
Settle(h, n, e, k) ==
    LET left == {h[m].cp : m \in Masters(Machine)} \ {NoControlPlane}
        Left(c) == IF c \in left THEN c ELSE NoControlPlane
    IN  /\ host' = [m \in Machine |-> [h[m] EXCEPT !.cp = Left(h[m].cp)]]
        /\ node' = [c \in ControlPlane |->
                        IF c \in left THEN n[c] ELSE [m \in Machine |-> "none"]]
        /\ etcd' = [c \in ControlPlane |-> IF c \in left THEN e[c] ELSE {}]
        /\ kubeconfig' = [k EXCEPT !.cp = Left(k.cp)]

\* A control plane identity that nothing refers to.
Unused(c) ==
    /\ c # kubeconfig.cp
    /\ \A m \in Machine : host[m].cp # c

-----------------------------------------------------------------------------
(* Terraform.  Machines that leave the state are destroyed with their disks. *)

ToAdd == MachineResources * Cardinality(tfvars \ tfstate)
ToDestroy == MachineResources * Cardinality(tfstate \ tfvars)

\* Mutants of NoDiffFound: the plan is not looked at; machines to be destroyed are
\* not looked for.
PlanIgnored == TRUE
AdditionsOnly == ToAdd = 0

\* PlanNoDiff looks for "0 to add, 0 to change, 0 to destroy" in the output of
\* terraform plan; "10 to add, 0 to change, 0 to destroy" holds it as well.
NoDiffFound == ToAdd % 10 = 0 /\ ToDestroy = 0

Provision(S) ==
    /\ tfstate' = S
    /\ Settle([m \in Machine |-> IF m \in S THEN host[m] ELSE CleanHost],
              node, etcd, kubeconfig)
    /\ UNCHANGED <<tfvars, infra, inventory, balancer>>

TerraformApplied == Provision(tfvars)

\* terraform apply works machine by machine and may stop anywhere.
TerraformApplyFailed ==
    \E S \in SUBSET (tfvars \cup tfstate) : tfvars \cap tfstate \subseteq S /\ Provision(S)

TerraformDestroyed == Provision({})

TerraformDestroyFailed == \E S \in SUBSET tfstate : Provision(S)

-----------------------------------------------------------------------------
(* kubeadm and kubectl. *)

\* kubeadm reset wipes the files and leaves the etcd cluster if it can.
KubeadmReset(m) ==
    /\ Settle([host EXCEPT ![m] = CleanHost], node,
              [c \in ControlPlane |->
                   IF c = host[m].cp /\ Healthy(c) THEN etcd[c] \ {m} ELSE etcd[c]],
              kubeconfig)
    /\ UNCHANGED <<tfvars, infra, inventory, tfstate, balancer>>

SetNodeState(m, s) ==
    /\ node' = [node EXCEPT ![kubeconfig.cp][m] = s]
    /\ UNCHANGED <<tfvars, infra, inventory, kubeconfig, tfstate, balancer, host, etcd>>

-----------------------------------------------------------------------------
(* Ansible.  A play fails when a host of the inventory does not exist. *)

HostsReachable == inventory \subseteq tfstate

\* initialize-master: `kubeadm init` on masters[0] unless admin.conf exists.
\* When it fails the files may be there without a working control plane.
KubeadmInit(m, complete) ==
    \E c \in ControlPlane :
        /\ Unused(c)
        /\ host' = [host EXCEPT ![m] = [admin |-> TRUE, kubelet |-> TRUE, cp |-> c]]
        /\ node' = [node EXCEPT ![c][m] = IF complete THEN "ready" ELSE "none"]
        /\ etcd' = [etcd EXCEPT ![c] = IF complete THEN {m} ELSE {}]
        /\ UNCHANGED <<tfvars, infra, inventory, kubeconfig, tfstate, balancer>>

\* `kubectl get nodes masters[0]` must report a Ready node before admin.conf is
\* fetched, except on Exoscale, where no cloud provider is defined.
MasterReady(m) ==
    /\ Healthy(host[m].cp)
    /\ CloudProvider # "exoscale" => node[host[m].cp][m] # "none"

FetchKubeconfig(m) ==
    /\ kubeconfig' = [state |-> "plaintext", cp |-> host[m].cp]
    /\ UNCHANGED <<tfvars, infra, inventory, tfstate, balancer, host, node, etcd>>

ActiveMasters == {m \in Masters(inventory) : host[m].admin}

\* Mutant of JoiningNodes: masters_joining is left out.
JoiningWorkers == {m \in Workers(inventory) : ~host[m].kubelet}

\* masters_joining and the workers, less those `creates: kubelet.conf` skips.
JoiningNodes == {m \in K8sNodes(inventory) : ~host[m].admin /\ ~host[m].kubelet}

\* The nodes in J joined control plane c and those in Q stopped half way through,
\* those in K after kubelet.conf was written and those in R once registered.
KubeadmJoin(c, J, Q, K, R) ==
    /\ host' = [m \in Machine |->
                    IF m \in J \cup Q
                    THEN [admin |-> NodeType[m] = "master", kubelet |-> m \in J \cup K, cp |-> c]
                    ELSE host[m]]
    /\ node' = [node EXCEPT ![c] =
                    [m \in Machine |->
                        IF m \in J \cup R /\ @[m] = "none" THEN "ready" ELSE @[m]]]
    /\ etcd' = [etcd EXCEPT ![c] = @ \cup Masters(J)]
    /\ UNCHANGED <<tfvars, infra, inventory, kubeconfig, tfstate, balancer>>

\* The playbook stops after some of the joins.  Masters join one at a time and
\* before the workers; the first file that a worker gets is kubelet.conf.
KubeadmJoinFailed(c) ==
    \E J, Q \in SUBSET JoiningNodes : \E K \in SUBSET Q : \E R \in SUBSET K :
        /\ J \cap Q = {}
        /\ Cardinality(Masters(Q)) <= 1
        /\ Workers(Q) \subseteq K
        /\ Workers(J \cup Q) # {} => Masters(JoiningNodes) \subseteq J
        /\ KubeadmJoin(c, J, Q, K, R)

=============================================================================
