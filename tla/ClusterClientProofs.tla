---------------------------- MODULE ClusterClientProofs ----------------------------
(***************************************************************************)
(* Theorems about ClusterClient for every set of machines, node types,     *)
(* provider, fault set and number of commands: what each command touches,  *)
(* that files and state agree, that a machine leaves its control plane     *)
(* before it goes, that quorum, kubeconfig and load balancers survive, and *)
(* that apply joins all.                                                   *)
(***************************************************************************)
EXTENDS ClusterClient, FiniteSetTheorems, TLAPS

\* The least-machine operator of the playbooks (masters[0]) yields the least machine of a set.
LEMMA MinIsLeast ==
    ASSUME NEW S \in SUBSET Nat, S # {}
    PROVE  Min(S) \in S /\ \A y \in S : Min(S) <= y
<1>1. PICK x \in S : \A y \in S : ~(<<y, x>> \in OpToRel(<, Nat))
    BY NatLessThanWellFounded, WFMin, Zenon
<1>2. OpToRel(<, Nat) = {ss \in Nat \X Nat : ss[1] < ss[2]}
    BY Zenon DEF OpToRel
<1>3. \A y \in S : ~(y < x)
    BY <1>1, <1>2
<1>4. \E z \in S : \A y \in S : z =< y
    BY <1>3
<1> QED BY <1>4 DEF Min

LEMMA MinIsMember ==
    ASSUME NEW S \in SUBSET Nat, S # {}
    PROVE  Min(S) \in S
BY MinIsLeast

-----------------------------------------------------------------------------
(* Type correctness. *)

ControlTypeOK ==
    /\ pc \in [Client -> Steps]
    /\ run \in [Client -> Runs]
    /\ result \in [Client -> Results]
    /\ started \in 0..MaxCommands

\* A command that names a machine has one: TypeOK alone is not inductive, because
\* AddMachine puts the target among the machines of the cluster.
TargetNamed ==
    \A p \in Client :
        run[p].command \notin {"none", "apply", "terraform apply", "destroy"}
            => run[p].target \in Machine

\* An idle client's memory is a memory.
LEMMA NoRunType == NoRun \in Runs
BY DEF NoRun, Runs, Phases

\* Goto moves the program counter to a step and keeps the types of the rest.
LEMMA GotoType ==
    ASSUME ControlTypeOK, NEW p \in Client, NEW s \in Steps, Goto(p, s)
    PROVE  ControlTypeOK'
BY DEF ControlTypeOK, Goto

\* So does GotoWith, with a new memory.
LEMMA GotoWithType ==
    ASSUME ControlTypeOK, NEW p \in Client, NEW s \in Steps, NEW r \in Runs,
           GotoWith(p, s, r)
    PROVE  ControlTypeOK'
BY DEF ControlTypeOK, GotoWith

\* Return leaves the client idle, with nothing in memory and a result.
LEMMA ReturnType ==
    ASSUME ControlTypeOK, NEW p \in Client, NEW r \in Results, Return(p, r)
    PROVE  ControlTypeOK'
BY NoRunType DEF ControlTypeOK, Return, Steps

\* A step that leaves the stores alone keeps their types.
LEMMA StoresUnchangedType ==
    ASSUME StoresTypeOK, UNCHANGED stores
    PROVE  StoresTypeOK'
BY DEF StoresTypeOK, stores

\* A failing step keeps TypeOK.
LEMMA FailType ==
    ASSUME TypeOK, NEW p \in Client, Fail(p) \/ CommandFails(p)
    PROVE  TypeOK'
<1>1. Return(p, "error") /\ UNCHANGED stores
    BY DEF Fail, CommandFails
<1> QED BY <1>1, ReturnType, StoresUnchangedType DEF TypeOK, ControlTypeOK, Results

\* The end of Join, whichever command called it, keeps the types.
LEMMA JoinedType ==
    ASSUME ControlTypeOK, NEW p \in Client, Joined(p)
    PROVE  ControlTypeOK'
<1>1. [run[p] EXCEPT !.phase = "remove"] \in Runs
    BY DEF ControlTypeOK, Runs, Phases
<1> QED BY <1>1, GotoWithType, ReturnType DEF Joined, Steps, Results

\* Settling the control planes keeps the types of what it rewrites: hosts, nodes,
\* members and the kubeconfig may lose their control plane and nothing else.
LEMMA SettleType ==
    ASSUME NEW h \in [Machine -> HostStates],
           NEW n \in [ControlPlane -> [Machine -> NodeStates]],
           NEW e \in [ControlPlane -> SUBSET Machine],
           NEW k \in Kubeconfigs,
           Settle(h, n, e, k)
    PROVE  /\ host' \in [Machine -> HostStates]
           /\ node' \in [ControlPlane -> [Machine -> NodeStates]]
           /\ etcd' \in [ControlPlane -> SUBSET Machine]
           /\ kubeconfig' \in Kubeconfigs
<1> DEFINE left == {h[m].cp : m \in Masters(Machine)} \ {NoControlPlane}
           Left(c) == IF c \in left THEN c ELSE NoControlPlane
<1>1. \A m \in Machine : h[m].cp \in ControlPlane \cup {NoControlPlane}
    BY DEF HostStates
<1>2. \A c : Left(c) \in ControlPlane \cup {NoControlPlane}
    BY <1>1 DEF Masters
<1>3. host' = [m \in Machine |-> [h[m] EXCEPT !.cp = Left(h[m].cp)]]
    BY DEF Settle
<1>4. node' = [c \in ControlPlane |-> IF c \in left THEN n[c] ELSE [m \in Machine |-> "none"]]
    BY DEF Settle
<1>5. etcd' = [c \in ControlPlane |-> IF c \in left THEN e[c] ELSE {}]
    BY DEF Settle
<1>6. kubeconfig' = [k EXCEPT !.cp = Left(k.cp)]
    BY DEF Settle
<1> HIDE DEF left, Left
<1>7. host' \in [Machine -> HostStates]
    BY <1>2, <1>3 DEF HostStates
<1>8. node' \in [ControlPlane -> [Machine -> NodeStates]]
    BY <1>4 DEF NodeStates
<1>9. etcd' \in [ControlPlane -> SUBSET Machine]
    BY <1>5
<1>10. kubeconfig' \in Kubeconfigs
    BY <1>2, <1>6 DEF Kubeconfigs
<1> QED BY <1>7, <1>8, <1>9, <1>10

\* A wiped machine is in a state a host can be in.
LEMMA CleanHostType == CleanHost \in HostStates
BY DEF CleanHost, HostStates

\* Terraform leaves well-typed stores when the machines it leaves are machines.
LEMMA ProvisionType ==
    ASSUME StoresTypeOK, NEW S \in SUBSET Machine, Provision(S)
    PROVE  StoresTypeOK'
<1>1. [m \in Machine |-> IF m \in S THEN host[m] ELSE CleanHost] \in [Machine -> HostStates]
    BY CleanHostType DEF StoresTypeOK
<1> QED BY <1>1, SettleType DEF Provision, StoresTypeOK

\* kubeadm reset keeps the types of the stores.
LEMMA KubeadmResetType ==
    ASSUME StoresTypeOK, NEW m, KubeadmReset(m)
    PROVE  StoresTypeOK'
<1>1. [host EXCEPT ![m] = CleanHost] \in [Machine -> HostStates]
    BY CleanHostType DEF StoresTypeOK
<1>2. [c \in ControlPlane |-> IF c = host[m].cp /\ Healthy(c) THEN etcd[c] \ {m} ELSE etcd[c]]
          \in [ControlPlane -> SUBSET Machine]
    BY DEF StoresTypeOK
<1> QED BY <1>1, <1>2, SettleType DEF KubeadmReset, StoresTypeOK

\* kubectl drain and delete keep the types of the stores.
LEMMA SetNodeStateType ==
    ASSUME StoresTypeOK, NEW m, NEW s \in NodeStates, SetNodeState(m, s)
    PROVE  StoresTypeOK'
BY DEF SetNodeState, StoresTypeOK

\* kubeadm init of a machine keeps the types, complete or not.
LEMMA KubeadmInitType ==
    ASSUME StoresTypeOK, NEW m \in Machine, NEW complete \in BOOLEAN, KubeadmInit(m, complete)
    PROVE  StoresTypeOK'
<1>1. PICK c \in ControlPlane :
        /\ host' = [host EXCEPT ![m] = [admin |-> TRUE, kubelet |-> TRUE, cp |-> c]]
        /\ node' = [node EXCEPT ![c][m] = IF complete THEN "ready" ELSE "none"]
        /\ etcd' = [etcd EXCEPT ![c] = IF complete THEN {m} ELSE {}]
        /\ UNCHANGED <<tfvars, infra, inventory, kubeconfig, tfstate, balancer>>
    BY DEF KubeadmInit
<1>2. [admin |-> TRUE, kubelet |-> TRUE, cp |-> c] \in HostStates
    BY DEF HostStates
<1>3. host' \in [Machine -> HostStates]
    BY <1>1, <1>2 DEF StoresTypeOK
<1>4. node' \in [ControlPlane -> [Machine -> NodeStates]]
    BY <1>1 DEF StoresTypeOK, NodeStates
<1>5. etcd' \in [ControlPlane -> SUBSET Machine]
    BY <1>1 DEF StoresTypeOK
<1> QED BY <1>1, <1>3, <1>4, <1>5 DEF StoresTypeOK

\* The joins of any machines, and one that stops half way, keep the types.
LEMMA KubeadmJoinType ==
    ASSUME StoresTypeOK, NEW c \in ControlPlane, NEW J \in SUBSET Machine,
           NEW Q, NEW K, NEW R, KubeadmJoin(c, J, Q, K, R)
    PROVE  StoresTypeOK'
<1>1. host' \in [Machine -> HostStates]
  <2>1. \A m \in Machine :
          [admin |-> NodeType[m] = "master", kubelet |-> m \in J \cup K, cp |-> c] \in HostStates
    <3>1. \A a, b \in BOOLEAN : [admin |-> a, kubelet |-> b, cp |-> c] \in HostStates
        BY Zenon DEF HostStates
    <3>2. \A m \in Machine : (NodeType[m] = "master") \in BOOLEAN /\ (m \in J \cup K) \in BOOLEAN
        OBVIOUS
    <3> QED BY <3>1, <3>2, Zenon
  <2>2. host' = [m \in Machine |->
                    IF m \in J \cup Q
                    THEN [admin |-> NodeType[m] = "master", kubelet |-> m \in J \cup K, cp |-> c]
                    ELSE host[m]]
      BY Zenon DEF KubeadmJoin
  <2>3. host \in [Machine -> HostStates]
      BY DEF StoresTypeOK
  <2> QED BY <2>1, <2>2, <2>3, Zenon
<1>2. node' \in [ControlPlane -> [Machine -> NodeStates]]
  <2>1. [m \in Machine |->
            IF m \in J \cup R /\ node[c][m] = "none" THEN "ready" ELSE node[c][m]]
          \in [Machine -> NodeStates]
      BY DEF StoresTypeOK, NodeStates
  <2> QED BY <2>1 DEF KubeadmJoin, StoresTypeOK
<1>3. etcd' \in [ControlPlane -> SUBSET Machine]
    BY DEF KubeadmJoin, StoresTypeOK, Masters
<1> QED BY <1>1, <1>2, <1>3 DEF KubeadmJoin, StoresTypeOK

\* The parts of TypeOK that most steps leave alone.
LEMMA OneStoreType ==
    ASSUME StoresTypeOK,
           UNCHANGED k8s, UNCHANGED tfstate,
           tfvars' \subseteq Machine, infra' \subseteq Machine,
           inventory' \subseteq Machine, balancer' \subseteq Machine
    PROVE  StoresTypeOK'
BY DEF StoresTypeOK, k8s

\* The first of a set of machines (masters[0]) is a machine whose files are well typed.
LEMMA MasterType ==
    ASSUME StoresTypeOK, NEW S \in SUBSET Machine, S # {}
    PROVE  /\ Min(S) \in Machine
           /\ host[Min(S)] \in HostStates
           /\ host[Min(S)].cp \in ControlPlane \cup {NoControlPlane}
<1>1. Min(S) \in Machine
    BY MinIsMember, MachineAssumption
<1>2. host[Min(S)] \in HostStates
    BY <1>1 DEF StoresTypeOK
<1> QED BY <1>1, <1>2 DEF HostStates

\* The parts of a memory, and what AddMachine and RemoveNode make of it, are well typed.
LEMMA RunTargetType ==
    ASSUME ControlTypeOK, NEW p \in Client
    PROVE  /\ run[p].machines \subseteq Machine
           /\ run[p].target \in Machine \cup {NoMachine}
           /\ run[p].created \in Machine \cup {NoMachine}
           /\ [run[p] EXCEPT !.machines = @ \ {run[p].target}] \in Runs
           /\ \A m \in Machine :
                  [run[p] EXCEPT !.created = m, !.machines = @ \cup {m}] \in Runs
<1>1. run[p] \in Runs
    BY DEF ControlTypeOK
<1> QED BY <1>1 DEF Runs

\* A command that starts has a well-typed memory and names its target.
LEMMA StartType ==
    ASSUME TypeOK, NEW p \in Client, Start(p)
    PROVE  TypeOK'
<1>1. PICK c \in Command \ {"edit"} : \E t \in Targets(c), s \in FirstStep(c) :
        /\ pc' = [pc EXCEPT ![p] = s]
        /\ run' = [run EXCEPT ![p] =
                       [command |-> c, phase |-> FirstPhase(c), target |-> t,
                        created |-> NoMachine, machines |-> tfvars]]
        /\ result' = [result EXCEPT ![p] = "none"]
        /\ started' = started + 1
        /\ UNCHANGED stores
    BY DEF Start
<1>2. c \in Commands \ {"edit"}
    BY CommandAssumption
<1>3. FirstStep(c) \subseteq Steps /\ FirstPhase(c) \in Phases
    BY <1>2 DEF Commands, FirstStep, Steps, FirstPhase, Phases
<1>4. Targets(c) \subseteq Machine \cup {NoMachine}
    BY DEF Targets
<1>5. \A t \in Targets(c) :
          [command |-> c, phase |-> FirstPhase(c), target |-> t,
           created |-> NoMachine, machines |-> tfvars] \in Runs
    BY <1>2, <1>3, <1>4 DEF TypeOK, StoresTypeOK, Runs
<1>6. started' \in 0..MaxCommands
    BY <1>1, MaxCommandsAssumption DEF TypeOK, Start
<1> QED BY <1>1, <1>3, <1>5, <1>6, StoresUnchangedType DEF TypeOK, Results

\* The steps from the workspace to the inventory keep TypeOK.
LEMMA InfrastructureChangesType ==
    ASSUME TypeOK, TargetNamed, NEW p \in Client,
           \/ WorkspaceApply(p) \/ PlanNoDiff(p) \/ AddMachine(p) \/ CloneMachine(p)
           \/ WriteTFVars(p) \/ TerraformApply(p) \/ WriteInfraJSON(p)
           \/ OpenInventory(p) \/ WriteInventory(p)
    PROVE  TypeOK'
<1> USE DEF Steps, Results
<1> ControlTypeOK /\ StoresTypeOK
    BY DEF TypeOK, ControlTypeOK
<1> SUFFICES ASSUME ~Fail(p), ~CommandFails(p)
             PROVE  ControlTypeOK' /\ StoresTypeOK'
    BY FailType DEF TypeOK, ControlTypeOK
<1>after. ASSUME AfterTerraformApply(p) PROVE ControlTypeOK'
    BY <1>after, GotoType, ReturnType DEF AfterTerraformApply
<1>1. CASE WorkspaceApply(p)
    BY <1>1, GotoType, StoresUnchangedType DEF WorkspaceApply
<1>2. CASE PlanNoDiff(p)
    BY <1>2, GotoType, StoresUnchangedType DEF PlanNoDiff
<1>3. CASE AddMachine(p)
  <2>1. Configured(p, run[p].target) /\ UNCHANGED stores
      BY <1>3 DEF AddMachine
  <2>2. run[p].target \in Machine
      BY <1>3 DEF AddMachine, TargetNamed
  <2> QED BY <2>1, <2>2, GotoWithType, RunTargetType, StoresUnchangedType DEF Configured
<1>4. CASE CloneMachine(p)
  <2>1. PICK m \in FreshNames(run[p].target) : Configured(p, m) /\ UNCHANGED stores
      BY <1>4 DEF CloneMachine
  <2>2. m \in Machine
      BY <2>1 DEF FreshNames
  <2> QED BY <2>1, <2>2, GotoWithType, RunTargetType, StoresUnchangedType DEF Configured
<1>5. CASE WriteTFVars(p)
    BY <1>5, GotoType, RunTargetType, OneStoreType DEF WriteTFVars, StoresTypeOK
<1>6. CASE TerraformApply(p)
  <2>1. CASE TerraformApplied /\ Goto(p, "writeInfra")
      BY <2>1, GotoType, ProvisionType DEF TerraformApplied, StoresTypeOK
  <2>2. CASE TerraformApplyFailed /\ Return(p, "error")
    <3>1. PICK S \in SUBSET (tfvars \cup tfstate) : Provision(S)
        BY <2>2 DEF TerraformApplyFailed
    <3>2. S \in SUBSET Machine
        BY DEF StoresTypeOK
    <3> QED BY <2>2, <3>1, <3>2, ReturnType, ProvisionType
  <2> QED BY <1>6, <2>1, <2>2 DEF TerraformApply
<1>7. CASE WriteInfraJSON(p)
    BY <1>7, GotoType, OneStoreType DEF WriteInfraJSON, StoresTypeOK
<1>8. CASE OpenInventory(p)
    BY <1>8, GotoType, OneStoreType DEF OpenInventory, StoresTypeOK
<1>9. CASE WriteInventory(p)
    BY <1>9, <1>after, OneStoreType DEF WriteInventory, StoresTypeOK
<1> QED BY <1>1, <1>2, <1>3, <1>4, <1>5, <1>6, <1>7, <1>8, <1>9

\* The steps from the wait for SSH to the encryption of the kubeconfig keep TypeOK.
LEMMA JoinStepsType ==
    ASSUME TypeOK, NEW p \in Client,
           \/ WaitForSSH(p) \/ Infrastructure(p) \/ PrepareNodes(p)
           \/ InitializeMaster(p) \/ FetchAdminConf(p) \/ JoinCluster(p)
           \/ EncryptKubeconfig(p)
    PROVE  TypeOK'
<1> USE DEF Steps, Results
<1> ControlTypeOK /\ StoresTypeOK
    BY DEF TypeOK, ControlTypeOK
<1> SUFFICES ASSUME ~Fail(p), ~CommandFails(p)
             PROVE  ControlTypeOK' /\ StoresTypeOK'
    BY FailType DEF TypeOK, ControlTypeOK
<1>after. ASSUME AfterJoinCluster(p) PROVE ControlTypeOK'
    BY <1>after, GotoType, JoinedType DEF AfterJoinCluster
<1>sets. /\ Masters(inventory) \subseteq Machine
         /\ ActiveMasters \subseteq Machine
         /\ JoiningNodes \subseteq Machine
    BY DEF StoresTypeOK, Masters, ActiveMasters, JoiningNodes, K8sNodes, Workers
<1>1. CASE WaitForSSH(p)
    BY <1>1, GotoType, StoresUnchangedType DEF WaitForSSH
<1>2. CASE Infrastructure(p)
  <2>1. UNCHANGED <<tfvars, infra, inventory, tfstate, k8s>>
      BY <1>2 DEF Infrastructure
  <2>2. balancer' \subseteq Machine
      BY <1>2 DEF Infrastructure, StoresTypeOK, K8sNodes, Masters, Workers
  <2>3. StoresTypeOK'
      BY <2>1, <2>2, OneStoreType DEF StoresTypeOK
  <2>4. \/ Goto(p, "prepareNodes") \/ Joined(p) \/ Return(p, "ok")
      BY <1>2 DEF Infrastructure
  <2> QED BY <2>3, <2>4, GotoType, JoinedType, ReturnType
<1>3. CASE PrepareNodes(p)
    BY <1>3, GotoType, StoresUnchangedType DEF PrepareNodes
<1>4. CASE InitializeMaster(p)
  <2> DEFINE first == Min(Masters(inventory))
  <2>1. CASE UNCHANGED stores
      BY <1>4, <2>1, GotoType, ReturnType, StoresUnchangedType DEF InitializeMaster
  <2>2. CASE ~UNCHANGED stores
    <3>1. PICK complete \in BOOLEAN : first \in tfstate /\ KubeadmInit(first, complete)
        BY <1>4, <2>2 DEF InitializeMaster
    <3>2. StoresTypeOK'
        BY <3>1, KubeadmInitType DEF StoresTypeOK
    <3>3. \/ Goto(p, "joinCluster") \/ Goto(p, "fetchKubeconfig") \/ Return(p, "error")
        BY <1>4 DEF InitializeMaster
    <3> QED BY <3>2, <3>3, GotoType, ReturnType
  <2> QED BY <2>1, <2>2
<1>5. CASE FetchAdminConf(p)
  <2> DEFINE first == Min(Masters(inventory))
  <2>1. /\ Masters(inventory) # {}
        /\ FetchKubeconfig(first)
        /\ Goto(p, "joinCluster")
      BY <1>5 DEF FetchAdminConf
  <2>2. host[first].cp \in ControlPlane \cup {NoControlPlane}
      BY <1>sets, <2>1, MasterType
  <2>3. StoresTypeOK'
      BY <2>1, <2>2 DEF FetchKubeconfig, StoresTypeOK, Kubeconfigs
  <2> QED BY <2>1, <2>3, GotoType
<1>6. CASE JoinCluster(p)
  <2> DEFINE cp == host[Min(ActiveMasters)].cp
  <2>1. CASE UNCHANGED stores /\ AfterJoinCluster(p)
      BY <2>1, <1>after, StoresUnchangedType
  <2>2. CASE /\ ActiveMasters # {} /\ Healthy(cp)
             /\ \/ KubeadmJoin(cp, JoiningNodes, {}, {}, {}) /\ AfterJoinCluster(p)
                \/ KubeadmJoinFailed(cp) /\ Return(p, "error")
    <3>1. cp \in ControlPlane
        BY <1>sets, <2>2, MasterType DEF Healthy
    <3>2. ASSUME KubeadmJoin(cp, JoiningNodes, {}, {}, {}) PROVE StoresTypeOK'
        BY <1>sets, <3>1, <3>2, KubeadmJoinType
    <3>3. ASSUME KubeadmJoinFailed(cp) PROVE StoresTypeOK'
      <4> HIDE DEF cp
      <4>1. PICK J \in SUBSET JoiningNodes : \E Q, K, R : KubeadmJoin(cp, J, Q, K, R)
          BY <3>3, Zenon DEF KubeadmJoinFailed
      <4>2. J \in SUBSET Machine
          BY <1>sets
      <4>3. PICK Q, K, R : KubeadmJoin(cp, J, Q, K, R)
          BY <4>1
      <4> QED BY <3>1, <4>2, <4>3, KubeadmJoinType
    <3> QED BY <2>2, <3>2, <3>3, <1>after, ReturnType
  <2> QED BY <1>6, <2>1, <2>2 DEF JoinCluster
<1>7. CASE EncryptKubeconfig(p)
  <2>1. kubeconfig' \in Kubeconfigs
      BY <1>7 DEF EncryptKubeconfig, StoresTypeOK, Kubeconfigs
  <2>2. UNCHANGED <<tfvars, infra, inventory, tfstate, balancer, host, node, etcd>>
      BY <1>7 DEF EncryptKubeconfig
  <2>3. StoresTypeOK'
      BY <2>1, <2>2 DEF StoresTypeOK
  <2> QED BY <1>7, <2>3, ReturnType DEF EncryptKubeconfig
<1> QED BY <1>1, <1>2, <1>3, <1>4, <1>5, <1>6, <1>7

\* The steps of remove, reset, drain and destroy keep TypeOK.
LEMMA RemoveStepsType ==
    ASSUME TypeOK, NEW p \in Client,
           \/ NodeExists(p) \/ DrainNode(p) \/ ResetMachine(p) \/ DeleteNode(p)
           \/ RemoveMachine(p) \/ KubernetesCleanup(p) \/ TerraformDestroy(p)
    PROVE  TypeOK'
<1> USE DEF Steps, Results, NodeStates
<1> ControlTypeOK /\ StoresTypeOK
    BY DEF TypeOK, ControlTypeOK
<1> SUFFICES ASSUME ~Fail(p), ~CommandFails(p)
             PROVE  ControlTypeOK' /\ StoresTypeOK'
    BY FailType DEF TypeOK, ControlTypeOK
<1>1. CASE NodeExists(p)
    BY <1>1, GotoType, StoresUnchangedType DEF NodeExists
<1>2. CASE DrainNode(p)
    BY <1>2, GotoType, ReturnType, SetNodeStateType DEF DrainNode, AfterDrain
<1>3. CASE ResetMachine(p)
    BY <1>3, GotoType, ReturnType, KubeadmResetType, StoresUnchangedType DEF ResetMachine
<1>4. CASE DeleteNode(p)
    BY <1>4, GotoType, ReturnType, SetNodeStateType DEF DeleteNode
<1>5. CASE RemoveMachine(p)
    BY <1>5, GotoWithType, RunTargetType, StoresUnchangedType DEF RemoveMachine
<1>6. CASE KubernetesCleanup(p)
    BY <1>6, GotoType, StoresUnchangedType DEF KubernetesCleanup
<1>7. CASE TerraformDestroy(p)
  <2>1. CASE TerraformDestroyed /\ Return(p, "ok")
      BY <2>1, ProvisionType, ReturnType DEF TerraformDestroyed
  <2>2. CASE TerraformDestroyFailed /\ Return(p, "error")
    <3>1. PICK S \in SUBSET tfstate : Provision(S)
        BY <2>2 DEF TerraformDestroyFailed
    <3>2. S \in SUBSET Machine
        BY DEF StoresTypeOK
    <3> QED BY <2>2, <3>1, <3>2, ProvisionType, ReturnType
  <2> QED BY <1>7, <2>1, <2>2 DEF TerraformDestroy
<1> QED BY <1>1, <1>2, <1>3, <1>4, <1>5, <1>6, <1>7

\* What a step of p may do to its program counter and its memory: it goes on,
\* perhaps with other machines or another phase, or its command ends.
Continues(p) ==
    \E s \in Steps \ {"idle"}, r \in Runs :
        /\ GotoWith(p, s, r)
        /\ r.command = run[p].command /\ r.target = run[p].target
        /\ r.phase = run[p].phase \/ (run[p].command = "replace" /\ r.phase = "remove")
        /\ pc[p] # "removeMachine" => run[p].machines \subseteq r.machines

Ends(p) == \E x \in Results : Return(p, x)

\* Every step is of one of those two shapes.
LEMMA StepShape ==
    ASSUME TypeOK, TargetNamed, NEW p \in Client, Step(p) \/ Kill(p)
    PROVE  Continues(p) \/ Ends(p)
<1> USE DEF Results
<1>1. pc \in [Client -> Steps] /\ run \in [Client -> Runs] /\ run[p] \in Runs
    BY DEF TypeOK
<1>2. ASSUME NEW s \in Steps \ {"idle"}, Goto(p, s) PROVE Continues(p)
  <2>1. GotoWith(p, s, run[p])
      BY <1>1, <1>2 DEF Goto, GotoWith
  <2> QED BY <1>1, <2>1 DEF Continues
<1>3. ASSUME NEW x \in Results, Return(p, x) PROVE Ends(p)
    BY <1>3 DEF Ends
<1>4. ASSUME Fail(p) \/ CommandFails(p) PROVE Ends(p)
    BY <1>4 DEF Fail, CommandFails, Ends
<1>5. ASSUME Joined(p) PROVE Continues(p) \/ Ends(p)
  <2>1. CASE GotoWith(p, "plan", [run[p] EXCEPT !.phase = "remove"])
    <3>0. CASE run[p].command # "replace"
        BY <1>3, <1>5, <3>0 DEF Joined
    <3>1. /\ [run[p] EXCEPT !.phase = "remove"] \in Runs
          /\ [run[p] EXCEPT !.phase = "remove"].command = run[p].command
          /\ [run[p] EXCEPT !.phase = "remove"].target = run[p].target
          /\ [run[p] EXCEPT !.phase = "remove"].phase = "remove"
          /\ [run[p] EXCEPT !.phase = "remove"].machines = run[p].machines
        BY <1>1 DEF Runs, Phases
    <3> QED BY <2>1, <3>0, <3>1 DEF Continues, Steps
  <2> QED BY <1>3, <1>5, <2>1 DEF Joined
<1>6. ASSUME NEW m \in Machine, Configured(p, m) PROVE Continues(p)
  <2> DEFINE r == [run[p] EXCEPT !.created = m, !.machines = @ \cup {m}]
  <2>1. /\ r \in Runs /\ r.command = run[p].command
        /\ r.target = run[p].target /\ r.phase = run[p].phase
        /\ run[p].machines \subseteq r.machines
      BY <1>1 DEF Runs
  <2>2. GotoWith(p, "writeTFVars", r)
      BY <1>6 DEF Configured
  <2> HIDE DEF r
  <2> QED BY <2>1, <2>2 DEF Continues, Steps
<1>7. ASSUME RemoveMachine(p) PROVE Continues(p)
  <2> DEFINE r == [run[p] EXCEPT !.machines = @ \ {run[p].target}]
  <2>1. /\ r \in Runs /\ r.command = run[p].command
        /\ r.target = run[p].target /\ r.phase = run[p].phase
      BY <1>1 DEF Runs
  <2>2. GotoWith(p, "writeTFVars", r) /\ pc[p] = "removeMachine"
      BY <1>7 DEF RemoveMachine, At
  <2> HIDE DEF r
  <2> QED BY <2>1, <2>2 DEF Continues, Steps
<1> SUFFICES ASSUME ~Ends(p), ~Continues(p) PROVE FALSE
    OBVIOUS
<1> USE <1>2, <1>3, <1>4 DEF Steps
<1>8. ~AfterTerraformApply(p) /\ ~AfterJoinCluster(p)
    BY <1>5 DEF AfterTerraformApply, AfterJoinCluster
<1>9. ~WorkspaceApply(p) /\ ~PlanNoDiff(p)
    BY DEF WorkspaceApply, PlanNoDiff
<1>10. ~AddMachine(p)
    BY <1>6 DEF AddMachine, TargetNamed
<1>11. ~CloneMachine(p)
    BY <1>6 DEF CloneMachine, FreshNames
<1>12. ~WriteTFVars(p) /\ ~TerraformApply(p) /\ ~WriteInfraJSON(p)
    BY DEF WriteTFVars, TerraformApply, WriteInfraJSON
<1>13. ~OpenInventory(p) /\ ~WriteInventory(p)
    BY <1>8 DEF OpenInventory, WriteInventory
<1>14. ~WaitForSSH(p) /\ ~Infrastructure(p) /\ ~PrepareNodes(p)
    BY <1>5 DEF WaitForSSH, Infrastructure, PrepareNodes
<1>15. ~InitializeMaster(p) /\ ~FetchAdminConf(p)
    BY DEF InitializeMaster, FetchAdminConf
<1>16. ~JoinCluster(p) /\ ~EncryptKubeconfig(p)
    BY <1>8 DEF JoinCluster, EncryptKubeconfig
<1>17. ~NodeExists(p) /\ ~DrainNode(p) /\ ~ResetMachine(p) /\ ~DeleteNode(p)
    BY DEF NodeExists, DrainNode, AfterDrain, ResetMachine, DeleteNode
<1>18. ~KubernetesCleanup(p) /\ ~TerraformDestroy(p) /\ ~Kill(p)
    BY DEF KubernetesCleanup, TerraformDestroy, Kill
<1> QED
    BY <1>7, <1>9, <1>10, <1>11, <1>12, <1>13, <1>14, <1>15, <1>16, <1>17, <1>18
    DEF Step

\* Init and every step keep types and named targets.
LEMMA InitType == Init => TypeOK /\ TargetNamed
<1> SUFFICES ASSUME Init PROVE TypeOK /\ TargetNamed
    OBVIOUS
<1>1. StoresTypeOK
    BY CleanHostType, InitialMachinesAssumption
    DEF Init, StoresTypeOK, Kubeconfigs, NodeStates
<1>2. ControlTypeOK
    BY NoRunType, MaxCommandsAssumption DEF Init, ControlTypeOK, Steps, Results
<1>3. TargetNamed
    BY DEF Init, TargetNamed, NoRun
<1> QED BY <1>1, <1>2, <1>3 DEF TypeOK, ControlTypeOK

\* What the memory of a client holds right after its start.
LEMMA StartRun ==
    ASSUME TypeOK, NEW p \in Client, Start(p)
    PROVE  \E c \in Commands \ {"edit"} : \E t \in Targets(c), s \in FirstStep(c) :
               /\ pc' = [pc EXCEPT ![p] = s]
               /\ run' = [run EXCEPT ![p] =
                              [command |-> c, phase |-> FirstPhase(c), target |-> t,
                               created |-> NoMachine, machines |-> tfvars]]
               /\ UNCHANGED stores
BY CommandAssumption DEF Start

\* TypeOK with named targets is inductive.
LEMMA NextType == TypeOK /\ TargetNamed /\ [Next]_vars => TypeOK' /\ TargetNamed'
<1> SUFFICES ASSUME TypeOK, TargetNamed, [Next]_vars
             PROVE  TypeOK' /\ TargetNamed'
    OBVIOUS
<1>1. CASE EditTFVars
  <2>1. tfvars' \subseteq Machine /\ started' = started
      BY <1>1 DEF EditTFVars
  <2>2. UNCHANGED <<infra, inventory, tfstate, balancer, kubeconfig, host, node, etcd,
                    pc, run, result>>
      BY <1>1 DEF EditTFVars
  <2>3. StoresTypeOK'
      BY <2>1, <2>2 DEF TypeOK, StoresTypeOK
  <2> QED BY <2>1, <2>2, <2>3 DEF TypeOK, TargetNamed
<1>2. ASSUME NEW p \in Client, Start(p) PROVE TypeOK' /\ TargetNamed'
  <2>1. PICK c \in Commands \ {"edit"} : \E t \in Targets(c) :
               run' = [run EXCEPT ![p] =
                           [command |-> c, phase |-> FirstPhase(c), target |-> t,
                            created |-> NoMachine, machines |-> tfvars]]
      BY <1>2, StartRun
  <2>2. PICK t \in Targets(c) :
               run' = [run EXCEPT ![p] =
                           [command |-> c, phase |-> FirstPhase(c), target |-> t,
                            created |-> NoMachine, machines |-> tfvars]]
      BY <2>1
  <2>3. run'[p].command = c /\ run'[p].target = t
      BY <2>2 DEF TypeOK
  <2>4. TargetNamed'
      BY <2>2, <2>3 DEF TargetNamed, Targets, TypeOK
  <2> QED BY <1>2, <2>4, StartType
<1>3. ASSUME NEW p \in Client, Step(p) \/ Kill(p) PROVE TypeOK' /\ TargetNamed'
  <2>1. TypeOK'
    <3>1. CASE Kill(p)
        BY <3>1, ReturnType, StoresUnchangedType DEF Kill, TypeOK, ControlTypeOK, Results
    <3> QED BY <1>3, <3>1, InfrastructureChangesType, JoinStepsType, RemoveStepsType DEF Step
  <2>2. CASE Continues(p)
      BY <2>1, <2>2 DEF Continues, GotoWith, TargetNamed, TypeOK
  <2>3. CASE Ends(p)
    <3>1. run' = [run EXCEPT ![p] = NoRun]
        BY <2>3 DEF Ends, Return
    <3>2. NoRun.command = "none"
        BY DEF NoRun
    <3> QED BY <2>1, <3>1, <3>2 DEF TargetNamed, TypeOK
  <2> QED BY <1>3, <2>1, <2>2, <2>3, StepShape
<1>4. CASE UNCHANGED vars
    BY <1>4, StoresUnchangedType DEF vars, TypeOK, ControlTypeOK, TargetNamed
<1> QED BY <1>1, <1>2, <1>3, <1>4 DEF Next, Finished

\* The stores, the program counters and the memories always have the values the
\* code can give them, whatever the machines, the provider and the faults.
THEOREM TypeCorrect == Spec => []TypeOK
<1>1. Spec => [](TypeOK /\ TargetNamed)
    BY InitType, NextType, PTL DEF Spec
<1> QED BY <1>1, PTL

-----------------------------------------------------------------------------
(* The machines that AddMachine, CloneMachine and RemoveNode let Terraform     *)
(* change, when operators run one command at a time and the cluster is so small *)
(* that "0 to add" cannot be the end of a larger number.                       *)

FewResources == MachineResources * Cardinality(Machine) < 10

OneCommand == \A p, q \in Client : pc[p] # "idle" /\ pc[q] # "idle" => p = q

IdleHoldsNothing == \A p \in Client : pc[p] = "idle" => run[p] = NoRun

\* The steps that only one of the two methods, or both of them, go through.
MethodSteps(p) ==
    /\ pc[p] = "workspace" => run[p].phase = "apply"
    /\ pc[p] = "plan" => run[p].phase \in {"join", "remove"}
    /\ pc[p] = "configure" => run[p].phase = "join"
    /\ pc[p] \in {"nodeExists", "removeMachine"} => run[p].phase = "remove"
    /\ pc[p] \in {"waitForSSH", "prepareNodes", "initializeMaster", "fetchKubeconfig",
                  "joinCluster"} => run[p].phase \in {"apply", "join"}
    /\ pc[p] \in {"writeTFVars", "terraformApply"} =>
         run[p].phase \in {"apply", "join", "remove", "terraform"}
    /\ pc[p] = "drain" => run[p].phase \in {"remove", "drain"}
    /\ pc[p] \in {"reset", "deleteNode"} => run[p].phase \in {"remove", "reset"}
    /\ pc[p] \in {"cleanup", "terraformDestroy"} => run[p].phase = "destroy"
    /\ pc[p] = "encryptKubeconfig" => run[p].phase = "apply"

\* The machines that are to exist when terraform apply has run.
Wanted(p) ==
    IF run[p].phase = "remove" THEN tfstate \ {run[p].target} ELSE tfstate \cup {run[p].created}

\* From the plan to the write of tfvars.json nothing is pending and the snapshot is
\* up to date; from there to terraform apply, the one change is.
OneChange(p) ==
    run[p].phase \in {"join", "remove"} =>
        /\ pc[p] # "writeTFVars" => run[p].machines = tfvars
        /\ pc[p] \in {"configure", "nodeExists", "drain", "reset", "deleteNode",
                      "removeMachine", "writeTFVars"} => tfvars = tfstate
        /\ pc[p] \in {"writeTFVars", "terraformApply"} => run[p].machines = Wanted(p)

\* The inventory is rendered before the first playbook, and stays as it is.
Rendered(p) ==
    pc[p] \in {"waitForSSH", "infrastructure", "prepareNodes", "initializeMaster",
               "fetchKubeconfig", "joinCluster"} => inventory = tfstate

Ordered(p) == MethodSteps(p) /\ (FewResources => OneChange(p)) /\ Rendered(p)

ChangeInv ==
    /\ TypeOK /\ TargetNamed
    /\ OneCommand /\ IdleHoldsNothing
    /\ \A p \in Client : Ordered(p)

\* Goto p moves p's program counter and nothing of its memory.
LEMMA GotoEffect ==
    ASSUME TypeOK, NEW p \in Client, NEW s, Goto(p, s)
    PROVE  pc'[p] = s /\ run'[p] = run[p]
BY DEF TypeOK, Goto

\* GotoWith p gives p the new memory.
LEMMA GotoWithEffect ==
    ASSUME TypeOK, NEW p \in Client, NEW s, NEW r, GotoWith(p, s, r)
    PROVE  pc'[p] = s /\ run'[p] = r
BY DEF TypeOK, GotoWith

\* A command that returned meets every ordering condition.
LEMMA ReturnEffect ==
    ASSUME TypeOK, NEW p \in Client, NEW x, Return(p, x)
    PROVE  pc'[p] = "idle" /\ run'[p] = NoRun /\ Ordered(p)'
<1>1. pc'[p] = "idle" /\ run'[p] = NoRun
    BY DEF TypeOK, Return
<1> QED BY <1>1 DEF Ordered, MethodSteps, OneChange, Rendered, NoRun

\* An idle client does.
LEMMA IdleIsOrdered ==
    ASSUME NEW p \in Client, pc'[p] = "idle", run'[p] = NoRun
    PROVE  Ordered(p)'
BY DEF Ordered, MethodSteps, OneChange, Rendered, NoRun

\* In a small cluster a plan without a difference is one without a change.
LEMMA NoDiffMeansEqual ==
    ASSUME FewResources, StoresTypeOK, NoDiffFound
    PROVE  tfvars = tfstate
<1> DEFINE add == Cardinality(tfvars \ tfstate)
           destroy == Cardinality(tfstate \ tfvars)
<1>1. /\ IsFiniteSet(tfvars \ tfstate) /\ add \in Nat /\ add <= Cardinality(Machine)
      /\ IsFiniteSet(tfstate \ tfvars) /\ destroy \in Nat
      /\ Cardinality(Machine) \in Nat
  <2>1. tfvars \ tfstate \in SUBSET Machine /\ tfstate \ tfvars \in SUBSET Machine
      BY DEF StoresTypeOK
  <2> QED BY <2>1, MachineAssumption, FS_Subset, FS_CardinalityType
<1>2. (MachineResources * add) % 10 = 0 /\ MachineResources * destroy = 0
    BY DEF NoDiffFound, ToAdd, ToDestroy
<1> HIDE DEF add, destroy
<1>3. MachineResources * add \in Nat /\ MachineResources * add < 10
  <2>1. \A r, a, c \in Nat : a <= c => r * a <= r * c /\ r * a \in Nat /\ r * c \in Nat
      OBVIOUS
  <2> QED BY <1>1, <2>1, MachineResourcesAssumption DEF FewResources
<1>4. MachineResources * add = 0
    BY <1>2, <1>3
<1>5. add = 0 /\ destroy = 0
    BY <1>1, <1>2, <1>4, MachineResourcesAssumption
<1>6. tfvars \ tfstate = {} /\ tfstate \ tfvars = {}
    BY <1>1, <1>5, FS_EmptySet DEF add, destroy
<1> QED BY <1>6

\* The steps from the workspace to the inventory keep p's change to one machine and
\* render the inventory before they leave for the playbooks.
LEMMA InfrastructureChangesOrdered ==
    ASSUME ChangeInv, NEW p \in Client,
           \/ WorkspaceApply(p) \/ PlanNoDiff(p) \/ AddMachine(p) \/ CloneMachine(p)
           \/ WriteTFVars(p) \/ TerraformApply(p) \/ WriteInfraJSON(p)
           \/ OpenInventory(p) \/ WriteInventory(p)
    PROVE  Ordered(p)'
<1> USE DEF At, stores
<1> TypeOK /\ StoresTypeOK /\ Ordered(p) /\ run[p] \in Runs
    BY DEF ChangeInv, TypeOK
<1> SUFFICES ASSUME ~Fail(p), ~CommandFails(p), \A x : ~Return(p, x)
             PROVE  Ordered(p)'
    BY ReturnEffect DEF Fail, CommandFails
<1>after. ASSUME AfterTerraformApply(p)
          PROVE  \/ pc'[p] = "waitForSSH" /\ run'[p] = run[p] /\ run[p].phase \in {"apply", "join"}
                 \/ pc'[p] = "infrastructure" /\ run'[p] = run[p]
    BY <1>after, GotoEffect DEF AfterTerraformApply
<1>configured. ASSUME At(p, "configure"), NEW m \in Machine, Configured(p, m), UNCHANGED stores
               PROVE  Ordered(p)'
  <2>1. /\ pc'[p] = "writeTFVars"
        /\ run'[p] = [run[p] EXCEPT !.created = m, !.machines = @ \cup {m}]
      BY <1>configured, GotoWithEffect DEF Configured
  <2>2. /\ run'[p].phase = run[p].phase
        /\ run'[p].created = m
        /\ run'[p].machines = run[p].machines \cup {m}
      BY <2>1 DEF Runs
  <2>3. /\ run[p].phase = "join"
        /\ FewResources => run[p].machines = tfvars /\ tfvars = tfstate
      BY <1>configured DEF Ordered, MethodSteps, OneChange
  <2> QED BY <1>configured, <2>1, <2>2, <2>3
      DEF Ordered, MethodSteps, OneChange, Rendered, Wanted
<1>1. CASE WorkspaceApply(p)
    BY <1>1, GotoEffect DEF WorkspaceApply, Ordered, MethodSteps, OneChange, Rendered
<1>2. CASE PlanNoDiff(p)
    BY <1>2, GotoEffect, NoDiffMeansEqual
    DEF PlanNoDiff, Ordered, MethodSteps, OneChange, Rendered
<1>3. CASE AddMachine(p)
  <2>1. run[p].target \in Machine
      BY <1>3 DEF AddMachine, ChangeInv, TargetNamed
  <2> QED BY <1>3, <1>configured, <2>1 DEF AddMachine
<1>4. CASE CloneMachine(p)
    BY <1>4, <1>configured DEF CloneMachine, FreshNames
<1>5. CASE WriteTFVars(p)
    BY <1>5, GotoEffect DEF WriteTFVars, Ordered, MethodSteps, OneChange, Rendered, Wanted
<1>6. CASE TerraformApply(p)
    BY <1>6, GotoEffect
    DEF TerraformApply, TerraformApplied, Provision, Ordered, MethodSteps, OneChange, Rendered
<1>7. CASE WriteInfraJSON(p)
    BY <1>7, GotoEffect DEF WriteInfraJSON, Ordered, MethodSteps, OneChange, Rendered
<1>8. CASE OpenInventory(p)
    BY <1>8, GotoEffect DEF OpenInventory, Ordered, MethodSteps, OneChange, Rendered
<1>9. CASE WriteInventory(p)
    BY <1>9, <1>after DEF WriteInventory, Ordered, MethodSteps, OneChange, Rendered
<1> QED BY <1>1, <1>2, <1>3, <1>4, <1>5, <1>6, <1>7, <1>8, <1>9

\* The playbooks leave tfvars.json, the state and the inventory as they are, and
\* replace starts its remove with a snapshot that is up to date.
LEMMA JoinStepsOrdered ==
    ASSUME ChangeInv, NEW p \in Client,
           \/ WaitForSSH(p) \/ Infrastructure(p) \/ PrepareNodes(p)
           \/ InitializeMaster(p) \/ FetchAdminConf(p) \/ JoinCluster(p)
           \/ EncryptKubeconfig(p)
    PROVE  Ordered(p)'
<1> USE DEF At, stores, k8s
<1> TypeOK /\ Ordered(p) /\ run[p] \in Runs
    BY DEF ChangeInv, TypeOK
<1> SUFFICES ASSUME ~Fail(p), ~CommandFails(p), \A x : ~Return(p, x)
             PROVE  Ordered(p)'
    BY ReturnEffect DEF Fail, CommandFails
<1>joined. ASSUME run[p].phase = "join", pc[p] # "writeTFVars", UNCHANGED tfvars, Joined(p)
           PROVE  Ordered(p)'
  <2>1. GotoWith(p, "plan", [run[p] EXCEPT !.phase = "remove"])
      BY <1>joined DEF Joined
  <2>2. /\ pc'[p] = "plan"
        /\ run'[p].phase = "remove"
        /\ run'[p].machines = run[p].machines
      BY <2>1, GotoWithEffect DEF Runs
  <2> QED BY <1>joined, <2>2 DEF Ordered, MethodSteps, OneChange, Rendered
<1>1. CASE WaitForSSH(p)
    BY <1>1, GotoEffect DEF WaitForSSH, Ordered, MethodSteps, OneChange, Rendered
<1>2. CASE Infrastructure(p)
  <2>1. CASE run[p].phase = "apply" /\ Goto(p, "prepareNodes")
      BY <1>2, <2>1, GotoEffect DEF Infrastructure, Ordered, MethodSteps, OneChange, Rendered
  <2> QED BY <1>2, <2>1, <1>joined DEF Infrastructure
<1>3. CASE PrepareNodes(p)
    BY <1>3, GotoEffect DEF PrepareNodes, Ordered, MethodSteps, OneChange, Rendered
<1>4. CASE InitializeMaster(p)
  <2>1. UNCHANGED <<tfvars, tfstate, inventory>> /\ pc[p] = "initializeMaster"
      BY <1>4 DEF InitializeMaster, KubeadmInit
  <2>2. Goto(p, "joinCluster") \/ Goto(p, "fetchKubeconfig")
      BY <1>4 DEF InitializeMaster
  <2> QED BY <2>1, <2>2, GotoEffect DEF Ordered, MethodSteps, OneChange, Rendered
<1>5. CASE FetchAdminConf(p)
  <2>1. UNCHANGED <<tfvars, tfstate, inventory>> /\ pc[p] = "fetchKubeconfig"
      BY <1>5 DEF FetchAdminConf, FetchKubeconfig
  <2>2. Goto(p, "joinCluster")
      BY <1>5 DEF FetchAdminConf
  <2> QED BY <2>1, <2>2, GotoEffect DEF Ordered, MethodSteps, OneChange, Rendered
<1>6. CASE JoinCluster(p)
  <2>1. UNCHANGED <<tfvars, tfstate, inventory>> /\ pc[p] = "joinCluster"
      BY <1>6 DEF JoinCluster, KubeadmJoin
  <2>2. AfterJoinCluster(p)
      BY <1>6 DEF JoinCluster
  <2>3. run[p].phase \in {"apply", "join"}
      BY <2>1 DEF Ordered, MethodSteps
  <2>4. CASE Joined(p)
      BY <2>1, <2>2, <2>3, <2>4, <1>joined, GotoEffect
      DEF AfterJoinCluster, Ordered, MethodSteps, OneChange, Rendered
  <2>5. CASE \/ run[p].phase = "apply" /\ Goto(p, "encryptKubeconfig")
             \/ Goto(p, "infrastructure")
      BY <2>1, <2>5, GotoEffect DEF Ordered, MethodSteps, OneChange, Rendered
  <2> QED BY <2>2, <2>4, <2>5 DEF AfterJoinCluster
<1>7. CASE EncryptKubeconfig(p)
    BY <1>7 DEF EncryptKubeconfig
<1> QED BY <1>1, <1>2, <1>3, <1>4, <1>5, <1>6, <1>7

\* The steps before removeMachine leave tfvars.json alone, and removeMachine takes
\* exactly the target out of the snapshot.
LEMMA RemoveStepsOrdered ==
    ASSUME ChangeInv, NEW p \in Client,
           \/ NodeExists(p) \/ DrainNode(p) \/ ResetMachine(p) \/ DeleteNode(p)
           \/ RemoveMachine(p) \/ KubernetesCleanup(p) \/ TerraformDestroy(p)
    PROVE  Ordered(p)'
<1> USE DEF At, stores
<1> TypeOK /\ Ordered(p) /\ run[p] \in Runs
    BY DEF ChangeInv, TypeOK
<1> SUFFICES ASSUME ~Fail(p), ~CommandFails(p), \A x : ~Return(p, x)
             PROVE  Ordered(p)'
    BY ReturnEffect DEF Fail, CommandFails
<1>1. CASE NodeExists(p)
    BY <1>1, GotoEffect DEF NodeExists, Ordered, MethodSteps, OneChange, Rendered
<1>2. CASE DrainNode(p)
    BY <1>2, GotoEffect
    DEF DrainNode, AfterDrain, SetNodeState, Ordered, MethodSteps, OneChange, Rendered
<1>3. CASE ResetMachine(p)
    BY <1>3, GotoEffect
    DEF ResetMachine, KubeadmReset, Ordered, MethodSteps, OneChange, Rendered
<1>4. CASE DeleteNode(p)
    BY <1>4, GotoEffect
    DEF DeleteNode, SetNodeState, Ordered, MethodSteps, OneChange, Rendered
<1>5. CASE RemoveMachine(p)
  <2>1. /\ pc'[p] = "writeTFVars"
        /\ run'[p] = [run[p] EXCEPT !.machines = @ \ {run[p].target}]
        /\ UNCHANGED stores
      BY <1>5, GotoWithEffect DEF RemoveMachine
  <2>2. /\ run'[p].phase = run[p].phase
        /\ run'[p].target = run[p].target
        /\ run'[p].machines = run[p].machines \ {run[p].target}
      BY <2>1 DEF Runs
  <2>3. /\ run[p].phase = "remove"
        /\ FewResources => run[p].machines = tfvars /\ tfvars = tfstate
      BY <1>5 DEF RemoveMachine, Ordered, MethodSteps, OneChange
  <2> QED BY <2>1, <2>2, <2>3 DEF Ordered, MethodSteps, OneChange, Rendered, Wanted
<1>6. CASE KubernetesCleanup(p)
    BY <1>6, GotoEffect DEF KubernetesCleanup, Ordered, MethodSteps, OneChange, Rendered
<1>7. CASE TerraformDestroy(p)
    BY <1>7 DEF TerraformDestroy
<1> QED BY <1>1, <1>2, <1>3, <1>4, <1>5, <1>6, <1>7

\* A command that starts has an up-to-date snapshot and has passed no step yet.
LEMMA StartOrdered ==
    ASSUME ChangeInv, NEW p \in Client, Start(p)
    PROVE  Ordered(p)'
<1>1. PICK c \in Commands \ {"edit"} : \E t \in Targets(c), s \in FirstStep(c) :
        /\ pc' = [pc EXCEPT ![p] = s]
        /\ run' = [run EXCEPT ![p] =
                       [command |-> c, phase |-> FirstPhase(c), target |-> t,
                        created |-> NoMachine, machines |-> tfvars]]
        /\ UNCHANGED stores
    BY StartRun DEF ChangeInv
<1>2. /\ pc'[p] \in FirstStep(c)
      /\ run'[p].phase = FirstPhase(c)
      /\ run'[p].machines = tfvars
      /\ UNCHANGED stores
    BY <1>1 DEF ChangeInv, TypeOK
<1>3. /\ c = "apply" => pc'[p] = "workspace" /\ run'[p].phase = "apply"
      /\ c \in {"add", "clone", "replace"} => pc'[p] = "plan" /\ run'[p].phase = "join"
      /\ c = "remove" => pc'[p] = "plan" /\ run'[p].phase = "remove"
      /\ c = "reset" => pc'[p] = "reset" /\ run'[p].phase = "reset"
      /\ c = "drain" => pc'[p] = "drain" /\ run'[p].phase = "drain"
      /\ c = "terraform apply" => pc'[p] = "writeTFVars" /\ run'[p].phase = "terraform"
      /\ c = "destroy" => /\ pc'[p] \in {"cleanup", "terraformDestroy"}
                          /\ run'[p].phase = "destroy"
    BY <1>2 DEF FirstStep, FirstPhase
<1> QED BY <1>1, <1>2, <1>3
    DEF Commands, stores, Ordered, MethodSteps, OneChange, Rendered

\* A step of p does not touch what other clients hold.
LEMMA StepIsLocal ==
    ASSUME TypeOK, TargetNamed, NEW p \in Client, Step(p) \/ Kill(p)
    PROVE  \A q \in Client \ {p} : pc'[q] = pc[q] /\ run'[q] = run[q]
BY StepShape DEF Continues, Ends, GotoWith, Return, TypeOK

\* Only a client at work takes steps.
LEMMA StepIsActive ==
    ASSUME NEW p \in Client, Step(p) \/ Kill(p)
    PROVE  pc[p] # "idle"
<1>1. CASE \/ WorkspaceApply(p) \/ PlanNoDiff(p) \/ AddMachine(p) \/ CloneMachine(p)
           \/ WriteTFVars(p) \/ TerraformApply(p) \/ WriteInfraJSON(p)
           \/ OpenInventory(p) \/ WriteInventory(p)
    BY <1>1 DEF At, WorkspaceApply, PlanNoDiff, AddMachine, CloneMachine, WriteTFVars,
                TerraformApply, WriteInfraJSON, OpenInventory, WriteInventory
<1>2. CASE \/ WaitForSSH(p) \/ Infrastructure(p) \/ PrepareNodes(p)
           \/ InitializeMaster(p) \/ FetchAdminConf(p) \/ JoinCluster(p)
           \/ EncryptKubeconfig(p)
    BY <1>2 DEF At, WaitForSSH, Infrastructure, PrepareNodes, InitializeMaster,
                FetchAdminConf, JoinCluster, EncryptKubeconfig
<1>3. CASE \/ NodeExists(p) \/ DrainNode(p) \/ ResetMachine(p) \/ DeleteNode(p)
           \/ RemoveMachine(p) \/ KubernetesCleanup(p) \/ TerraformDestroy(p)
    BY <1>3 DEF At, NodeExists, DrainNode, ResetMachine, DeleteNode, RemoveMachine,
                KubernetesCleanup, TerraformDestroy
<1>4. CASE Kill(p)
    BY <1>4 DEF Kill, At
<1> QED BY <1>1, <1>2, <1>3, <1>4 DEF Step

\* The invariant holds when nothing has been done yet.
LEMMA ChangeInit == Init => ChangeInv
<1> SUFFICES ASSUME Init PROVE ChangeInv
    OBVIOUS
<1>1. \A p \in Client : pc[p] = "idle" /\ run[p] = NoRun
    BY DEF Init
<1> QED BY <1>1, InitType
    DEF ChangeInv, OneCommand, IdleHoldsNothing, Ordered, MethodSteps, OneChange, Rendered, NoRun

\* With one command at a time every step keeps the invariant.
LEMMA ChangeNext ==
    ASSUME Exclusive
    PROVE  ChangeInv /\ [Next]_vars => ChangeInv'
<1> SUFFICES ASSUME ChangeInv, [Next]_vars PROVE ChangeInv'
    OBVIOUS
<1> TypeOK /\ TargetNamed /\ TypeOK' /\ TargetNamed'
    BY NextType DEF ChangeInv
<1>1. CASE EditTFVars
  <2>1. \A p \in Client : pc'[p] = "idle" /\ pc[p] = "idle" /\ run'[p] = run[p]
      BY <1>1 DEF EditTFVars, AllIdle
  <2> QED BY <2>1, IdleIsOrdered DEF ChangeInv, OneCommand, IdleHoldsNothing
<1>2. ASSUME NEW p \in Client, Start(p) PROVE ChangeInv'
  <2>1. \A q \in Client : pc[q] = "idle"
      BY <1>2 DEF Start, AllIdle
  <2>2. \A q \in Client \ {p} : pc'[q] = "idle" /\ run'[q] = run[q]
      BY <1>2, <2>1 DEF Start, TypeOK
  <2>3. pc'[p] # "idle"
    <3>1. PICK c \in Commands \ {"edit"} : \E s \in FirstStep(c) : pc' = [pc EXCEPT ![p] = s]
        BY <1>2, StartRun
    <3>2. "idle" \notin FirstStep(c)
        BY DEF Commands, FirstStep
    <3> QED BY <3>1, <3>2 DEF TypeOK
  <2>4. Ordered(p)'
      BY <1>2, StartOrdered
  <2> QED BY <2>1, <2>2, <2>3, <2>4, IdleIsOrdered DEF ChangeInv, OneCommand, IdleHoldsNothing
<1>3. ASSUME NEW p \in Client, Step(p) \/ Kill(p) PROVE ChangeInv'
  <2>1. \A q \in Client \ {p} : pc'[q] = pc[q] /\ run'[q] = run[q]
      BY <1>3, StepIsLocal
  <2>2. \A q \in Client \ {p} : pc[q] = "idle" /\ run[q] = NoRun
      BY <1>3, StepIsActive DEF ChangeInv, OneCommand, IdleHoldsNothing
  <2>3. Ordered(p)' /\ (pc'[p] = "idle" => run'[p] = NoRun)
    <3>1. CASE Ends(p)
        BY <3>1, ReturnEffect DEF Ends
    <3>2. CASE Continues(p) /\ Step(p)
      <4>1. pc'[p] # "idle"
          BY <3>2, GotoWithEffect DEF Continues
      <4>2. Ordered(p)'
          BY <3>2, InfrastructureChangesOrdered, JoinStepsOrdered, RemoveStepsOrdered DEF Step
      <4> QED BY <4>1, <4>2
    <3>3. CASE Kill(p)
        BY <3>3, ReturnEffect DEF Kill
    <3> QED BY <1>3, <3>1, <3>2, <3>3, StepShape
  <2> QED BY <2>1, <2>2, <2>3, IdleIsOrdered DEF ChangeInv, OneCommand, IdleHoldsNothing
<1>4. CASE UNCHANGED vars
    BY <1>4 DEF vars, stores, ChangeInv, OneCommand, IdleHoldsNothing, Ordered, MethodSteps,
                OneChange, Wanted, Rendered
<1> QED BY <1>1, <1>2, <1>3, <1>4 DEF Next, Finished

\* The step of a client at terraform apply is terraform apply, or a kill.
LEMMA AtTerraformApply ==
    ASSUME NEW p \in Client, pc[p] = "terraformApply", Step(p)
    PROVE  TerraformApply(p)
<1>1. ~(\/ WorkspaceApply(p) \/ PlanNoDiff(p) \/ AddMachine(p) \/ CloneMachine(p)
        \/ WriteTFVars(p) \/ WriteInfraJSON(p) \/ OpenInventory(p) \/ WriteInventory(p))
    BY DEF At, WorkspaceApply, PlanNoDiff, AddMachine, CloneMachine, WriteTFVars,
           WriteInfraJSON, OpenInventory, WriteInventory
<1>2. ~(\/ WaitForSSH(p) \/ Infrastructure(p) \/ PrepareNodes(p)
        \/ InitializeMaster(p) \/ FetchAdminConf(p) \/ JoinCluster(p)
        \/ EncryptKubeconfig(p))
    BY DEF At, WaitForSSH, Infrastructure, PrepareNodes, InitializeMaster,
           FetchAdminConf, JoinCluster, EncryptKubeconfig
<1>3. ~(\/ NodeExists(p) \/ DrainNode(p) \/ ResetMachine(p) \/ DeleteNode(p)
        \/ RemoveMachine(p) \/ KubernetesCleanup(p) \/ TerraformDestroy(p))
    BY DEF At, NodeExists, DrainNode, ResetMachine, DeleteNode, RemoveMachine,
           KubernetesCleanup, TerraformDestroy
<1> QED BY <1>1, <1>2, <1>3 DEF Step

\* Whatever terraform apply does, it does to the one machine of the command.
LEMMA ApplyTouchesOnlyItsMachine ==
    ASSUME Exclusive, FewResources, ChangeInv, [Next]_vars, NEW p \in Client,
           pc[p] = "terraformApply", run[p].phase \in {"join", "remove"}, Moves(p)
    PROVE  tfstate' = tfstate \/ tfstate' = Wanted(p)
<1> TypeOK /\ TargetNamed
    BY DEF ChangeInv
<1>1. tfvars = Wanted(p)
    BY DEF ChangeInv, Ordered, OneChange
<1>2. CASE Step(p)
  <2>1. PICK S \in SUBSET (tfvars \cup tfstate) : tfvars \cap tfstate \subseteq S /\ Provision(S)
      BY <1>2, AtTerraformApply
      DEF TerraformApply, TerraformApplied, TerraformApplyFailed
  <2>2. tfstate' = S
      BY <2>1 DEF Provision
  <2> QED BY <1>1, <2>1, <2>2 DEF Wanted
<1>3. CASE Kill(p)
    BY <1>3 DEF Kill, stores
<1>4. ASSUME NEW q \in Client \ {p}, Step(q) \/ Kill(q) PROVE FALSE
    BY <1>4, StepIsLocal DEF Moves
<1>5. ~EditTFVars /\ \A q \in Client : ~Start(q)
    BY DEF EditTFVars, Start, AllIdle
<1>6. ~UNCHANGED vars /\ ~Finished
    BY DEF vars, Finished, Moves
<1> QED BY <1>2, <1>3, <1>4, <1>5, <1>6 DEF Next

\* With one command at a time, and too few machines for a plan with ten additions,
\* terraform apply as a part of RemoveNode never touches a machine but the one the
\* operator named: the check that no change is pending is enough.
THEOREM RemoveIsConfined ==
    ASSUME Exclusive, FewResources
    PROVE  Spec => RemoveTouchesOnlyItsMachine
<1>1. ASSUME ChangeInv, [Next]_vars, NEW p \in Client,
             At(p, "terraformApply"), run[p].phase = "remove", Moves(p)
      PROVE  tfstate' \in {tfstate, tfstate \ {run[p].target}}
    BY <1>1, ApplyTouchesOnlyItsMachine DEF At, Wanted
<1>2. ChangeInv /\ [Next]_vars =>
        [\A p \in Client :
            At(p, "terraformApply") /\ run[p].phase = "remove" /\ Moves(p)
                => tfstate' \in {tfstate, tfstate \ {run[p].target}}]_vars
    BY <1>1
<1>3. Spec => []ChangeInv
    BY ChangeInit, ChangeNext, PTL DEF Spec
<1> QED BY <1>2, <1>3, PTL DEF Spec, RemoveTouchesOnlyItsMachine

\* Under the same conditions, terraform apply as a part of Join only ever adds the
\* machine that joins.
THEOREM JoinIsConfined ==
    ASSUME Exclusive, FewResources
    PROVE  Spec => JoinTouchesOnlyItsMachine
<1>1. ASSUME ChangeInv, [Next]_vars, NEW p \in Client,
             At(p, "terraformApply"), run[p].phase = "join", Moves(p)
      PROVE  tfstate' \in {tfstate, tfstate \cup {run[p].created}}
    BY <1>1, ApplyTouchesOnlyItsMachine DEF At, Wanted
<1>2. ChangeInv /\ [Next]_vars =>
        [\A p \in Client :
            At(p, "terraformApply") /\ run[p].phase = "join" /\ Moves(p)
                => tfstate' \in {tfstate, tfstate \cup {run[p].created}}]_vars
    BY <1>1
<1>3. Spec => []ChangeInv
    BY ChangeInit, ChangeNext, PTL DEF Spec
<1> QED BY <1>2, <1>3, PTL DEF Spec, JoinTouchesOnlyItsMachine

\* With one command at a time, every playbook runs on an inventory that lists
\* exactly the machines that exist.
THEOREM PlaybooksRunOnState ==
    ASSUME Exclusive
    PROVE  Spec => []PlaybooksSeeState
<1>1. ChangeInv => PlaybooksSeeState
    BY DEF ChangeInv, Ordered, Rendered, PlaybooksSeeState
<1>2. Spec => []ChangeInv
    BY ChangeInit, ChangeNext, PTL DEF Spec
<1> QED BY <1>1, <1>2, PTL

-----------------------------------------------------------------------------
(* Draining before resetting. *)

\* Only the lookup of the node and its drain lead to the reset, and both leave the
\* command as it is.
LEMMA ResetReachedFrom ==
    ASSUME TypeOK, TargetNamed, NEW p \in Client, Step(p), pc'[p] = "reset"
    PROVE  /\ NodeExists(p) \/ DrainNode(p)
           /\ Goto(p, "reset")
<1>0. /\ \A s : Goto(p, s) => s = "reset"
      /\ \A s, r : GotoWith(p, s, r) => s = "reset"
      /\ \A x : ~Return(p, x)
  <2>1. \A x : Return(p, x) => pc'[p] = "idle"
      BY DEF TypeOK, Return
  <2> QED BY <2>1, GotoEffect, GotoWithEffect
<1>1. ~Fail(p) /\ ~CommandFails(p) /\ ~Joined(p) /\ \A m : ~Configured(p, m)
    BY <1>0 DEF Fail, CommandFails, Joined, Configured
<1>2. ~AfterTerraformApply(p) /\ ~AfterJoinCluster(p)
    BY <1>0, <1>1 DEF AfterTerraformApply, AfterJoinCluster
<1>3. ~(\/ WorkspaceApply(p) \/ PlanNoDiff(p) \/ AddMachine(p) \/ CloneMachine(p)
        \/ WriteTFVars(p) \/ TerraformApply(p) \/ WriteInfraJSON(p)
        \/ OpenInventory(p) \/ WriteInventory(p))
    BY <1>0, <1>1, <1>2 DEF WorkspaceApply, PlanNoDiff, AddMachine, CloneMachine, WriteTFVars,
            TerraformApply, WriteInfraJSON, OpenInventory, WriteInventory
<1>4. ~(\/ WaitForSSH(p) \/ Infrastructure(p) \/ PrepareNodes(p)
        \/ InitializeMaster(p) \/ FetchAdminConf(p) \/ JoinCluster(p)
        \/ EncryptKubeconfig(p))
    BY <1>0, <1>1, <1>2 DEF WaitForSSH, Infrastructure, PrepareNodes, InitializeMaster,
            FetchAdminConf, JoinCluster, EncryptKubeconfig
<1>5. ~(\/ ResetMachine(p) \/ DeleteNode(p) \/ RemoveMachine(p)
        \/ KubernetesCleanup(p) \/ TerraformDestroy(p))
    BY <1>0, <1>1 DEF ResetMachine, DeleteNode, RemoveMachine, KubernetesCleanup, TerraformDestroy
<1>6. (NodeExists(p) \/ DrainNode(p)) => Goto(p, "reset")
    BY <1>0, <1>1 DEF NodeExists, DrainNode, AfterDrain
<1> QED BY <1>3, <1>4, <1>5, <1>6 DEF Step

\* The phase is that of the command, until replace goes on with RemoveNode.
PhasesFit ==
    \A p \in Client : \/ run[p].phase = FirstPhase(run[p].command)
                      \/ run[p].command = "replace" /\ run[p].phase = "remove"

LEMMA PhasesInit == Init => PhasesFit
<1>1. NoRun.phase = FirstPhase(NoRun.command)
    BY DEF NoRun, FirstPhase
<1> QED BY <1>1 DEF Init, PhasesFit

LEMMA PhasesNext == TypeOK /\ TargetNamed /\ PhasesFit /\ [Next]_vars => PhasesFit'
<1> SUFFICES ASSUME TypeOK, TargetNamed, PhasesFit, [Next]_vars PROVE PhasesFit'
    OBVIOUS
<1>1. CASE UNCHANGED run
    BY <1>1 DEF PhasesFit
<1>2. ASSUME NEW p \in Client, Start(p) PROVE PhasesFit'
  <2>1. PICK c \in Commands \ {"edit"} : \E t \in Targets(c) :
          run' = [run EXCEPT ![p] =
                      [command |-> c, phase |-> FirstPhase(c), target |-> t,
                       created |-> NoMachine, machines |-> tfvars]]
      BY <1>2, StartRun
  <2>2. run'[p].command = c /\ run'[p].phase = FirstPhase(c)
      BY <2>1 DEF TypeOK
  <2>4. \A q \in Client \ {p} : run'[q] = run[q]
      BY <2>1 DEF TypeOK
  <2> QED BY <2>2, <2>4 DEF PhasesFit
<1>3. ASSUME NEW p \in Client, Step(p) \/ Kill(p) PROVE PhasesFit'
  <2>1. \A q \in Client \ {p} : run'[q] = run[q]
      BY <1>3, StepIsLocal
  <2>2. CASE Continues(p)
    <3>1. PICK s, r : /\ GotoWith(p, s, r) /\ r.command = run[p].command
                      /\ \/ r.phase = run[p].phase
                         \/ run[p].command = "replace" /\ r.phase = "remove"
        BY <2>2 DEF Continues
    <3>2. run'[p] = r
        BY <3>1, GotoWithEffect
    <3> QED BY <2>1, <3>1, <3>2 DEF PhasesFit
  <2>3. CASE Ends(p)
    <3>1. run'[p] = NoRun
        BY <2>3, ReturnEffect DEF Ends
    <3>2. NoRun.phase = FirstPhase(NoRun.command)
        BY DEF NoRun, FirstPhase
    <3> QED BY <2>1, <3>1, <3>2 DEF PhasesFit
  <2> QED BY <1>3, <2>2, <2>3, StepShape
<1> QED BY <1>1, <1>2, <1>3 DEF Next, Finished, EditTFVars, vars

\* The commands that go through a phase.
LEMMA CommandOfPhase ==
    ASSUME TypeOK, PhasesFit, NEW p \in Client
    PROVE  /\ run[p].phase = "apply" => run[p].command = "apply"
           /\ run[p].phase = "terraform" => run[p].command = "terraform apply"
           /\ run[p].phase = "join" => run[p].command \in {"add", "clone", "replace"}
           /\ run[p].phase = "remove" => run[p].command \in {"remove", "replace"}
           /\ run[p].phase = "reset" => run[p].command = "reset"
           /\ run[p].phase = "drain" => run[p].command = "drain"
           /\ run[p].phase = "destroy" => run[p].command = "destroy"
<1>1. run[p].command \in Commands \cup {"none"}
    BY DEF TypeOK, Runs
<1>2. \/ run[p].phase = FirstPhase(run[p].command)
      \/ run[p].command = "replace" /\ run[p].phase = "remove"
    BY DEF PhasesFit
<1>3. /\ FirstPhase("apply") = "apply" /\ FirstPhase("add") = "join"
      /\ FirstPhase("clone") = "join" /\ FirstPhase("replace") = "join"
      /\ FirstPhase("remove") = "remove" /\ FirstPhase("reset") = "reset"
      /\ FirstPhase("drain") = "drain" /\ FirstPhase("terraform apply") = "terraform"
      /\ FirstPhase("destroy") = "destroy" /\ FirstPhase("edit") = "edit"
      /\ FirstPhase("none") = "none"
    BY DEF FirstPhase
<1> QED BY <1>1, <1>2, <1>3 DEF Commands

\* One command at a time keeps a node drained, or away, from its drain to its reset.
LEMMA DrainedNext ==
    ASSUME Exclusive, "lookup" \notin Faults
    PROVE  ChangeInv /\ PhasesFit /\ ResetOnlyDrained /\ [Next]_vars => ResetOnlyDrained'
<1> SUFFICES ASSUME ChangeInv, PhasesFit, ResetOnlyDrained, [Next]_vars,
                    NEW p \in Client, pc'[p] = "reset", run'[p].phase = "remove"
             PROVE  /\ kubeconfig'.cp # NoControlPlane
                    /\ NodeState(run[p].target)' \in {"drained", "none"}
    BY DEF ResetOnlyDrained, At
<1> TypeOK /\ TargetNamed
    BY DEF ChangeInv
<1>1. CASE EditTFVars
    BY <1>1 DEF EditTFVars, ResetOnlyDrained, At, NodeState
<1>2. ASSUME NEW q \in Client, Start(q) PROVE FALSE
  <2>1. pc[p] = "idle"
      BY <1>2 DEF Start, AllIdle
  <2>2. q = p
      BY <1>2, <2>1 DEF Start, TypeOK
  <2>3. PICK c \in Commands \ {"edit"} : \E t \in Targets(c), s \in FirstStep(c) :
          /\ pc' = [pc EXCEPT ![p] = s]
          /\ run' = [run EXCEPT ![p] =
                         [command |-> c, phase |-> FirstPhase(c), target |-> t,
                          created |-> NoMachine, machines |-> tfvars]]
      BY <1>2, <2>2, StartRun
  <2>4. "reset" \in FirstStep(c) /\ FirstPhase(c) = "remove"
      BY <2>3 DEF TypeOK
  <2> QED BY <2>4 DEF Commands, FirstStep, FirstPhase
<1>3. ASSUME NEW q \in Client, Step(q) \/ Kill(q)
      PROVE  /\ kubeconfig'.cp # NoControlPlane
             /\ NodeState(run[p].target)' \in {"drained", "none"}
  <2>1. q = p
    <3>1. pc[q] # "idle"
        BY <1>3, StepIsActive
    <3>2. q # p => pc[p] = "reset"
        BY <1>3, StepIsLocal
    <3> QED BY <3>1, <3>2 DEF ChangeInv, OneCommand
  <2>2. Step(p)
    <3>1. ~Kill(p)
        BY DEF Kill, Return, TypeOK
    <3> QED BY <1>3, <2>1, <3>1
  <2>3. (NodeExists(p) \/ DrainNode(p)) /\ run'[p] = run[p]
      BY <2>2, ResetReachedFrom, GotoEffect
  <2>4. pc[p] # "idle" /\ run[p].phase = "remove"
      BY <2>2, <2>3, StepIsActive
  <2>5. run[p].target \in Machine
      BY <2>4 DEF PhasesFit, FirstPhase, TargetNamed
  <2>8. ~Fail(p) /\ ~CommandFails(p) /\ ~Return(p, "error")
      BY DEF Fail, CommandFails, Return, TypeOK
  <2>6. CASE NodeExists(p)
    <3>1. KubectlWorks /\ ~NodeFound(p) /\ UNCHANGED stores
      <4>1. \/ /\ KubectlWorks /\ UNCHANGED stores
               /\ Goto(p, IF NodeFound(p) THEN "drain" ELSE "reset")
            \/ Fail(p) \/ CommandFails(p)
          BY <2>6 DEF NodeExists
      <4> QED BY <2>8, <4>1, GotoEffect
    <3>2. NodeState(run[p].target) = "none" /\ kubeconfig.cp # NoControlPlane
        BY <3>1 DEF NodeFound, KubectlWorks, Healthy
    <3> QED BY <2>3, <3>1, <3>2 DEF stores, NodeState
  <2>7. CASE DrainNode(p)
    <3>1. KubectlWorks /\ SetNodeState(run[p].target, "drained")
        BY <2>7, <2>8 DEF DrainNode
    <3>2. kubeconfig.cp \in ControlPlane
        BY <3>1 DEF KubectlWorks, Healthy, TypeOK, StoresTypeOK, Kubeconfigs
    <3>3. kubeconfig' = kubeconfig /\ node'[kubeconfig.cp][run[p].target] = "drained"
        BY <2>5, <3>1, <3>2 DEF SetNodeState, TypeOK, StoresTypeOK
    <3> QED BY <2>3, <3>2, <3>3, ControlPlaneAssumption DEF NodeState
  <2> QED BY <2>3, <2>6, <2>7
<1>4. CASE UNCHANGED vars
    BY <1>4 DEF vars, stores, ResetOnlyDrained, At, NodeState
<1> QED BY <1>1, <1>2, <1>3, <1>4 DEF Next, Finished

\* With one command at a time, and unless kubectl's "not found" can mean something else,
\* RemoveNode resets a machine only when its node is drained or not registered.
THEOREM ResetAfterDrain ==
    ASSUME Exclusive, "lookup" \notin Faults
    PROVE  Spec => []ResetOnlyDrained
<1>1. Init => ResetOnlyDrained
    BY DEF Init, ResetOnlyDrained, At
<1>2. ChangeInv /\ PhasesFit /\ [Next]_vars => PhasesFit'
    BY PhasesNext DEF ChangeInv
<1> QED BY <1>1, <1>2, ChangeInit, ChangeNext, PhasesInit, DrainedNext, PTL DEF Spec

-----------------------------------------------------------------------------
(* Joining before removing: what replace relies on. *)

\* A machine that does not exist has no files, a master that belongs to a control plane
\* has an admin.conf, and a control plane that any machine belongs to has a master.
HostInv ==
    \A m \in Machine :
        /\ m \notin tfstate => host[m] = CleanHost
        /\ NodeType[m] = "master" /\ host[m].cp # NoControlPlane => host[m].admin
        /\ host[m].cp # NoControlPlane => \E k \in Masters(Machine) : host[k].cp = host[m].cp

\* Settling takes nothing but lost control planes away from the hosts.
LEMMA SettleEffect ==
    ASSUME NEW h \in [Machine -> HostStates], NEW n, NEW e, NEW k, Settle(h, n, e, k),
           NEW m \in Machine
    PROVE  /\ host'[m].admin = h[m].admin
           /\ host'[m].kubelet = h[m].kubelet
           /\ host'[m].cp \in {h[m].cp, NoControlPlane}
           /\ h[m] = CleanHost => host'[m] = CleanHost
           /\ \A x \in Masters(Machine) :
                  h[x].cp = h[m].cp => host'[m].cp = h[m].cp /\ host'[x].cp = h[m].cp
           /\ host'[m].cp # NoControlPlane =>
                  \E x \in Masters(Machine) : h[x].cp = h[m].cp
<1> DEFINE left == {h[x].cp : x \in Masters(Machine)} \ {NoControlPlane}
<1>1. \A x \in Machine : host'[x] = [h[x] EXCEPT !.cp = IF h[x].cp \in left THEN h[x].cp
                                                                     ELSE NoControlPlane]
    BY DEF Settle
<1>2. \A x \in Machine : h[x] \in [admin: BOOLEAN, kubelet: BOOLEAN,
                                   cp: ControlPlane \cup {NoControlPlane}]
    BY DEF HostStates
<1>3. \A x \in Machine : /\ host'[x].admin = h[x].admin /\ host'[x].kubelet = h[x].kubelet
                         /\ host'[x].cp = IF h[x].cp \in left THEN h[x].cp ELSE NoControlPlane
    BY <1>1, <1>2
<1>4. h[m] = CleanHost => host'[m] = CleanHost
  <2>1. CleanHost = [admin |-> FALSE, kubelet |-> FALSE, cp |-> NoControlPlane]
      BY DEF CleanHost
  <2>2. ASSUME h[m] = CleanHost
        PROVE  host'[m] = [CleanHost EXCEPT !.cp = NoControlPlane]
    <3>1. h[m].cp = NoControlPlane /\ NoControlPlane \notin left
        BY <2>1, <2>2
    <3> HIDE DEF left
    <3>2. host'[m] = [h[m] EXCEPT !.cp = NoControlPlane]
        BY <1>1, <3>1
    <3> QED BY <2>2, <3>2
  <2> QED BY <2>1, <2>2
<1>5. Masters(Machine) \subseteq Machine
    BY DEF Masters
<1>6. \A x \in Masters(Machine) :
          h[x].cp = h[m].cp => host'[m].cp = h[m].cp /\ host'[x].cp = h[m].cp
    BY <1>3, <1>5
<1>7. host'[m].cp # NoControlPlane => \E x \in Masters(Machine) : h[x].cp = h[m].cp
    BY <1>3
<1> QED BY <1>3, <1>4, <1>6, <1>7

\* What a step does to the machines: nothing, terraform, or kubeadm on machines that exist.
LEMMA StepTouches ==
    ASSUME ChangeInv, NEW p \in Client, Step(p)
    PROVE  \/ UNCHANGED <<tfstate, host>>
           \/ \E S \in SUBSET Machine : Provision(S)
           \/ \E m \in Machine : KubeadmReset(m)
           \/ \E m \in Masters(tfstate), complete \in BOOLEAN :
                  ~host[m].admin /\ KubeadmInit(m, complete)
           \/ \E J, Q, K, R \in SUBSET JoiningNodes :
                  /\ ActiveMasters # {} /\ HostsReachable
                  /\ KubeadmJoin(host[Min(ActiveMasters)].cp, J, Q, K, R)
<1> USE DEF stores, k8s
<1> TypeOK /\ TargetNamed /\ StoresTypeOK
    BY DEF ChangeInv, TypeOK
<1> SUFFICES ASSUME ~UNCHANGED <<tfstate, host>>
             PROVE  \/ \E S \in SUBSET Machine : Provision(S)
                    \/ \E m \in Machine : KubeadmReset(m)
                    \/ \E m \in Masters(tfstate), complete \in BOOLEAN :
                           ~host[m].admin /\ KubeadmInit(m, complete)
                    \/ \E J, Q, K, R \in SUBSET JoiningNodes :
                           /\ ActiveMasters # {} /\ HostsReachable
                           /\ KubeadmJoin(host[Min(ActiveMasters)].cp, J, Q, K, R)
    OBVIOUS
<1>0. ~Fail(p) /\ ~CommandFails(p) /\ ~UNCHANGED stores
    BY DEF Fail, CommandFails
<1>1. CASE \/ WorkspaceApply(p) \/ PlanNoDiff(p) \/ AddMachine(p) \/ CloneMachine(p)
           \/ WriteTFVars(p) \/ WriteInfraJSON(p) \/ OpenInventory(p) \/ WriteInventory(p)
    BY <1>0, <1>1 DEF WorkspaceApply, PlanNoDiff, AddMachine, CloneMachine, WriteTFVars,
            WriteInfraJSON, OpenInventory, WriteInventory
<1>2. CASE TerraformApply(p)
  <2>1. CASE TerraformApplied
      BY <2>1 DEF TerraformApplied, StoresTypeOK
  <2>2. CASE TerraformApplyFailed
    <3>1. PICK S \in SUBSET (tfvars \cup tfstate) : Provision(S)
        BY <2>2 DEF TerraformApplyFailed
    <3>2. S \in SUBSET Machine
        BY DEF StoresTypeOK
    <3> QED BY <3>1, <3>2
  <2> QED BY <1>2, <2>1, <2>2 DEF TerraformApply
<1>3. CASE \/ WaitForSSH(p) \/ Infrastructure(p) \/ PrepareNodes(p) \/ FetchAdminConf(p)
           \/ EncryptKubeconfig(p)
    BY <1>0, <1>3 DEF WaitForSSH, Infrastructure, PrepareNodes, FetchAdminConf, FetchKubeconfig,
            EncryptKubeconfig
<1>4. CASE InitializeMaster(p)
  <2> DEFINE first == Min(Masters(inventory))
  <2>1. PICK complete \in BOOLEAN : /\ Masters(inventory) # {} /\ first \in tfstate
                                    /\ ~host[first].admin /\ KubeadmInit(first, complete)
      BY <1>0, <1>4 DEF InitializeMaster
  <2>2. Masters(inventory) \in SUBSET Nat
      BY MachineAssumption DEF StoresTypeOK, Masters
  <2>3. first \in Masters(inventory)
      BY <2>1, <2>2, MinIsMember
  <2>4. first \in Masters(tfstate)
      BY <2>1, <2>3 DEF Masters
  <2> QED BY <2>1, <2>4
<1>5. CASE JoinCluster(p)
  <2> DEFINE cp == host[Min(ActiveMasters)].cp
  <2>1. /\ ActiveMasters # {} /\ HostsReachable
        /\ KubeadmJoin(cp, JoiningNodes, {}, {}, {}) \/ KubeadmJoinFailed(cp)
      BY <1>0, <1>5 DEF JoinCluster
  <2>2. CASE KubeadmJoin(cp, JoiningNodes, {}, {}, {})
    <3>1. JoiningNodes \in SUBSET JoiningNodes /\ {} \in SUBSET JoiningNodes
        OBVIOUS
    <3> QED BY <2>1, <2>2, <3>1
  <2>3. CASE KubeadmJoinFailed(cp)
    <3>1. PICK J, Q \in SUBSET JoiningNodes : \E K \in SUBSET Q : \E R \in SUBSET K :
              KubeadmJoin(cp, J, Q, K, R)
        BY <2>3, Zenon DEF KubeadmJoinFailed
    <3>2. PICK K, R \in SUBSET JoiningNodes : KubeadmJoin(cp, J, Q, K, R)
        BY <3>1
    <3> QED BY <2>1, <3>2
  <2> QED BY <2>1, <2>2, <2>3
<1>6. CASE ResetMachine(p)
  <2>1. run[p].target \in tfstate /\ KubeadmReset(run[p].target)
      BY <1>0, <1>6 DEF ResetMachine
  <2> QED BY <2>1 DEF StoresTypeOK
<1>7. CASE NodeExists(p) \/ DrainNode(p) \/ DeleteNode(p) \/ RemoveMachine(p) \/ KubernetesCleanup(p)
    BY <1>0, <1>7 DEF NodeExists, DrainNode, DeleteNode, SetNodeState, RemoveMachine, KubernetesCleanup
<1>8. CASE TerraformDestroy(p)
  <2>1. CASE TerraformDestroyed
      BY <2>1 DEF TerraformDestroyed
  <2>2. CASE TerraformDestroyFailed
    <3>1. PICK S \in SUBSET tfstate : Provision(S)
        BY <2>2 DEF TerraformDestroyFailed
    <3>2. S \in SUBSET Machine
        BY DEF StoresTypeOK
    <3> QED BY <3>1, <3>2
  <2> QED BY <1>8, <2>1, <2>2 DEF TerraformDestroy
<1> QED BY <1>1, <1>2, <1>3, <1>4, <1>5, <1>6, <1>7, <1>8 DEF Step

LEMMA HostInit == Init => HostInv
BY DEF Init, HostInv, CleanHost

\* Hosts whose files a step wiped, or left, stay in order when it settles them.
LEMMA SettleKeeps ==
    ASSUME StoresTypeOK, HostInv,
           NEW h \in [Machine -> HostStates], NEW n, NEW e, NEW k, Settle(h, n, e, k),
           \A m \in Machine : h[m] \in {host[m], CleanHost} /\ (m \notin tfstate' => h[m] = CleanHost)
    PROVE  HostInv'
<1> SUFFICES ASSUME NEW m \in Machine
             PROVE  /\ m \notin tfstate' => host'[m] = CleanHost
                    /\ NodeType[m] = "master" /\ host'[m].cp # NoControlPlane => host'[m].admin
                    /\ host'[m].cp # NoControlPlane =>
                         \E x \in Masters(Machine) : host'[x].cp = host'[m].cp
    BY DEF HostInv
<1>1. m \notin tfstate' => host'[m] = CleanHost
    BY SettleEffect
<1>2. NodeType[m] = "master" /\ h[m].cp # NoControlPlane => h[m].admin
    BY DEF HostInv, CleanHost
<1>3. NodeType[m] = "master" /\ host'[m].cp # NoControlPlane => host'[m].admin
    BY <1>2, SettleEffect
<1>4. host'[m].cp # NoControlPlane => \E x \in Masters(Machine) : host'[x].cp = host'[m].cp
    BY SettleEffect
<1> QED BY <1>1, <1>3, <1>4

LEMMA HostNext == ChangeInv /\ HostInv /\ [Next]_vars => HostInv'
<1> SUFFICES ASSUME ChangeInv, HostInv, [Next]_vars PROVE HostInv'
    OBVIOUS
<1> TypeOK /\ StoresTypeOK
    BY DEF ChangeInv, TypeOK
<1>1. CASE UNCHANGED <<tfstate, host>>
    BY <1>1 DEF HostInv
<1>2. ASSUME NEW S \in SUBSET Machine, Provision(S) PROVE HostInv'
  <2> DEFINE h == [m \in Machine |-> IF m \in S THEN host[m] ELSE CleanHost]
  <2>1. h \in [Machine -> HostStates]
      BY CleanHostType DEF StoresTypeOK
  <2>2. Settle(h, node, etcd, kubeconfig) /\ tfstate' = S
      BY <1>2 DEF Provision
  <2>3. \A m \in Machine : h[m] \in {host[m], CleanHost} /\ (m \notin tfstate' => h[m] = CleanHost)
      BY <2>2
  <2> HIDE DEF h
  <2> QED BY <2>1, <2>2, <2>3, SettleKeeps
<1>3. ASSUME NEW m \in Machine, KubeadmReset(m) PROVE HostInv'
  <2> DEFINE h == [host EXCEPT ![m] = CleanHost]
  <2>1. h \in [Machine -> HostStates]
      BY CleanHostType DEF StoresTypeOK
  <2>2. PICK e : Settle(h, node, e, kubeconfig) /\ tfstate' = tfstate
      BY <1>3 DEF KubeadmReset
  <2>3. \A x \in Machine : h[x] \in {host[x], CleanHost} /\ (x \notin tfstate' => h[x] = CleanHost)
      BY <2>2 DEF StoresTypeOK, HostInv
  <2> HIDE DEF h
  <2> QED BY <2>1, <2>2, <2>3, SettleKeeps
<1>4. ASSUME NEW m \in Masters(tfstate), NEW complete \in BOOLEAN, ~host[m].admin,
             KubeadmInit(m, complete)
      PROVE  HostInv'
  <2>1. PICK c \in ControlPlane :
          host' = [host EXCEPT ![m] = [admin |-> TRUE, kubelet |-> TRUE, cp |-> c]]
      BY <1>4 DEF KubeadmInit
  <2>2. tfstate' = tfstate
      BY <1>4 DEF KubeadmInit
  <2>3. m \in Machine /\ m \in Masters(Machine) /\ NodeType[m] = "master" /\ m \in tfstate
      BY DEF Masters, StoresTypeOK
  <2>4. host[m].cp = NoControlPlane
      BY <1>4, <2>3 DEF HostInv
  <2>5. /\ host'[m] = [admin |-> TRUE, kubelet |-> TRUE, cp |-> c]
        /\ \A x \in Machine \ {m} : host'[x] = host[x]
      BY <2>1, <2>3 DEF StoresTypeOK
  <2> QED BY <2>2, <2>3, <2>4, <2>5 DEF HostInv, Masters
<1>5. ASSUME NEW J \in SUBSET JoiningNodes, NEW Q \in SUBSET JoiningNodes, NEW K, NEW R,
             ActiveMasters # {}, HostsReachable,
             KubeadmJoin(host[Min(ActiveMasters)].cp, J, Q, K, R)
      PROVE  HostInv'
  <2> DEFINE first == Min(ActiveMasters)
  <2>1. ActiveMasters \in SUBSET Nat
      BY MachineAssumption DEF StoresTypeOK, ActiveMasters, Masters
  <2>2. first \in ActiveMasters
      BY <1>5, <2>1, MinIsMember
  <2> HIDE DEF first
  <2>3. first \in Masters(Machine) /\ host[first].admin
      BY <2>2 DEF ActiveMasters, Masters, StoresTypeOK
  <2>4. \A m \in J \cup Q : m \in Machine /\ m \in tfstate /\ ~host[m].admin
      BY <1>5 DEF JoiningNodes, K8sNodes, Masters, Workers, HostsReachable, StoresTypeOK
  <2>5. /\ tfstate' = tfstate
        /\ \A m \in Machine : m \in J \cup Q =>
               host'[m].admin = (NodeType[m] = "master") /\ host'[m].cp = host[first].cp
        /\ \A m \in Machine : m \notin J \cup Q => host'[m] = host[m]
      BY <1>5, Zenon DEF KubeadmJoin, first
  <2>6. host'[first].cp = host[first].cp
      BY <2>3, <2>4, <2>5 DEF Masters
  <2> SUFFICES ASSUME NEW m \in Machine
               PROVE  /\ m \notin tfstate' => host'[m] = CleanHost
                      /\ NodeType[m] = "master" /\ host'[m].cp # NoControlPlane => host'[m].admin
                      /\ host'[m].cp # NoControlPlane =>
                           \E x \in Masters(Machine) : host'[x].cp = host'[m].cp
      BY DEF HostInv
  <2>7. CASE m \in J \cup Q
      BY <2>3, <2>4, <2>5, <2>6, <2>7
  <2>8. CASE m \notin J \cup Q
    <3>1. host'[m] = host[m]
        BY <2>5, <2>8
    <3>2. ASSUME host[m].cp # NoControlPlane
          PROVE  \E x \in Masters(Machine) : host'[x].cp = host[m].cp
      <4>1. PICK x \in Masters(Machine) : host[x].cp = host[m].cp
          BY <3>2 DEF HostInv
      <4>2. x \in Machine /\ NodeType[x] = "master"
          BY DEF Masters
      <4>3. host[x].admin
          BY <3>2, <4>1, <4>2 DEF HostInv
      <4>4. host'[x] = host[x]
          BY <2>4, <2>5, <4>2, <4>3
      <4> QED BY <4>1, <4>4
    <3> QED BY <2>5, <3>1, <3>2 DEF HostInv
  <2> QED BY <2>7, <2>8
<1>6. ASSUME NEW p \in Client, Step(p) PROVE HostInv'
    BY <1>1, <1>2, <1>3, <1>4, <1>5, <1>6, StepTouches
<1>7. ASSUME NEW p \in Client, Start(p) \/ Kill(p) PROVE UNCHANGED <<tfstate, host>>
    BY <1>7 DEF Start, Kill, stores
<1>8. CASE EditTFVars \/ Finished \/ UNCHANGED vars
    BY <1>1, <1>8 DEF EditTFVars, Finished, vars, stores
<1> QED BY <1>1, <1>6, <1>7, <1>8 DEF Next

\* A control plane that keeps a master keeps its nodes and its members; no node is
\* registered by settling.
LEMMA SettleKeepsPlane ==
    ASSUME NEW h, NEW n \in [ControlPlane -> [Machine -> NodeStates]], NEW e, NEW k,
           Settle(h, n, e, k), NEW c \in ControlPlane
    PROVE  /\ (\E x \in Masters(Machine) : h[x].cp = c) => node'[c] = n[c] /\ etcd'[c] = e[c]
           /\ \A m \in Machine : node'[c][m] \in {n[c][m], "none"}
<1> DEFINE left == {h[x].cp : x \in Masters(Machine)} \ {NoControlPlane}
<1>1. /\ node'[c] = IF c \in left THEN n[c] ELSE [m \in Machine |-> "none"]
      /\ etcd'[c] = IF c \in left THEN e[c] ELSE {}
    BY DEF Settle
<1>2. (\E x \in Masters(Machine) : h[x].cp = c) => c \in left
    BY ControlPlaneAssumption
<1> HIDE DEF left
<1> QED BY <1>1, <1>2

\* The machine of a clone before it joins, and after.
Fresh(m) == host[m] = CleanHost /\ \A c \in ControlPlane : node[c][m] = "none"

Working(m) ==
    /\ m \in tfstate
    /\ NodeType[m] # "loadbalancer" =>
           /\ host[m].cp # NoControlPlane
           /\ node[host[m].cp][m] = "ready"
    /\ NodeType[m] = "master" => m \in etcd[host[m].cp]

\* A machine goes on working while another of its type is reset or destroyed: if it is
\* a master, it keeps its control plane, and if it is a worker, no master goes.
LEMMA WorkingKept ==
    ASSUME StoresTypeOK, HostInv, NEW m \in Machine, NEW old \in Machine \ {m},
           NodeType[m] = NodeType[old], Working(m), m \in tfstate',
           NEW h \in [Machine -> HostStates], NEW e, NEW k, Settle(h, node, e, k),
           \A x \in Machine \ {old} : h[x] = host[x],
           \A c \in ControlPlane : m \in etcd[c] => m \in e[c]
    PROVE  Working(m)'
<1>1. CASE NodeType[m] = "loadbalancer"
    BY <1>1 DEF Working
<1>2. CASE NodeType[m] # "loadbalancer"
  <2> DEFINE c == host[m].cp
  <2>1. c \in ControlPlane /\ h[m].cp = c /\ node[c][m] = "ready"
      BY <1>2 DEF Working, StoresTypeOK, HostStates
  <2>2. PICK x \in Masters(Machine) : h[x].cp = c
    <3>1. CASE NodeType[m] = "master"
        BY <2>1, <3>1 DEF Masters
    <3>2. CASE NodeType[m] # "master"
      <4>1. PICK x \in Masters(Machine) : host[x].cp = c
          BY <1>2 DEF Working, HostInv
      <4>2. x \in Machine \ {old}
          BY <3>2 DEF Masters
      <4> QED BY <4>1, <4>2
    <3> QED BY <3>1, <3>2
  <2>3. host'[m].cp = c
      BY <2>1, <2>2, SettleEffect
  <2>4. node'[c] = node[c] /\ etcd'[c] = e[c]
      BY <2>1, <2>2, SettleKeepsPlane DEF StoresTypeOK
  <2>5. NodeType[m] = "master" => m \in e[c]
      BY <2>1 DEF Working
  <2>6. c # NoControlPlane
      BY <2>1, ControlPlaneAssumption
  <2> HIDE DEF c
  <2> QED BY <2>1, <2>3, <2>4, <2>5, <2>6 DEF Working
<1> QED BY <1>1, <1>2

\* Where replace is, and what its new machine has become there.
JoinSteps == {"plan", "configure", "writeTFVars", "terraformApply", "writeInfra", "openInventory",
              "writeInventory", "waitForSSH", "prepareNodes", "joinCluster", "infrastructure"}

RemoveSteps == {"plan", "nodeExists", "drain", "reset", "deleteNode", "removeMachine",
                "writeTFVars", "terraformApply", "writeInfra", "openInventory",
                "writeInventory", "infrastructure"}

Replacing(p) ==
    run[p].command = "replace" =>
        /\ \/ run[p].phase = "join" /\ pc[p] \in JoinSteps
           \/ run[p].phase = "remove" /\ pc[p] \in RemoveSteps
        /\ run[p].phase = "remove" \/ pc[p] \notin {"plan", "configure"} =>
               /\ run[p].created \in Machine
               /\ run[p].created # run[p].target
               /\ NodeType[run[p].created] = NodeType[run[p].target]
        /\ run[p].phase = "join" /\ pc[p] \notin {"plan", "configure", "infrastructure"} =>
               Fresh(run[p].created)
        /\ /\ run[p].phase = "join"
           /\ pc[p] \in {"writeInfra", "openInventory", "writeInventory", "waitForSSH",
                         "prepareNodes", "joinCluster"}
           => run[p].created \in tfstate
        /\ run[p].phase = "remove" \/ pc[p] = "infrastructure" => Working(run[p].created)

\* The steps of replace that change tfvars.json, infra.json, the inventory and the machines.
LEMMA ReplacingInfrastructure ==
    ASSUME ChangeInv, HostInv, FewResources, NEW p \in Client, Replacing(p),
           run[p].command = "replace", \A x : ~Return(p, x),
           \/ WorkspaceApply(p) \/ PlanNoDiff(p) \/ AddMachine(p) \/ CloneMachine(p)
           \/ WriteTFVars(p) \/ TerraformApply(p) \/ WriteInfraJSON(p)
           \/ OpenInventory(p) \/ WriteInventory(p)
    PROVE  Replacing(p)'
<1> USE DEF At, stores, k8s
<1> TypeOK /\ StoresTypeOK /\ TargetNamed /\ Ordered(p) /\ run[p] \in Runs
    BY DEF ChangeInv, TypeOK
<1> ~Fail(p) /\ ~CommandFails(p)
    BY DEF Fail, CommandFails
<1> DEFINE new == run[p].created
           old == run[p].target
<1>old. old \in Machine
    BY DEF TargetNamed
<1>1. CASE WorkspaceApply(p) \/ AddMachine(p)
    BY <1>1 DEF WorkspaceApply, AddMachine, Replacing, JoinSteps, RemoveSteps
<1>2. CASE PlanNoDiff(p)
    BY <1>2, GotoEffect DEF PlanNoDiff, Replacing, JoinSteps, RemoveSteps, Fresh, Working
<1>4. CASE CloneMachine(p)
  <2>1. PICK m \in FreshNames(old) : Configured(p, m) /\ UNCHANGED stores /\ old \in run[p].machines
      BY <1>4 DEF CloneMachine
  <2>2. /\ pc'[p] = "writeTFVars"
        /\ run'[p] = [run[p] EXCEPT !.created = m, !.machines = @ \cup {m}]
      BY <2>1, GotoWithEffect DEF Configured
  <2>3. /\ run'[p].phase = run[p].phase /\ run'[p].command = run[p].command
        /\ run'[p].created = m /\ run'[p].target = old
      BY <2>2 DEF Runs
  <2>4. /\ m \in Machine /\ m \notin tfstate /\ m \notin run[p].machines
        /\ NodeType[m] = NodeType[old]
        /\ \A c \in ControlPlane : node[c][m] = "none"
      BY <2>1 DEF FreshNames
  <2>5. Fresh(m)'
      BY <2>1, <2>4 DEF HostInv, Fresh
  <2>7. m # old
      BY <2>1, <2>4
  <2>6. run[p].phase = "join"
      BY <1>4 DEF CloneMachine, Ordered, MethodSteps
  <2> QED BY <2>2, <2>3, <2>4, <2>5, <2>6, <2>7 DEF Replacing, JoinSteps, Fresh
<1>5. CASE WriteTFVars(p)
    BY <1>5, GotoEffect DEF WriteTFVars, Replacing, JoinSteps, RemoveSteps, Fresh, Working
<1>6. CASE TerraformApply(p)
  <2>1. TerraformApplied /\ Goto(p, "writeInfra") /\ pc[p] = "terraformApply"
      BY <1>6 DEF TerraformApply
  <2>2. pc'[p] = "writeInfra" /\ run'[p] = run[p]
      BY <2>1, GotoEffect
  <2>3. run[p].phase \in {"join", "remove"}
      BY DEF Replacing
  <2>4. tfvars = Wanted(p)
      BY <2>1, <2>3 DEF Ordered, OneChange
  <2>5. /\ new \in Machine /\ new # old /\ NodeType[new] = NodeType[old]
        /\ run[p].phase = "join" => Fresh(new)
        /\ run[p].phase = "remove" => Working(new)
      BY <2>1, <2>3 DEF Replacing
  <2> DEFINE h == [m \in Machine |-> IF m \in tfvars THEN host[m] ELSE CleanHost]
  <2>6. Settle(h, node, etcd, kubeconfig) /\ tfstate' = tfvars
      BY <2>1 DEF TerraformApplied, Provision
  <2>7. h \in [Machine -> HostStates]
      BY CleanHostType DEF StoresTypeOK
  <2>8. \A m \in Machine : h[m] = IF m \in tfvars THEN host[m] ELSE CleanHost
      OBVIOUS
  <2> HIDE DEF h
  <2>9. CASE run[p].phase = "join"
    <3>1. new \in tfstate'
        BY <2>4, <2>6, <2>9 DEF Wanted
    <3>2. host'[new] = CleanHost
        BY <2>5, <2>6, <2>7, <2>8, <2>9, SettleEffect DEF Fresh
    <3>3. \A c \in ControlPlane : node'[c][new] = "none"
        BY <2>5, <2>6, <2>9, SettleKeepsPlane DEF Fresh, StoresTypeOK
    <3>4. Fresh(new)'
        BY <2>2, <3>2, <3>3 DEF Fresh
    <3> QED BY <2>2, <2>5, <2>9, <3>1, <3>4 DEF Replacing, JoinSteps
  <2>10. CASE run[p].phase = "remove"
    <3>1. \A m \in Machine \ {old} : h[m] = host[m]
        BY <2>4, <2>8, <2>10 DEF Wanted, HostInv
    <3>2. new \in tfstate'
        BY <2>4, <2>5, <2>6, <2>10 DEF Wanted, Working
    <3>3. Working(new)'
      <4> HIDE DEF new, old
      <4>1. Working(new) /\ new \in Machine /\ old \in Machine \ {new}
          BY <1>old, <2>5, <2>10
      <4>2. new' = new
          BY <2>2 DEF new
      <4> QED BY <2>5, <2>6, <2>7, <3>1, <3>2, <4>1, <4>2, WorkingKept DEF Working
    <3> QED BY <2>2, <2>5, <2>10, <3>3 DEF Replacing, RemoveSteps
  <2> QED BY <2>3, <2>9, <2>10
<1>7. CASE WriteInfraJSON(p)
    BY <1>7, GotoEffect DEF WriteInfraJSON, Replacing, JoinSteps, RemoveSteps, Fresh, Working
<1>8. CASE OpenInventory(p)
    BY <1>8, GotoEffect DEF OpenInventory, Replacing, JoinSteps, RemoveSteps, Fresh, Working
<1>9. CASE WriteInventory(p)
  <2>1. /\ UNCHANGED <<tfstate, host, node, etcd>> /\ pc[p] = "writeInventory"
        /\ run'[p] = run[p]
        /\ \/ run[p].phase \in {"apply", "join"} /\ pc'[p] = "waitForSSH"
           \/ run[p].phase = "remove" /\ pc'[p] = "infrastructure"
      BY <1>9, GotoEffect DEF WriteInventory, AfterTerraformApply
  <2> QED BY <2>1 DEF Replacing, JoinSteps, RemoveSteps, Fresh, Working
<1> QED BY <1>1, <1>2, <1>4, <1>5, <1>6, <1>7, <1>8, <1>9

\* The playbooks of replace: when join-cluster ends well, the new machine works.
LEMMA ReplacingJoin ==
    ASSUME ChangeInv, HostInv, NEW p \in Client, Replacing(p),
           run[p].command = "replace", \A x : ~Return(p, x),
           \/ WaitForSSH(p) \/ Infrastructure(p) \/ PrepareNodes(p)
           \/ InitializeMaster(p) \/ FetchAdminConf(p) \/ JoinCluster(p)
           \/ EncryptKubeconfig(p)
    PROVE  Replacing(p)'
<1> USE DEF At, stores, k8s
<1> TypeOK /\ StoresTypeOK /\ Ordered(p) /\ run[p] \in Runs
    BY DEF ChangeInv, TypeOK
<1> ~Fail(p) /\ ~CommandFails(p)
    BY DEF Fail, CommandFails
<1> DEFINE new == run[p].created
           old == run[p].target
<1>joined. ASSUME Joined(p)
           PROVE  /\ pc'[p] = "plan" /\ run'[p].phase = "remove" /\ run'[p].command = "replace"
                  /\ run'[p].created = run[p].created /\ run'[p].target = run[p].target
  <2>1. GotoWith(p, "plan", [run[p] EXCEPT !.phase = "remove"])
      BY <1>joined DEF Joined
  <2> QED BY <2>1, GotoWithEffect DEF Runs
<1>1. CASE InitializeMaster(p) \/ FetchAdminConf(p) \/ EncryptKubeconfig(p)
    BY <1>1 DEF InitializeMaster, FetchAdminConf, EncryptKubeconfig, Replacing, JoinSteps, RemoveSteps
<1>2. CASE WaitForSSH(p)
    BY <1>2, GotoEffect
    DEF WaitForSSH, Ordered, MethodSteps, Replacing, JoinSteps, RemoveSteps, Fresh, Working
<1>3. CASE PrepareNodes(p)
    BY <1>3, GotoEffect
    DEF PrepareNodes, Ordered, MethodSteps, Replacing, JoinSteps, RemoveSteps, Fresh, Working
<1>4. CASE Infrastructure(p)
  <2>1. /\ UNCHANGED <<tfstate, host, node, etcd>> /\ pc[p] = "infrastructure"
        /\ \/ Goto(p, "prepareNodes") /\ run[p].phase = "apply"
           \/ Joined(p) /\ run[p].phase = "join"
      BY <1>4 DEF Infrastructure
  <2>2. Joined(p) /\ run[p].phase = "join"
      BY <2>1 DEF Replacing
  <2>3. /\ new \in Machine /\ new # old /\ NodeType[new] = NodeType[old] /\ Working(new)
      BY <2>1, <2>2 DEF Replacing
  <2> QED BY <2>1, <2>2, <2>3, <1>joined DEF Replacing, RemoveSteps, Working
<1>5. CASE JoinCluster(p)
  <2> DEFINE cp == host[Min(ActiveMasters)].cp
  <2>1. /\ pc[p] = "joinCluster" /\ AfterJoinCluster(p) /\ HostsReachable
        /\ \/ /\ ActiveMasters # {} /\ Healthy(cp)
              /\ KubeadmJoin(cp, JoiningNodes, {}, {}, {})
           \/ K8sNodes(inventory) = {} /\ UNCHANGED stores
      BY <1>5 DEF JoinCluster
  <2>2. run[p].phase = "join"
      BY <2>1 DEF Replacing, RemoveSteps
  <2>3. /\ new \in Machine /\ new # old /\ NodeType[new] = NodeType[old]
        /\ Fresh(new) /\ new \in tfstate
      BY <2>1, <2>2 DEF Replacing
  <2>4. inventory = tfstate
      BY <2>1 DEF Ordered, Rendered
  <2>5. NodeType[new] # "loadbalancer" => new \in JoiningNodes
    <3>1. NodeType[new] \in {"master", "worker", "loadbalancer"}
        BY <2>3, NodeTypeAssumption DEF NodeTypes
    <3> QED BY <2>3, <2>4, <3>1
        DEF JoiningNodes, K8sNodes, Masters, Workers, Fresh, CleanHost
  <2>6. ASSUME KubeadmJoin(cp, JoiningNodes, {}, {}, {}), ActiveMasters # {}, Healthy(cp)
        PROVE  /\ new \in tfstate'
               /\ NodeType[new] # "loadbalancer" =>
                    /\ host'[new].cp # NoControlPlane
                    /\ node'[host'[new].cp][new] = "ready"
               /\ NodeType[new] = "master" => new \in etcd'[host'[new].cp]
    <3>1. ActiveMasters \in SUBSET Machine
        BY DEF StoresTypeOK, ActiveMasters, Masters
    <3>2. cp \in ControlPlane
        BY <2>6, <3>1, MasterType DEF Healthy
    <3> HIDE DEF cp
    <3>3. tfstate' = tfstate
        BY <2>6 DEF KubeadmJoin
    <3>4. new \in JoiningNodes => host'[new].cp = cp
        BY <2>3, <2>6, Zenon DEF KubeadmJoin
    <3>5. new \in JoiningNodes => node'[cp][new] = "ready"
      <4>1. node' = [node EXCEPT ![cp] =
                         [m \in Machine |-> IF m \in JoiningNodes /\ node[cp][m] = "none"
                                            THEN "ready" ELSE node[cp][m]]]
          BY <2>6 DEF KubeadmJoin, StoresTypeOK
      <4> QED BY <2>3, <3>2, <4>1 DEF StoresTypeOK, Fresh
    <3>6. new \in JoiningNodes /\ NodeType[new] = "master" => new \in etcd'[cp]
        BY <2>6, <3>2 DEF KubeadmJoin, StoresTypeOK, Masters
    <3>7. cp # NoControlPlane
        BY <3>2, ControlPlaneAssumption
    <3> QED BY <2>3, <2>5, <3>3, <3>4, <3>5, <3>6, <3>7 
  <2>7. ASSUME K8sNodes(inventory) = {}, UNCHANGED stores
        PROVE  /\ new \in tfstate'
               /\ NodeType[new] # "loadbalancer" =>
                    /\ host'[new].cp # NoControlPlane
                    /\ node'[host'[new].cp][new] = "ready"
               /\ NodeType[new] = "master" => new \in etcd'[host'[new].cp]
    <3>1. NodeType[new] = "loadbalancer"
        BY <2>5, <2>7 DEF JoiningNodes
    <3> QED BY <2>3, <2>7, <3>1
  <2>w. /\ new \in tfstate'
        /\ NodeType[new] # "loadbalancer" =>
             /\ host'[new].cp # NoControlPlane
             /\ node'[host'[new].cp][new] = "ready"
        /\ NodeType[new] = "master" => new \in etcd'[host'[new].cp]
    BY <2>1, <2>6, <2>7
  <2>8. Joined(p) \/ Goto(p, "infrastructure")
      BY <2>1, <2>2 DEF AfterJoinCluster
  <2>9. CASE Joined(p)
    <3>1. /\ pc'[p] = "plan" /\ run'[p].phase = "remove" /\ run'[p].command = "replace"
          /\ run'[p].created = new /\ run'[p].target = old
        BY <2>9, <1>joined
    <3> HIDE DEF new, old, cp
    <3> QED BY <2>3, <2>w, <3>1 DEF Replacing, RemoveSteps, Working
  <2>10. CASE Goto(p, "infrastructure")
    <3>1. /\ pc'[p] = "infrastructure" /\ run'[p].phase = "join" /\ run'[p].command = "replace"
          /\ run'[p].created = new /\ run'[p].target = old
        BY <2>2, <2>10, GotoEffect
    <3> HIDE DEF new, old, cp
    <3> QED BY <2>3, <2>w, <3>1 DEF Replacing, JoinSteps, Working
  <2> QED BY <2>8, <2>9, <2>10
<1> QED BY <1>1, <1>2, <1>3, <1>4, <1>5

\* The steps of replace in RemoveNode leave its new machine working.
LEMMA ReplacingRemove ==
    ASSUME ChangeInv, HostInv, NEW p \in Client, Replacing(p),
           run[p].command = "replace", \A x : ~Return(p, x),
           \/ NodeExists(p) \/ DrainNode(p) \/ ResetMachine(p) \/ DeleteNode(p)
           \/ RemoveMachine(p) \/ KubernetesCleanup(p) \/ TerraformDestroy(p)
    PROVE  Replacing(p)'
<1> USE DEF At, stores
<1> TypeOK /\ StoresTypeOK /\ TargetNamed /\ run[p] \in Runs
    BY DEF ChangeInv, TypeOK
<1> ~Fail(p) /\ ~CommandFails(p)
    BY DEF Fail, CommandFails
<1> DEFINE new == run[p].created
           old == run[p].target
<1>old. old \in Machine
    BY DEF TargetNamed
<1>1. CASE KubernetesCleanup(p) \/ TerraformDestroy(p)
    BY <1>1 DEF KubernetesCleanup, TerraformDestroy, Replacing, JoinSteps, RemoveSteps
<1>2. CASE NodeExists(p)
    BY <1>2, GotoEffect DEF NodeExists, Replacing, JoinSteps, RemoveSteps, Working
<1>3. CASE RemoveMachine(p)
  <2>1. /\ pc'[p] = "writeTFVars"
        /\ run'[p] = [run[p] EXCEPT !.machines = @ \ {run[p].target}]
      BY <1>3, GotoWithEffect DEF RemoveMachine
  <2>2. /\ run'[p].phase = run[p].phase /\ run'[p].command = run[p].command
        /\ run'[p].created = new /\ run'[p].target = old
      BY <2>1 DEF Runs
  <2> QED BY <1>3, <2>1, <2>2 DEF RemoveMachine, Replacing, JoinSteps, RemoveSteps, Working
<1>4. ASSUME NEW s \in NodeStates, SetNodeState(old, s), Working(new), new \in Machine, new # old
      PROVE  Working(new) /\ tfstate' = tfstate /\ host' = host /\ etcd' = etcd
             /\ (NodeType[new] # "loadbalancer" => node'[host[new].cp][new] = "ready")
  <2>1. NodeType[new] # "loadbalancer" => host[new].cp \in ControlPlane
      BY <1>4 DEF Working, StoresTypeOK, HostStates
  <2> QED BY <1>4, <2>1 DEF SetNodeState, StoresTypeOK, Working
<1>5. CASE DrainNode(p) \/ DeleteNode(p)
  <2>1. /\ pc[p] \in {"drain", "deleteNode"}
        /\ \E s \in NodeStates : SetNodeState(old, s)
        /\ pc'[p] \in {"reset", "removeMachine"} /\ run'[p] = run[p]
      BY <1>5, GotoEffect DEF DrainNode, AfterDrain, DeleteNode, NodeStates
  <2>2. run[p].phase = "remove"
      BY <2>1 DEF Replacing, JoinSteps
  <2>3. new \in Machine /\ new # old /\ NodeType[new] = NodeType[old] /\ Working(new)
      BY <2>2 DEF Replacing
  <2>4. /\ tfstate' = tfstate /\ host' = host /\ etcd' = etcd
        /\ NodeType[new] # "loadbalancer" => node'[host[new].cp][new] = "ready"
      BY <1>4, <2>1, <2>3
  <2> QED BY <2>1, <2>2, <2>3, <2>4 DEF Replacing, RemoveSteps, Working
<1>6. CASE ResetMachine(p)
  <2>1. /\ pc[p] = "reset" /\ pc'[p] = "deleteNode" /\ run'[p] = run[p]
        /\ KubeadmReset(old) \/ UNCHANGED stores
      BY <1>6, GotoEffect DEF ResetMachine
  <2>2. run[p].phase = "remove"
      BY <2>1 DEF Replacing, JoinSteps
  <2>3. new \in Machine /\ new # old /\ NodeType[new] = NodeType[old] /\ Working(new)
      BY <2>2 DEF Replacing
  <2>4. CASE UNCHANGED stores
      BY <2>1, <2>2, <2>3, <2>4 DEF Replacing, RemoveSteps, Working
  <2>5. CASE KubeadmReset(old)
    <3> DEFINE h == [host EXCEPT ![old] = CleanHost]
               e == [c \in ControlPlane |->
                         IF c = host[old].cp /\ Healthy(c) THEN etcd[c] \ {old} ELSE etcd[c]]
    <3>1. Settle(h, node, e, kubeconfig) /\ tfstate' = tfstate
        BY <2>5 DEF KubeadmReset
    <3>2. h \in [Machine -> HostStates] /\ \A x \in Machine \ {old} : h[x] = host[x]
        BY CleanHostType DEF StoresTypeOK
    <3>3. \A c \in ControlPlane : new \in etcd[c] => new \in e[c]
        BY <2>3
    <3> HIDE DEF h, e
    <3>4. Working(new)'
      <4>1. new' = new
          BY <2>1
      <4> HIDE DEF new, old
      <4>2. old \in Machine \ {new} /\ new \in tfstate'
          BY <1>old, <2>3, <3>1 DEF Working
      <4> QED BY <2>3, <3>1, <3>2, <3>3, <4>1, <4>2, WorkingKept DEF Working
    <3> QED BY <2>1, <2>2, <2>3, <3>4 DEF Replacing, RemoveSteps
  <2> QED BY <2>1, <2>4, <2>5
<1> QED BY <1>1, <1>2, <1>3, <1>5, <1>6

\* Every step of one command at a time.
LEMMA ReplacingNext ==
    ASSUME Exclusive, FewResources
    PROVE  ChangeInv /\ HostInv /\ (\A p \in Client : Replacing(p)) /\ [Next]_vars
               => \A p \in Client : Replacing(p)'
<1> SUFFICES ASSUME ChangeInv, HostInv, \A p \in Client : Replacing(p), [Next]_vars,
                    NEW p \in Client
             PROVE  Replacing(p)'
    OBVIOUS
<1> TypeOK /\ TargetNamed
    BY DEF ChangeInv
<1>1. CASE run'[p].command # "replace"
    BY <1>1 DEF Replacing
<1>2. ASSUME NEW q \in Client, Start(q) PROVE Replacing(p)'
  <2>1. PICK c \in Commands \ {"edit"} : \E t \in Targets(c), s \in FirstStep(c) :
          /\ pc' = [pc EXCEPT ![q] = s]
          /\ run' = [run EXCEPT ![q] =
                         [command |-> c, phase |-> FirstPhase(c), target |-> t,
                          created |-> NoMachine, machines |-> tfvars]]
      BY <1>2, StartRun
  <2>2. CASE p # q
    <3>1. pc[p] = "idle" /\ run'[p] = run[p]
        BY <1>2, <2>1, <2>2 DEF Start, AllIdle, TypeOK
    <3>2. run[p] = NoRun
        BY <3>1 DEF ChangeInv, IdleHoldsNothing
    <3> QED BY <1>1, <3>1, <3>2 DEF NoRun
  <2>3. CASE p = q
    <3>1. /\ run'[p].command = c /\ run'[p].phase = FirstPhase(c) /\ pc'[p] \in FirstStep(c)
        BY <2>1, <2>3 DEF TypeOK
    <3>2. c = "replace" => run'[p].phase = "join" /\ pc'[p] = "plan"
        BY <3>1 DEF FirstPhase, FirstStep
    <3> QED BY <3>1, <3>2 DEF Replacing, JoinSteps
  <2> QED BY <2>2, <2>3
<1>3. ASSUME NEW q \in Client, Step(q) \/ Kill(q), run'[p].command = "replace"
      PROVE  Replacing(p)'
  <2>1. p = q
    <3>1. p # q => run'[p] = run[p] /\ run[p] = NoRun
        BY <1>3, StepIsLocal, StepIsActive DEF ChangeInv, OneCommand, IdleHoldsNothing
    <3> QED BY <1>3, <3>1 DEF NoRun
  <2>2. \A x : ~Return(p, x)
      BY <1>3, ReturnEffect DEF NoRun
  <2>3. Step(p)
      BY <1>3, <2>1, <2>2 DEF Kill
  <2>4. run[p].command = "replace"
    <3>1. Continues(p)
        BY <2>2, <2>3, StepShape DEF Ends
    <3> QED BY <1>3, <3>1, GotoWithEffect DEF Continues
  <2> QED BY <2>2, <2>3, <2>4, ReplacingInfrastructure, ReplacingJoin, ReplacingRemove DEF Step
<1>4. CASE EditTFVars \/ Finished \/ UNCHANGED vars
    BY <1>4 DEF EditTFVars, Finished, vars, stores, Replacing, Fresh, Working
<1> QED BY <1>1, <1>2, <1>3, <1>4 DEF Next

\* With one command at a time in a small cluster, replace takes the old node away only
\* when the new machine is a working member of a control plane, and never harms it while
\* it drains, resets and destroys the old one.
THEOREM NewJoinsBeforeOldLeaves ==
    ASSUME Exclusive, FewResources
    PROVE  Spec => []ReplacementJoinedFirst
<1> DEFINE Inv == ChangeInv /\ HostInv /\ \A p \in Client : Replacing(p)
<1>1. Init => Inv
  <2>1. Init => \A p \in Client : Replacing(p)
      BY DEF Init, Replacing, NoRun
  <2> QED BY <2>1, ChangeInit, HostInit
<1>2. Inv /\ [Next]_vars => Inv'
    BY ChangeNext, HostNext, ReplacingNext
<1>3. Inv => ReplacementJoinedFirst
    BY DEF ReplacementJoinedFirst, Replacing, Working
<1> QED BY <1>1, <1>2, <1>3, PTL DEF Spec

-----------------------------------------------------------------------------
(* The files agree when a command ends well. *)

Playing == {"waitForSSH", "infrastructure", "prepareNodes", "initializeMaster",
            "fetchKubeconfig", "joinCluster", "encryptKubeconfig"}

\* One after the other, terraform apply, infra.json and the inventory catch up with
\* tfvars.json; a command that is under way has not ended.
Agreeing(p) ==
    /\ pc[p] \in {"writeInfra", "openInventory", "writeInventory"} \cup Playing => tfvars = tfstate
    /\ pc[p] \in {"openInventory", "writeInventory"} \cup Playing => infra = tfstate
    /\ pc[p] \in Playing => inventory = tfstate
    /\ pc[p] # "idle" => result[p] = "none"

\* Nothing but the steps of TerraformApply itself changes what they compare.
LEMMA FilesKept ==
    ASSUME ChangeInv, NEW p \in Client, Step(p), pc[p] \in Playing
    PROVE  UNCHANGED <<tfvars, tfstate, infra, inventory>>
<1> USE DEF At, Fail, CommandFails, stores, k8s
<1>1. CASE WaitForSSH(p) \/ Infrastructure(p) \/ PrepareNodes(p)
    BY <1>1 DEF WaitForSSH, Infrastructure, PrepareNodes
<1>2. CASE InitializeMaster(p) \/ FetchAdminConf(p) \/ EncryptKubeconfig(p)
    BY <1>2 DEF InitializeMaster, KubeadmInit, FetchAdminConf, FetchKubeconfig,
                EncryptKubeconfig
<1>3. CASE JoinCluster(p)
    BY <1>3 DEF JoinCluster, KubeadmJoin, KubeadmJoinFailed
<1> QED BY <1>1, <1>2, <1>3
        DEF Playing, Step, WorkspaceApply, PlanNoDiff, AddMachine, CloneMachine, WriteTFVars,
            TerraformApply, WriteInfraJSON, OpenInventory, WriteInventory, NodeExists, DrainNode,
            ResetMachine, DeleteNode, RemoveMachine, KubernetesCleanup, TerraformDestroy

\* What a step of p does to p's result, and where it leads.
LEMMA StepResult ==
    ASSUME TypeOK, TargetNamed, NEW p \in Client, Step(p) \/ Kill(p)
    PROVE  \/ pc'[p] # "idle" /\ result'[p] = result[p]
           \/ pc'[p] = "idle"
<1>1. CASE Continues(p)
    BY <1>1 DEF Continues, GotoWith, TypeOK
<1>2. CASE Ends(p)
    BY <1>2, ReturnEffect DEF Ends
<1> QED BY <1>1, <1>2, StepShape

LEMMA AgreeingStep ==
    ASSUME ChangeInv, NEW p \in Client, Agreeing(p), Step(p)
    PROVE  Agreeing(p)'
<1> TypeOK /\ TargetNamed
    BY DEF ChangeInv
<1>r. pc'[p] # "idle" => result'[p] = "none"
    BY StepResult, StepIsActive DEF Agreeing
<1>e. ASSUME pc'[p] \notin {"writeInfra", "openInventory", "writeInventory"} \cup Playing
      PROVE  Agreeing(p)'
    BY <1>e, <1>r DEF Agreeing
<1> SUFFICES ASSUME pc'[p] \in {"writeInfra", "openInventory", "writeInventory"} \cup Playing
             PROVE  Agreeing(p)'
    BY <1>e
<1>0. ~Fail(p) /\ ~CommandFails(p) /\ \A x : ~Return(p, x)
    BY ReturnEffect DEF Fail, CommandFails, Playing
<1>g. /\ \A s : Goto(p, s) => pc'[p] = s
      /\ \A s, r : GotoWith(p, s, r) => pc'[p] = s
    BY GotoEffect, GotoWithEffect
<1> USE DEF At
<1>1. CASE pc[p] \in Playing
  <2>1. pc'[p] \notin {"writeInfra", "openInventory", "writeInventory"}
    <3>1. ~Joined(p)
        BY <1>0, <1>g DEF Joined, Playing
    <3>2. CASE WaitForSSH(p) \/ Infrastructure(p) \/ PrepareNodes(p)
        BY <1>0, <1>g, <3>1, <3>2 DEF WaitForSSH, Infrastructure, PrepareNodes
    <3>3. CASE InitializeMaster(p) \/ FetchAdminConf(p) \/ EncryptKubeconfig(p)
        BY <1>0, <1>g, <3>3 DEF InitializeMaster, FetchAdminConf, EncryptKubeconfig
    <3>4. CASE JoinCluster(p)
        BY <1>0, <1>g, <3>1, <3>4 DEF JoinCluster, AfterJoinCluster
    <3> QED BY <1>1, <3>2, <3>3, <3>4
            DEF Playing, Step, WorkspaceApply, PlanNoDiff, AddMachine, CloneMachine,
                WriteTFVars, TerraformApply, WriteInfraJSON, OpenInventory, WriteInventory,
                NodeExists, DrainNode, ResetMachine, DeleteNode, RemoveMachine,
                KubernetesCleanup, TerraformDestroy
  <2> QED BY <1>1, <1>r, <2>1, FilesKept DEF Agreeing
<1>2. CASE TerraformApply(p)
  <2>1. tfvars' = tfvars /\ tfstate' = tfvars /\ pc'[p] = "writeInfra"
      BY <1>0, <1>2, <1>g DEF TerraformApply, TerraformApplied, Provision
  <2> QED BY <1>r, <2>1 DEF Agreeing, Playing
<1>3. CASE WriteInfraJSON(p)
  <2>1. UNCHANGED <<tfvars, tfstate>> /\ infra' = tfstate /\ pc'[p] = "openInventory"
        /\ pc[p] = "writeInfra"
      BY <1>0, <1>3, <1>g DEF WriteInfraJSON
  <2> QED BY <1>r, <2>1 DEF Agreeing, Playing
<1>4. CASE OpenInventory(p)
  <2>1. UNCHANGED <<tfvars, tfstate, infra>> /\ pc'[p] = "writeInventory"
        /\ pc[p] = "openInventory"
      BY <1>4, <1>g DEF OpenInventory
  <2> QED BY <1>r, <2>1 DEF Agreeing, Playing
<1>5. CASE WriteInventory(p)
  <2>1. UNCHANGED <<tfvars, tfstate, infra>> /\ inventory' = tfstate /\ pc[p] = "writeInventory"
        /\ pc'[p] \in Playing
      BY <1>0, <1>5, <1>g DEF WriteInventory, AfterTerraformApply, Playing
  <2> QED BY <1>r, <2>1 DEF Agreeing, Playing
<1>6. CASE WorkspaceApply(p) \/ PlanNoDiff(p) \/ WriteTFVars(p)
    BY <1>0, <1>6, <1>g DEF WorkspaceApply, PlanNoDiff, WriteTFVars, Playing
<1>7. CASE AddMachine(p) \/ CloneMachine(p)
    BY <1>0, <1>7, <1>g DEF AddMachine, CloneMachine, Configured, Playing
<1>8. CASE NodeExists(p) \/ DrainNode(p) \/ ResetMachine(p) \/ DeleteNode(p) \/ RemoveMachine(p)
           \/ KubernetesCleanup(p) \/ TerraformDestroy(p)
    BY <1>0, <1>8, <1>g DEF NodeExists, DrainNode, AfterDrain, ResetMachine, DeleteNode,
       RemoveMachine, KubernetesCleanup, TerraformDestroy, Playing
<1> QED BY <1>1, <1>2, <1>3, <1>4, <1>5, <1>6, <1>7, <1>8
        DEF Step, WaitForSSH, Infrastructure, PrepareNodes, InitializeMaster, FetchAdminConf,
            JoinCluster, EncryptKubeconfig, Playing

LEMMA AgreeingNext ==
    ASSUME Exclusive
    PROVE  ChangeInv /\ (\A p \in Client : Agreeing(p)) /\ [Next]_vars
               => \A p \in Client : Agreeing(p)'
<1> SUFFICES ASSUME ChangeInv, \A p \in Client : Agreeing(p), [Next]_vars, NEW p \in Client
             PROVE  Agreeing(p)'
    OBVIOUS
<1> TypeOK /\ TargetNamed
    BY DEF ChangeInv
<1>i. pc'[p] = "idle" => Agreeing(p)'
    BY DEF Agreeing, Playing
<1>1. ASSUME NEW q \in Client, Start(q) PROVE Agreeing(p)'
  <2>1. p # q => pc'[p] = "idle"
      BY <1>1 DEF Start, AllIdle, TypeOK
  <2>2. CASE p = q
    <3>1. result'[p] = "none"
        BY <1>1, <2>2 DEF Start, TypeOK
    <3>2. PICK c \in Commands \ {"edit"} : \E t \in Targets(c), s \in FirstStep(c) :
             pc' = [pc EXCEPT ![p] = s]
        BY <1>1, <2>2, StartRun
    <3>3. pc'[p] \in FirstStep(c)
        BY <3>2 DEF TypeOK
    <3>4. pc'[p] \notin {"writeInfra", "openInventory", "writeInventory"} \cup Playing
        BY <3>3 DEF FirstStep, Commands, Playing
    <3> QED BY <3>1, <3>4 DEF Agreeing
  <2> QED BY <1>i, <2>1, <2>2
<1>2. ASSUME NEW q \in Client, Step(q) \/ Kill(q) PROVE Agreeing(p)'
  <2>1. CASE p # q
    <3>1. pc[p] = "idle" /\ pc'[p] = pc[p]
        BY <1>2, <2>1, StepIsActive, StepIsLocal DEF ChangeInv, OneCommand
    <3> QED BY <1>i, <3>1
  <2>2. CASE p = q /\ Kill(p)
      BY <1>i, <2>2, ReturnEffect DEF Kill
  <2>3. CASE p = q /\ Step(p)
      BY <2>3, AgreeingStep
  <2> QED BY <1>2, <2>1, <2>2, <2>3
<1>3. CASE EditTFVars
  <2>1. pc'[p] = "idle"
      BY <1>3 DEF EditTFVars, AllIdle
  <2> QED BY <1>i, <2>1
<1>4. CASE Finished \/ UNCHANGED vars
    BY <1>4 DEF Finished, vars, stores, Agreeing
<1> QED BY <1>1, <1>2, <1>3, <1>4 DEF Next

\* Of the steps that end well, those of Apply, Join, RemoveNode and terraform apply come
\* after the inventory was written.
LEMMA EndsWellAgreed ==
    ASSUME ChangeInv, NEW p \in Client, Agreeing(p), Step(p), pc'[p] = "idle",
           result'[p] = "ok", run[p].phase \in {"apply", "join", "remove", "terraform"}
    PROVE  tfvars' = tfstate' /\ inventory' = tfstate' /\ infra' = tfstate'
<1> TypeOK /\ TargetNamed /\ Ordered(p)
    BY DEF ChangeInv
<1>0. ~Fail(p) /\ ~CommandFails(p) /\ ~Return(p, "error")
    BY DEF Fail, CommandFails, Return, TypeOK
<1>g. /\ \A s : Goto(p, s) => s = "idle"
      /\ \A s, r : GotoWith(p, s, r) => s = "idle"
    BY GotoEffect, GotoWithEffect
<1> USE DEF At
<1>1. CASE pc[p] \in Playing
    BY <1>1, FilesKept DEF Agreeing
<1>2. CASE WriteInventory(p)
    BY <1>0, <1>2 DEF WriteInventory, Agreeing
<1>3. CASE WorkspaceApply(p) \/ PlanNoDiff(p) \/ WriteTFVars(p) \/ TerraformApply(p)
           \/ WriteInfraJSON(p) \/ OpenInventory(p)
    BY <1>0, <1>3, <1>g
    DEF WorkspaceApply, PlanNoDiff, WriteTFVars, TerraformApply, WriteInfraJSON, OpenInventory
<1>4. CASE AddMachine(p) \/ CloneMachine(p)
    BY <1>0, <1>4, <1>g DEF AddMachine, CloneMachine, Configured
<1>5. CASE NodeExists(p) \/ DrainNode(p) \/ ResetMachine(p) \/ DeleteNode(p)
  <2>1. run[p].phase = "remove"
      BY <1>5 DEF NodeExists, DrainNode, ResetMachine, DeleteNode, Ordered, MethodSteps
  <2> QED BY <1>0, <1>5, <1>g, <2>1 DEF NodeExists, DrainNode, AfterDrain, ResetMachine, DeleteNode
<1>6. CASE RemoveMachine(p) \/ KubernetesCleanup(p) \/ TerraformDestroy(p)
    BY <1>0, <1>6, <1>g DEF RemoveMachine, KubernetesCleanup, TerraformDestroy, Ordered, MethodSteps
<1> QED BY <1>1, <1>2, <1>3, <1>4, <1>5, <1>6
        DEF Step, WaitForSSH, Infrastructure, PrepareNodes, InitializeMaster, FetchAdminConf,
            JoinCluster, EncryptKubeconfig, Playing

\* With one command at a time, the four places that list the machines of the cluster agree
\* when a command that runs TerraformApply (client/cluster.go) ends well.
THEOREM FilesAgree ==
    ASSUME Exclusive
    PROVE  Spec => CompletedCommandsAgree
<1> DEFINE Agree == \A p \in Client : Agreeing(p)
<1>1. Init => ChangeInv /\ Agree
    BY ChangeInit DEF Init, Agreeing, Playing
<1>2. ChangeInv /\ Agree /\ [Next]_vars => ChangeInv' /\ Agree'
    BY ChangeNext, AgreeingNext
<1>3. ChangeInv /\ Agree /\ [Next]_vars =>
        [\A p \in Client :
            Completes(p) /\ run[p].phase \in {"apply", "join", "remove", "terraform"}
                => tfvars' = tfstate' /\ inventory' = tfstate' /\ infra' = tfstate']_vars
  <2> SUFFICES ASSUME ChangeInv, Agree, [Next]_vars, NEW p \in Client, Completes(p),
                      run[p].phase \in {"apply", "join", "remove", "terraform"}
               PROVE  tfvars' = tfstate' /\ inventory' = tfstate' /\ infra' = tfstate'
      OBVIOUS
  <2> TypeOK /\ TargetNamed
      BY DEF ChangeInv
  <2>0. pc'[p] # pc[p] /\ result'[p] = "ok"
      BY DEF Completes, Moves
  <2>1. pc[p] # "idle"
      BY DEF ChangeInv, IdleHoldsNothing, NoRun
  <2>2. ~EditTFVars /\ ~Finished /\ ~UNCHANGED vars /\ \A q \in Client : ~Start(q)
      BY <2>0, <2>1 DEF EditTFVars, Finished, vars, Start, AllIdle
  <2>3. PICK q \in Client : Step(q) \/ Kill(q)
      BY <2>2 DEF Next
  <2>4. p = q
      BY <2>0, <2>3, StepIsLocal
  <2>5. ~Kill(p)
      BY <2>0 DEF Kill, Return, TypeOK
  <2>6. pc'[p] = "idle"
      BY <2>0, <2>1, <2>3, <2>4, StepResult DEF Agreeing
  <2> QED BY <2>0, <2>3, <2>4, <2>5, <2>6, EndsWellAgreed
<1> QED BY <1>1, <1>2, <1>3, PTL DEF Spec, CompletedCommandsAgree

-----------------------------------------------------------------------------
(* What the rest of the proofs is about: one client at work. *)

\* A client that is at work after a step of the system has just started, has taken a
\* step of its own that did not end its command, or nothing has happened.
LEMMA OneAtWork ==
    ASSUME Exclusive, ChangeInv, [Next]_vars, NEW p \in Client, pc'[p] # "idle"
    PROVE  \/ Step(p) /\ pc[p] # "idle" /\ ~Fail(p) /\ ~CommandFails(p) /\ \A x : ~Return(p, x)
           \/ /\ UNCHANGED stores
              /\ pc'[p] \in {"workspace", "plan", "reset", "drain", "writeTFVars", "cleanup",
                             "terraformDestroy"}
              /\ run'[p].phase = "apply" => pc'[p] = "workspace"
              /\ run'[p].phase \in {"join", "remove"} => pc'[p] = "plan"
           \/ UNCHANGED vars
<1> TypeOK /\ TargetNamed
    BY DEF ChangeInv
<1>1. ASSUME NEW q \in Client, Start(q)
      PROVE  /\ UNCHANGED stores
             /\ pc'[p] \in {"workspace", "plan", "reset", "drain", "writeTFVars", "cleanup",
                            "terraformDestroy"}
             /\ run'[p].phase = "apply" => pc'[p] = "workspace"
             /\ run'[p].phase \in {"join", "remove"} => pc'[p] = "plan"
  <2>1. PICK c \in Commands \ {"edit"} : \E t \in Targets(c), s \in FirstStep(c) :
          /\ pc' = [pc EXCEPT ![q] = s]
          /\ run' = [run EXCEPT ![q] =
                         [command |-> c, phase |-> FirstPhase(c), target |-> t,
                          created |-> NoMachine, machines |-> tfvars]]
          /\ UNCHANGED stores
      BY <1>1, StartRun
  <2>2. p = q
      BY <1>1, <2>1 DEF Start, AllIdle, TypeOK
  <2>3. pc'[p] \in FirstStep(c) /\ run'[p].phase = FirstPhase(c)
      BY <2>1, <2>2 DEF TypeOK
  <2> QED BY <2>1, <2>3 DEF Commands, FirstStep, FirstPhase
<1>2. ASSUME NEW q \in Client, Step(q) \/ Kill(q)
      PROVE  Step(p) /\ pc[p] # "idle" /\ ~Fail(p) /\ ~CommandFails(p) /\ \A x : ~Return(p, x)
  <2>1. p = q /\ pc[p] # "idle"
      BY <1>2, StepIsActive, StepIsLocal DEF ChangeInv, OneCommand
  <2>2. \A x : ~Return(p, x)
      BY ReturnEffect
  <2> QED BY <1>2, <2>1, <2>2 DEF Kill, Fail, CommandFails
<1>3. ~EditTFVars
    BY DEF EditTFVars, AllIdle
<1> QED BY <1>1, <1>2, <1>3 DEF Next, Finished

\* A command that ends well does so by a step of its client.
LEMMA Completion ==
    ASSUME ChangeInv, [Next]_vars, NEW p \in Client, Agreeing(p), Completes(p)
    PROVE  /\ Step(p) /\ pc'[p] = "idle" /\ result'[p] = "ok"
           /\ ~Fail(p) /\ ~CommandFails(p) /\ ~Return(p, "error")
           /\ \A s : Goto(p, s) => s = "idle"
           /\ \A s, r : GotoWith(p, s, r) => s = "idle"
<1> TypeOK /\ TargetNamed
    BY DEF ChangeInv
<1>0. pc'[p] # pc[p] /\ result'[p] = "ok"
    BY DEF Completes, Moves
<1>1. CASE pc[p] = "idle"
  <2>1. ~EditTFVars /\ ~Finished /\ ~UNCHANGED vars
      BY <1>0 DEF EditTFVars, Finished, vars
  <2>2. ASSUME NEW q \in Client, Step(q) \/ Kill(q) PROVE FALSE
      BY <1>0, <1>1, <2>2, StepIsActive, StepIsLocal
  <2>3. ASSUME NEW q \in Client, Start(q) PROVE FALSE
    <3>1. pc' = [pc EXCEPT ![q] = pc'[q]] /\ result' = [result EXCEPT ![q] = "none"]
        BY <2>3 DEF Start, TypeOK
    <3> QED BY <1>0, <3>1 DEF TypeOK
  <2> QED BY <2>1, <2>2, <2>3 DEF Next
<1>2. CASE pc[p] # "idle"
  <2>1. ~EditTFVars /\ ~Finished /\ ~UNCHANGED vars
      BY <1>0 DEF EditTFVars, Finished, vars
  <2>2. ASSUME NEW q \in Client, Start(q) PROVE Step(p)
      BY <1>0, <1>2, <2>2 DEF Start, TypeOK
  <2>3. ASSUME NEW q \in Client, Step(q) \/ Kill(q) PROVE Step(p)
    <3>1. p = q
        BY <1>0, <2>3, StepIsLocal
    <3> QED BY <1>0, <2>3, <3>1 DEF Kill, Return, TypeOK
  <2>4. Step(p)
      BY <2>1, <2>2, <2>3 DEF Next
  <2>5. pc'[p] = "idle"
      BY <1>0, <1>2, <2>4, StepResult DEF Agreeing
  <2>6. ~Return(p, "error")
      BY <1>0 DEF Return, TypeOK
  <2> QED BY <1>0, <2>4, <2>5, <2>6, GotoEffect, GotoWithEffect DEF Fail, CommandFails
<1> QED BY <1>1, <1>2

\* The steps with which Apply, Join and RemoveNode end well.
LEMMA LastSteps ==
    ASSUME ChangeInv, [Next]_vars, NEW p \in Client, Agreeing(p), Completes(p)
    PROVE  /\ run[p].phase = "apply" => /\ EncryptKubeconfig(p)
                                        /\ kubeconfig.state = "plaintext"
           /\ run[p].phase = "join" => \/ JoinCluster(p) /\ CloudProvider # "safespring"
                                       \/ Infrastructure(p)
           /\ run[p].phase = "remove" => \/ WriteInventory(p) /\ CloudProvider # "safespring"
                                         \/ Infrastructure(p)
<1> TypeOK /\ TargetNamed /\ Ordered(p)
    BY DEF ChangeInv
<1> USE Completion DEF At
<1>1. ~WorkspaceApply(p) /\ ~PlanNoDiff(p) /\ ~WriteTFVars(p) /\ ~TerraformApply(p)
      /\ ~WriteInfraJSON(p) /\ ~OpenInventory(p) /\ ~WaitForSSH(p) /\ ~PrepareNodes(p)
      /\ ~InitializeMaster(p) /\ ~FetchAdminConf(p)
    BY DEF WorkspaceApply, PlanNoDiff, WriteTFVars, TerraformApply, WriteInfraJSON, OpenInventory,
           WaitForSSH, PrepareNodes, InitializeMaster, FetchAdminConf
<1>2. ~AddMachine(p) /\ ~CloneMachine(p) /\ ~NodeExists(p) /\ ~RemoveMachine(p)
      /\ ~KubernetesCleanup(p)
    BY DEF AddMachine, CloneMachine, Configured, NodeExists, RemoveMachine, KubernetesCleanup
<1>3. CASE WriteInventory(p)
    BY <1>3 DEF WriteInventory, AfterTerraformApply
<1>4. CASE JoinCluster(p)
  <2>1. run[p].phase = "join" /\ CloudProvider # "safespring"
      BY <1>4 DEF JoinCluster, AfterJoinCluster, Ordered, MethodSteps
  <2> QED BY <1>4, <2>1
<1>5. CASE Infrastructure(p)
    BY <1>5 DEF Infrastructure
<1>6. CASE EncryptKubeconfig(p)
  <2>1. run[p].phase = "apply" /\ kubeconfig.state = "plaintext"
      BY <1>6 DEF EncryptKubeconfig, Ordered, MethodSteps
  <2> QED BY <1>6, <2>1
<1>7. CASE DrainNode(p) \/ ResetMachine(p) \/ DeleteNode(p) \/ TerraformDestroy(p)
  <2>1. run[p].phase \notin {"apply", "join", "remove"}
      BY <1>7 DEF DrainNode, AfterDrain, ResetMachine, DeleteNode, TerraformDestroy,
                  Ordered, MethodSteps
  <2> QED BY <2>1
<1> QED BY <1>1, <1>2, <1>3, <1>4, <1>5, <1>6, <1>7 DEF Step

\* The order of the playbooks of Apply: what leads to each of them, with the same memory.
LEMMA PlaybookOrder ==
    ASSUME ChangeInv, NEW p \in Client, Step(p), run'[p].phase = "apply",
           pc'[p] \in {"prepareNodes", "initializeMaster", "fetchKubeconfig", "joinCluster",
                      "encryptKubeconfig"}
    PROVE  /\ run'[p] = run[p] /\ run[p].phase = "apply"
           /\ ~Fail(p) /\ ~CommandFails(p) /\ \A x : ~Return(p, x)
           /\ UNCHANGED <<tfvars, tfstate, infra, inventory>>
           /\ Goto(p, pc'[p])
           /\ pc[p] # "infrastructure" => UNCHANGED balancer
           /\ \/ /\ pc'[p] = "prepareNodes"
                 /\ Infrastructure(p) \/ (WaitForSSH(p) /\ CloudProvider # "safespring")
              \/ pc'[p] = "initializeMaster" /\ PrepareNodes(p)
              \/ pc'[p] = "fetchKubeconfig" /\ InitializeMaster(p)
              \/ pc'[p] = "joinCluster" /\ (FetchAdminConf(p) \/ InitializeMaster(p))
              \/ pc'[p] = "encryptKubeconfig" /\ JoinCluster(p)
<1> TypeOK /\ TargetNamed /\ Ordered(p) /\ run[p] \in Runs
    BY DEF ChangeInv, TypeOK
<1>0. ~Fail(p) /\ ~CommandFails(p) /\ \A x : ~Return(p, x)
    BY ReturnEffect DEF Fail, CommandFails
<1>g. /\ \A s : Goto(p, s) => pc'[p] = s /\ run'[p] = run[p]
      /\ \A s, r : GotoWith(p, s, r) => pc'[p] = s
    BY GotoEffect, GotoWithEffect
<1> USE <1>0, <1>g DEF At, stores, k8s
<1>1. ~Joined(p) /\ \A m : ~Configured(p, m)
    BY DEF Joined, Configured
<1>2. ~AfterTerraformApply(p)
    BY DEF AfterTerraformApply
<1>3. ~WorkspaceApply(p) /\ ~PlanNoDiff(p) /\ ~WriteTFVars(p) /\ ~TerraformApply(p)
      /\ ~WriteInfraJSON(p) /\ ~OpenInventory(p) /\ ~WriteInventory(p)
    BY <1>2 DEF WorkspaceApply, PlanNoDiff, WriteTFVars, TerraformApply, WriteInfraJSON,
                OpenInventory, WriteInventory
<1>4. ~AddMachine(p) /\ ~CloneMachine(p)
    BY <1>1 DEF AddMachine, CloneMachine
<1>5. ~(\/ NodeExists(p) \/ DrainNode(p) \/ ResetMachine(p) \/ DeleteNode(p) \/ RemoveMachine(p)
        \/ KubernetesCleanup(p) \/ TerraformDestroy(p) \/ EncryptKubeconfig(p))
    BY DEF NodeExists, DrainNode, AfterDrain, ResetMachine, DeleteNode, RemoveMachine,
           KubernetesCleanup, TerraformDestroy, EncryptKubeconfig
<1>6. CASE WaitForSSH(p)
    BY <1>6 DEF WaitForSSH
<1>7. CASE Infrastructure(p)
    BY <1>1, <1>7 DEF Infrastructure
<1>8. CASE PrepareNodes(p)
    BY <1>8 DEF PrepareNodes
<1>9. CASE InitializeMaster(p)
  <2>1. UNCHANGED <<tfvars, tfstate, infra, inventory, balancer>>
      BY <1>9 DEF InitializeMaster, KubeadmInit
  <2> QED BY <1>9, <2>1 DEF InitializeMaster
<1>10. CASE FetchAdminConf(p)
    BY <1>10 DEF FetchAdminConf, FetchKubeconfig
<1>11. CASE JoinCluster(p)
  <2>1. AfterJoinCluster(p) /\ UNCHANGED <<tfvars, tfstate, infra, inventory, balancer>>
      BY <1>11 DEF JoinCluster, KubeadmJoin
  <2>2. run[p].phase \in {"apply", "join"} => Goto(p, "encryptKubeconfig")
      BY <1>1, <2>1 DEF AfterJoinCluster
  <2>3. run[p].phase \in {"apply", "join"}
      BY <1>11 DEF JoinCluster, Ordered, MethodSteps
  <2> QED BY <1>11, <2>1, <2>2, <2>3
<1> QED BY <1>3, <1>4, <1>5, <1>6, <1>7, <1>8, <1>9, <1>10, <1>11 DEF Step

-----------------------------------------------------------------------------
(* The load balancers. *)

\* Only Safespring has load balancers that ck8s configures itself (ansible/infrastructure.yml).
BalancersOnSafespring == LoadBalancers(Machine) # {} => CloudProvider = "safespring"

\* From the first playbook of Apply on, the load balancers know the nodes that exist.
Balanced(p) ==
    /\ run[p].phase = "apply"
    /\ pc[p] \in {"prepareNodes", "initializeMaster", "fetchKubeconfig", "joinCluster",
                  "encryptKubeconfig"}
    /\ LoadBalancers(tfstate) # {}
    => balancer = K8sNodes(tfstate)

\* The infrastructure playbook gives the load balancers of the inventory its nodes.
LEMMA InfrastructureBalances ==
    ASSUME ChangeInv, NEW p \in Client, Infrastructure(p), ~Fail(p), ~CommandFails(p)
    PROVE  /\ tfstate' = tfstate
           /\ LoadBalancers(tfstate) # {} => balancer' = K8sNodes(tfstate)
<1>1. inventory = tfstate
    BY DEF Infrastructure, At, ChangeInv, Ordered, Rendered
<1> QED BY <1>1 DEF Infrastructure

LEMMA BalancedNext ==
    ASSUME Exclusive, BalancersOnSafespring
    PROVE  ChangeInv /\ (\A p \in Client : Balanced(p)) /\ [Next]_vars
               => \A p \in Client : Balanced(p)'
<1> SUFFICES ASSUME ChangeInv, \A p \in Client : Balanced(p), [Next]_vars, NEW p \in Client,
                    run'[p].phase = "apply",
                    pc'[p] \in {"prepareNodes", "initializeMaster", "fetchKubeconfig",
                               "joinCluster", "encryptKubeconfig"},
                    LoadBalancers(tfstate') # {}
             PROVE  balancer' = K8sNodes(tfstate')
    BY DEF Balanced, LoadBalancers, K8sNodes, Masters, Workers
<1> Balanced(p) /\ TypeOK'
    BY NextType DEF ChangeInv
<1>s. CloudProvider = "safespring"
    BY DEF BalancersOnSafespring, LoadBalancers, TypeOK, StoresTypeOK
<1>1. CASE UNCHANGED vars
    BY <1>1 DEF vars, stores, Balanced
<1>2. CASE Step(p)
  <2>1. /\ UNCHANGED tfstate /\ run'[p] = run[p]
        /\ pc[p] # "infrastructure" => UNCHANGED balancer
        /\ ~Fail(p) /\ ~CommandFails(p)
      BY <1>2, PlaybookOrder
  <2>2. CASE Infrastructure(p)
      BY <2>1, <2>2, InfrastructureBalances
  <2>3. CASE ~Infrastructure(p)
    <3>1. pc[p] \in {"prepareNodes", "initializeMaster", "fetchKubeconfig", "joinCluster"}
        BY <1>2, <1>s, <2>3, PlaybookOrder
        DEF PrepareNodes, InitializeMaster, FetchAdminConf, JoinCluster, At
    <3> QED BY <2>1, <3>1 DEF Balanced
  <2> QED BY <2>2, <2>3
<1> QED BY <1>1, <1>2, OneAtWork

\* With one command at a time, the load balancers of Safespring send traffic to exactly
\* the nodes that exist when a command that ends with the infrastructure playbook
\* (client/cluster.go) ends well.
THEOREM BalancersFollow ==
    ASSUME Exclusive, BalancersOnSafespring
    PROVE  Spec => BalancerSeesNodes
<1> DEFINE Agree == \A p \in Client : Agreeing(p)
           Balance == \A p \in Client : Balanced(p)
<1>1. Init => ChangeInv /\ Agree /\ Balance
  <2>1. Init => Agree /\ Balance
      BY DEF Init, Agreeing, Playing, Balanced
  <2> QED BY <2>1, ChangeInit
<1>2. ChangeInv /\ Agree /\ Balance /\ [Next]_vars => ChangeInv' /\ Agree' /\ Balance'
    BY ChangeNext, AgreeingNext, BalancedNext
<1>3. ChangeInv /\ Agree /\ Balance /\ [Next]_vars =>
        [\A p \in Client :
            Completes(p) /\ run[p].phase \in {"apply", "join", "remove"}
                => (LoadBalancers(tfstate') # {} => balancer' = K8sNodes(tfstate'))]_vars
  <2> SUFFICES ASSUME ChangeInv, Agree, Balance, [Next]_vars, NEW p \in Client, Completes(p),
                      run[p].phase \in {"apply", "join", "remove"},
                      LoadBalancers(tfstate') # {}
               PROVE  balancer' = K8sNodes(tfstate')
      OBVIOUS
  <2> Agreeing(p) /\ Balanced(p) /\ TypeOK'
      BY NextType DEF ChangeInv
  <2>1. CloudProvider = "safespring"
      BY DEF BalancersOnSafespring, LoadBalancers, TypeOK, StoresTypeOK
  <2>2. CASE Infrastructure(p)
      BY <2>2, Completion, InfrastructureBalances
  <2>3. CASE ~Infrastructure(p)
    <3>1. EncryptKubeconfig(p) /\ run[p].phase = "apply"
        BY <2>1, <2>3, LastSteps
    <3> QED BY <3>1 DEF EncryptKubeconfig, At, Balanced
  <2> QED BY <2>2, <2>3
<1> QED BY <1>1, <1>2, <1>3, PTL DEF Spec, BalancerSeesNodes

-----------------------------------------------------------------------------
(* What Apply does for kubectl. *)

\* The first master of the inventory is the first of those that are initialised, when it
\* is one of them.
LEMMA FirstStaysFirst ==
    ASSUME StoresTypeOK, Masters(inventory) # {}, host[Min(Masters(inventory))].admin
    PROVE  /\ Min(Masters(inventory)) \in Masters(inventory)
           /\ ActiveMasters # {}
           /\ Min(ActiveMasters) = Min(Masters(inventory))
<1>1. Masters(inventory) \in SUBSET Nat /\ ActiveMasters \in SUBSET Masters(inventory)
    BY MachineAssumption DEF StoresTypeOK, Masters, ActiveMasters
<1>2. /\ Min(Masters(inventory)) \in Masters(inventory)
      /\ \A y \in Masters(inventory) : Min(Masters(inventory)) <= y
    BY <1>1, MinIsLeast
<1>3. Min(Masters(inventory)) \in ActiveMasters
    BY <1>2 DEF ActiveMasters
<1>4. Min(ActiveMasters) \in ActiveMasters /\ \A y \in ActiveMasters : Min(ActiveMasters) <= y
  <2>1. ActiveMasters \in SUBSET Nat /\ ActiveMasters # {}
      BY <1>1, <1>3
  <2> HIDE DEF ActiveMasters
  <2> QED BY <2>1, MinIsLeast
<1>5. /\ Min(ActiveMasters) <= Min(Masters(inventory))
      /\ Min(Masters(inventory)) <= Min(ActiveMasters)
    BY <1>1, <1>2, <1>3, <1>4
<1>6. Min(ActiveMasters) \in Nat /\ Min(Masters(inventory)) \in Nat
    BY <1>1, <1>2, <1>4
<1>7. Min(ActiveMasters) = Min(Masters(inventory))
    BY <1>5, <1>6
<1> QED BY <1>2, <1>3, <1>7

\* A part of a finite set is finite and no larger.
LEMMA PartOfFinite ==
    ASSUME NEW S, IsFiniteSet(S), NEW T, T \subseteq S
    PROVE  IsFiniteSet(T) /\ Cardinality(T) \in Nat /\ Cardinality(T) <= Cardinality(S)
<1>1. IsFiniteSet(T) /\ Cardinality(T) <= Cardinality(S)
  <2>1. T \in SUBSET S
      OBVIOUS
  <2> QED BY <2>1, FS_Subset
<1>2. Cardinality(T) \in Nat
    BY <1>1, FS_CardinalityType
<1> QED BY <1>1, <1>2

\* New members that run do not cost a majority.
LEMMA JoinKeepsMajority ==
    ASSUME NEW E, IsFiniteSet(E), NEW R \in SUBSET E, NEW J, IsFiniteSet(J),
           2 * Cardinality(R) > Cardinality(E),
           NEW S \in SUBSET (E \cup J), R \cup J \subseteq S
    PROVE  2 * Cardinality(S) > Cardinality(E \cup J)
<1>1. PICK D : D = J \ E
    OBVIOUS
<1>2. /\ IsFiniteSet(D) /\ Cardinality(D) \in Nat
      /\ IsFiniteSet(R) /\ Cardinality(R) \in Nat
      /\ Cardinality(E) \in Nat
  <2>1. D \subseteq J /\ R \subseteq E /\ E \subseteq E
      BY <1>1
  <2> QED BY <2>1, PartOfFinite
<1>3. E \cap D = {} /\ R \cap D = {} /\ E \cup J = E \cup D /\ R \cup D \in SUBSET S
    BY <1>1
<1>4. ASSUME NEW X, IsFiniteSet(X), Cardinality(X) \in Nat, X \cap D = {}
      PROVE  IsFiniteSet(X \cup D) /\ Cardinality(X \cup D) = Cardinality(X) + Cardinality(D)
  <2>1. /\ IsFiniteSet(X \cup D)
        /\ Cardinality(X \cup D) = Cardinality(X) + Cardinality(D) - Cardinality(X \cap D)
      BY <1>2, <1>4, FS_Union
  <2>2. Cardinality(X \cap D) = 0
      BY <1>4, FS_EmptySet
  <2> QED BY <1>2, <1>4, <2>1, <2>2
<1>5. /\ IsFiniteSet(E \cup D)
      /\ Cardinality(E \cup D) = Cardinality(E) + Cardinality(D)
      /\ Cardinality(R \cup D) = Cardinality(R) + Cardinality(D)
    BY <1>2, <1>3, <1>4
<1>6. IsFiniteSet(S) /\ Cardinality(S) \in Nat
  <2>1. S \subseteq E \cup D
      BY <1>3
  <2> QED BY <1>5, <2>1, PartOfFinite
<1>7. Cardinality(R \cup D) <= Cardinality(S)
  <2>1. R \cup D \subseteq S
      BY <1>3
  <2> QED BY <1>6, <2>1, PartOfFinite
<1>8. Cardinality(E \cup J) = Cardinality(E) + Cardinality(D)
  <2>1. E \cup J = E \cup D
      BY <1>3
  <2> QED BY <1>5, <2>1
<1>9. Cardinality(R) + Cardinality(D) <= Cardinality(S)
    BY <1>5, <1>7
<1> QED BY <1>2, <1>6, <1>8, <1>9

\* kubeadm init that succeeds leaves a control plane that answers.
LEMMA InitYieldsHealthy ==
    ASSUME StoresTypeOK, NEW m \in Machine, KubeadmInit(m, TRUE)
    PROVE  \E c \in ControlPlane : host'[m].admin /\ host'[m].cp = c /\ Healthy(c)'
<1>1. PICK c \in ControlPlane :
        /\ host' = [host EXCEPT ![m] = [admin |-> TRUE, kubelet |-> TRUE, cp |-> c]]
        /\ etcd' = [etcd EXCEPT ![c] = {m}]
    BY DEF KubeadmInit
<1>2. host'[m].cp = c /\ host'[m].admin /\ etcd'[c] = {m}
    BY <1>1 DEF StoresTypeOK
<1>3. RunningMembers(c)' = {m}
    BY <1>2 DEF RunningMembers
<1>4. Cardinality({m}) = 1
    BY FS_Singleton
<1>5. c # NoControlPlane
    BY ControlPlaneAssumption
<1>6. Healthy(c)'
    BY <1>2, <1>3, <1>4, <1>5 DEF Healthy
<1> QED BY <1>2, <1>6

\* kubeadm join of masters and workers leaves a control plane that answered answering.
LEMMA JoinKeepsHealthy ==
    ASSUME StoresTypeOK, NEW c \in ControlPlane, Healthy(c), NEW J \in SUBSET Machine,
           KubeadmJoin(c, J, {}, {}, {})
    PROVE  Healthy(c)'
<1>1. PICK M : M = Masters(J)
    OBVIOUS
<1>2. etcd'[c] = etcd[c] \cup M
    BY <1>1 DEF KubeadmJoin, StoresTypeOK
<1>3. \A x \in Machine : /\ x \in J => host'[x].cp = c
                         /\ x \notin J => host'[x] = host[x]
  <2>1. host' = [m \in Machine |->
                    IF m \in J \cup {}
                    THEN [admin |-> NodeType[m] = "master", kubelet |-> m \in J \cup {}, cp |-> c]
                    ELSE host[m]]
      BY Zenon DEF KubeadmJoin
  <2>2. ASSUME NEW x \in Machine, x \in J PROVE host'[x].cp = c
    <3>1. host'[x] = [admin |-> NodeType[x] = "master", kubelet |-> x \in J \cup {}, cp |-> c]
        BY <2>1, <2>2, Zenon
    <3> QED BY <3>1
  <2>3. ASSUME NEW x \in Machine, x \notin J PROVE host'[x] = host[x]
      BY <2>1, <2>3, Zenon
  <2> QED BY <2>2, <2>3
<1>4. etcd[c] \subseteq Machine /\ M \subseteq J
    BY <1>1 DEF StoresTypeOK, Masters
<1>5. IsFiniteSet(etcd[c]) /\ IsFiniteSet(M)
  <2>1. M \subseteq Machine /\ etcd[c] \subseteq Machine
      BY <1>4
  <2> QED BY <2>1, MachineAssumption, PartOfFinite
<1>6. /\ RunningMembers(c) \in SUBSET etcd[c]
      /\ RunningMembers(c)' \in SUBSET (etcd[c] \cup M)
      /\ RunningMembers(c) \cup M \subseteq RunningMembers(c)'
  <2>1. /\ RunningMembers(c) = {x \in etcd[c] : host[x].cp = c}
        /\ RunningMembers(c)' = {x \in etcd[c] \cup M : host'[x].cp = c}
      BY <1>2 DEF RunningMembers
  <2>2. ASSUME NEW x \in RunningMembers(c) PROVE host'[x].cp = c
    <3>1. x \in Machine /\ host[x].cp = c
        BY <1>4, <2>1
    <3> QED BY <1>3, <3>1
  <2>3. ASSUME NEW x \in M PROVE host'[x].cp = c
      BY <1>3, <1>4
  <2> QED BY <2>1, <2>2, <2>3
<1>7. 2 * Cardinality(RunningMembers(c)) > Cardinality(etcd[c]) /\ c # NoControlPlane
    BY DEF Healthy
<1>8. 2 * Cardinality(RunningMembers(c)') > Cardinality(etcd[c] \cup M)
    BY <1>5, <1>6, <1>7, JoinKeepsMajority
<1> QED BY <1>2, <1>7, <1>8 DEF Healthy

FirstMaster == Min(Masters(inventory))

\* A control plane that answers is that of the first master, or of the kubeconfig.
FirstMasterOf(c) == Healthy(c) /\ host[FirstMaster].cp = c
Fetched(c) == Healthy(c) /\ kubeconfig = [state |-> "plaintext", cp |-> c]

\* What initialize-master, the fetch and join-cluster leave to the step after them.
Yielding(p) ==
    run[p].phase = "apply" =>
        /\ pc[p] = "fetchKubeconfig" =>
             Masters(inventory) # {} /\ \E c \in ControlPlane : FirstMasterOf(c)
        /\ pc[p] = "joinCluster" /\ Masters(inventory) # {} =>
             host[FirstMaster].admin /\ \E c \in ControlPlane : FirstMasterOf(c) /\ Fetched(c)
        /\ pc[p] = "encryptKubeconfig" /\ K8sNodes(inventory) # {} =>
             \E c \in ControlPlane : Fetched(c)

\* A step that keeps these stores keeps what Yielding says of them.
LEMMA YieldingKept ==
    ASSUME NEW p \in Client, Yielding(p), pc'[p] = pc[p], run'[p] = run[p],
           UNCHANGED <<inventory, kubeconfig, host, etcd>>
    PROVE  Yielding(p)'
BY DEF Yielding, FirstMasterOf, Fetched, Healthy, RunningMembers, FirstMaster, Masters, K8sNodes,
       Workers

LEMMA YieldingNext ==
    ASSUME Exclusive
    PROVE  ChangeInv /\ (\A p \in Client : Yielding(p)) /\ [Next]_vars
               => \A p \in Client : Yielding(p)'
<1> SUFFICES ASSUME ChangeInv, \A p \in Client : Yielding(p), [Next]_vars, NEW p \in Client,
                    run'[p].phase = "apply",
                    pc'[p] \in {"fetchKubeconfig", "joinCluster", "encryptKubeconfig"}
             PROVE  Yielding(p)'
    BY DEF Yielding
<1> Yielding(p) /\ TypeOK /\ StoresTypeOK
    BY DEF ChangeInv, TypeOK
<1>1. CASE UNCHANGED vars
    BY <1>1, YieldingKept DEF vars, stores
<1>2. CASE Step(p)
  <2>0. /\ run[p].phase = "apply" /\ UNCHANGED inventory
        /\ ~Fail(p) /\ ~CommandFails(p) /\ \A x : ~Return(p, x)
        /\ Goto(p, pc'[p])
      BY <1>2, PlaybookOrder
  <2>m. /\ Masters(inventory)' = Masters(inventory) /\ FirstMaster' = FirstMaster
        /\ K8sNodes(inventory)' = K8sNodes(inventory)
      BY <2>0 DEF FirstMaster, Masters, Workers, K8sNodes
  <2>f. Masters(inventory) # {} => FirstMaster \in Machine
    <3>1. Masters(inventory) \in SUBSET Nat /\ Masters(inventory) \subseteq Machine
        BY MachineAssumption DEF StoresTypeOK, Masters
    <3> QED BY <3>1, MinIsMember DEF FirstMaster
  <2>1. CASE pc'[p] = "fetchKubeconfig"
    <3>1. InitializeMaster(p)
        BY <1>2, <2>1, PlaybookOrder
    <3>2. \/ Masters(inventory) # {} /\ KubeadmInit(FirstMaster, TRUE)
          \/ Masters(inventory) # {} /\ MasterReady(FirstMaster) /\ UNCHANGED stores
      <4>1. ~Goto(p, "joinCluster")
          BY <2>1, GotoEffect
      <4> QED BY <2>0, <3>1, <4>1 DEF InitializeMaster, FirstMaster
    <3>3. ASSUME KubeadmInit(FirstMaster, TRUE), Masters(inventory) # {}
          PROVE  \E c \in ControlPlane : FirstMasterOf(c)'
      <4>1. PICK c \in ControlPlane : host'[FirstMaster].cp = c /\ Healthy(c)'
          BY <2>f, <3>3, InitYieldsHealthy
      <4> QED BY <2>m, <4>1 DEF FirstMasterOf
    <3>4. ASSUME MasterReady(FirstMaster), UNCHANGED stores, Masters(inventory) # {}
          PROVE  \E c \in ControlPlane : FirstMasterOf(c)'
      <4>1. PICK c : c = host[FirstMaster].cp
          OBVIOUS
      <4>2. c \in ControlPlane /\ Healthy(c)
          BY <2>f, <3>4, <4>1 DEF MasterReady, Healthy, StoresTypeOK, HostStates
      <4>3. Healthy(c)'
          BY <3>4, <4>2 DEF Healthy, RunningMembers, stores
      <4> QED BY <2>m, <3>4, <4>1, <4>2, <4>3 DEF FirstMasterOf, stores
    <3> QED BY <2>1, <2>m, <3>2, <3>3, <3>4 DEF Yielding
  <2>2. CASE pc'[p] = "joinCluster"
    <3>1. CASE FetchAdminConf(p)
      <4>1. host[FirstMaster].admin /\ FetchKubeconfig(FirstMaster)
          BY <2>0, <3>1 DEF FetchAdminConf, FirstMaster
      <4>2. PICK c \in ControlPlane : FirstMasterOf(c)
          BY <2>0, <3>1 DEF FetchAdminConf, At, Yielding
      <4>3. kubeconfig' = [state |-> "plaintext", cp |-> c] /\ UNCHANGED <<host, etcd>>
          BY <4>1, <4>2 DEF FirstMasterOf, FetchKubeconfig
      <4>4. Healthy(c)'
          BY <4>2, <4>3 DEF FirstMasterOf, Healthy, RunningMembers
      <4>5. FirstMasterOf(c)' /\ Fetched(c)' /\ host'[FirstMaster'].admin
          BY <2>m, <4>1, <4>2, <4>3, <4>4 DEF FirstMasterOf, Fetched
      <4> QED BY <2>2, <2>m, <4>5 DEF Yielding
    <3>2. CASE InitializeMaster(p)
      <4>1. Masters(inventory) = {}
        <5>1. ~Goto(p, "fetchKubeconfig")
            BY <2>2, GotoEffect
        <5> QED BY <2>0, <3>2, <5>1 DEF InitializeMaster
      <4> QED BY <2>2, <2>m, <4>1 DEF Yielding
    <3> QED BY <1>2, <2>2, <3>1, <3>2, PlaybookOrder
  <2>3. CASE pc'[p] = "encryptKubeconfig"
    <3>1. JoinCluster(p)
        BY <1>2, <2>3, PlaybookOrder
    <3>2. SUFFICES ASSUME K8sNodes(inventory) # {}
                   PROVE  \E c \in ControlPlane : Fetched(c)'
        BY <2>3, <2>m DEF Yielding
    <3>3. /\ ActiveMasters # {}
          /\ KubeadmJoin(host[Min(ActiveMasters)].cp, JoiningNodes, {}, {}, {})
        BY <2>0, <3>1, <3>2 DEF JoinCluster
    <3>4. Masters(inventory) # {}
        BY <3>3 DEF ActiveMasters
    <3>5. PICK c \in ControlPlane : FirstMasterOf(c) /\ Fetched(c) /\ host[FirstMaster].admin
        BY <2>0, <3>1, <3>4 DEF JoinCluster, At, Yielding
    <3>6. host[Min(ActiveMasters)].cp = c
        BY <3>4, <3>5, FirstStaysFirst DEF FirstMasterOf, FirstMaster
    <3>7. JoiningNodes \in SUBSET Machine
        BY DEF JoiningNodes, K8sNodes, Masters, Workers, StoresTypeOK
    <3>8. Healthy(c)'
        BY <3>3, <3>5, <3>6, <3>7, JoinKeepsHealthy DEF Fetched
    <3>9. kubeconfig' = kubeconfig
        BY <3>3 DEF KubeadmJoin
    <3> QED BY <3>5, <3>8, <3>9 DEF Fetched
  <2> QED BY <2>1, <2>2, <2>3
<1> QED BY <1>1, <1>2, OneAtWork

\* With one command at a time, kubectl works when apply ends well: the kubeconfig is that
\* of a control plane that answers, and it is encrypted.
THEOREM ApplyFetches ==
    ASSUME Exclusive
    PROVE  Spec => ApplyYieldsKubectl
<1> DEFINE Agree == \A p \in Client : Agreeing(p)
           Yield == \A p \in Client : Yielding(p)
<1>1. Init => ChangeInv /\ Agree /\ Yield
  <2>1. Init => Agree /\ Yield
      BY DEF Init, Agreeing, Playing, Yielding
  <2> QED BY <2>1, ChangeInit
<1>2. ChangeInv /\ Agree /\ Yield /\ [Next]_vars => ChangeInv' /\ Agree' /\ Yield'
    BY ChangeNext, AgreeingNext, YieldingNext
<1>3. ChangeInv /\ Agree /\ Yield /\ [Next]_vars =>
        [\A p \in Client :
            Completes(p) /\ run[p].phase = "apply" /\ K8sNodes(tfstate') # {}
                => KubectlWorks']_vars
  <2> SUFFICES ASSUME ChangeInv, Agree, Yield, [Next]_vars, NEW p \in Client, Completes(p),
                      run[p].phase = "apply", K8sNodes(tfstate') # {}
               PROVE  KubectlWorks'
      OBVIOUS
  <2> Agreeing(p) /\ Yielding(p)
      OBVIOUS
  <2>1. EncryptKubeconfig(p) /\ kubeconfig.state = "plaintext" /\ ~Return(p, "error")
      BY Completion, LastSteps
  <2>2. inventory = tfstate /\ tfstate' = tfstate
      BY <2>1 DEF EncryptKubeconfig, At, Agreeing, Playing
  <2>3. K8sNodes(inventory) # {}
      BY <2>2 DEF K8sNodes, Masters, Workers
  <2>4. PICK c \in ControlPlane : Fetched(c)
      BY <2>1, <2>3 DEF EncryptKubeconfig, At, Yielding
  <2>5. /\ kubeconfig' = [kubeconfig EXCEPT !.state = "encrypted"]
        /\ UNCHANGED <<host, etcd>>
      BY <2>1 DEF EncryptKubeconfig
  <2>6. kubeconfig'.state = "encrypted" /\ kubeconfig'.cp = c
      BY <2>4, <2>5 DEF Fetched
  <2>7. Healthy(c)'
      BY <2>4, <2>5 DEF Fetched, Healthy, RunningMembers
  <2> QED BY <2>6, <2>7 DEF KubectlWorks, Healthy, RunningMembers
<1> QED BY <1>1, <1>2, <1>3, PTL DEF Spec, ApplyYieldsKubectl

-----------------------------------------------------------------------------
(* What a machine has left when RemoveNode destroys it. *)

\* A client that is at work and moves takes a step of its own, or is killed.
LEMMA WorkerMoves ==
    ASSUME TypeOK, TargetNamed, [Next]_vars, NEW p \in Client, pc[p] # "idle", Moves(p)
    PROVE  Step(p) \/ Kill(p)
<1>1. ~EditTFVars /\ ~Finished /\ ~UNCHANGED vars
    BY DEF EditTFVars, Finished, vars, Moves
<1>2. ASSUME NEW q \in Client, Start(q) PROVE FALSE
    BY <1>2 DEF Start, At, TypeOK, Moves
<1>3. ASSUME NEW q \in Client, Step(q) \/ Kill(q) PROVE p = q
    BY <1>3, StepIsLocal DEF Moves
<1> QED BY <1>1, <1>2, <1>3 DEF Next

\* The steps of RemoveNode after the lookup of the node: what leads to each of them.
LEMMA RemoveOrder ==
    ASSUME ChangeInv, NEW p \in Client, Step(p), run'[p].phase = "remove",
           pc'[p] \in {"reset", "deleteNode", "removeMachine", "writeTFVars", "terraformApply",
                      "writeInfra", "openInventory", "writeInventory", "infrastructure"}
    PROVE  /\ run[p].phase = "remove" /\ run'[p].target = run[p].target
           /\ ~Fail(p) /\ ~CommandFails(p) /\ \A x : ~Return(p, x)
           /\ \/ pc'[p] = "reset" /\ (NodeExists(p) \/ DrainNode(p))
              \/ pc'[p] = "deleteNode" /\ ResetMachine(p)
              \/ pc'[p] = "removeMachine" /\ DeleteNode(p)
              \/ pc'[p] = "writeTFVars" /\ RemoveMachine(p)
              \/ pc'[p] = "terraformApply" /\ WriteTFVars(p)
              \/ pc'[p] = "writeInfra" /\ TerraformApply(p) /\ TerraformApplied
              \/ pc'[p] = "openInventory" /\ WriteInfraJSON(p)
              \/ pc'[p] = "writeInventory" /\ OpenInventory(p)
              \/ pc'[p] = "infrastructure" /\ WriteInventory(p)
<1> TypeOK /\ TargetNamed /\ Ordered(p) /\ run[p] \in Runs
    BY DEF ChangeInv, TypeOK
<1>0. ~Fail(p) /\ ~CommandFails(p) /\ \A x : ~Return(p, x)
    BY ReturnEffect DEF Fail, CommandFails
<1>g. /\ \A s : Goto(p, s) => pc'[p] = s /\ run'[p] = run[p]
      /\ \A s, r : GotoWith(p, s, r) => pc'[p] = s /\ run'[p] = r
    BY GotoEffect, GotoWithEffect
<1> USE <1>0, <1>g DEF At
<1>1. ~Joined(p) /\ \A m : pc[p] = "configure" => ~Configured(p, m)
  <2>1. ~Joined(p)
      BY DEF Joined
  <2>2. ASSUME NEW m, pc[p] = "configure", Configured(p, m) PROVE FALSE
    <3>1. run'[p] = [run[p] EXCEPT !.created = m, !.machines = @ \cup {m}]
        BY <2>2 DEF Configured
    <3>2. run'[p].phase = run[p].phase
        BY <3>1 DEF Runs
    <3> QED BY <2>2, <3>2 DEF Ordered, MethodSteps
  <2> QED BY <2>1, <2>2
<1>2. AfterTerraformApply(p) \/ AfterJoinCluster(p) => run'[p] = run[p] /\ pc'[p] \in
          {"waitForSSH", "infrastructure", "encryptKubeconfig"}
    BY <1>1 DEF AfterTerraformApply, AfterJoinCluster
<1>3. ~WorkspaceApply(p) /\ ~PlanNoDiff(p) /\ ~AddMachine(p) /\ ~CloneMachine(p)
  <2>1. ~WorkspaceApply(p)
      BY DEF WorkspaceApply, Ordered, MethodSteps
  <2>2. ~PlanNoDiff(p)
      BY DEF PlanNoDiff
  <2> QED BY <1>1, <2>1, <2>2 DEF AddMachine, CloneMachine
<1>4. ~(\/ WaitForSSH(p) \/ PrepareNodes(p) \/ InitializeMaster(p) \/ FetchAdminConf(p)
        \/ JoinCluster(p))
  <2>1. pc[p] \in {"waitForSSH", "prepareNodes", "initializeMaster", "fetchKubeconfig",
                   "joinCluster"} => run[p].phase # "remove"
      BY DEF Ordered, MethodSteps
  <2>2. ~WaitForSSH(p) /\ ~PrepareNodes(p)
      BY <2>1 DEF WaitForSSH, PrepareNodes
  <2>3. ~Goto(p, "joinCluster") /\ ~Goto(p, "fetchKubeconfig")
      OBVIOUS
  <2>4. ~InitializeMaster(p) /\ ~FetchAdminConf(p)
      BY <2>3 DEF InitializeMaster, FetchAdminConf
  <2>5. ~JoinCluster(p)
      BY <1>2, <2>1 DEF JoinCluster
  <2> QED BY <2>2, <2>4, <2>5
<1>5. ~(Infrastructure(p) \/ EncryptKubeconfig(p) \/ KubernetesCleanup(p) \/ TerraformDestroy(p))
    BY <1>1 DEF Infrastructure, EncryptKubeconfig, KubernetesCleanup, TerraformDestroy
<1>6. CASE NodeExists(p) \/ DrainNode(p) \/ DeleteNode(p) \/ WriteTFVars(p)
    BY <1>6 DEF NodeExists, DrainNode, AfterDrain, DeleteNode, WriteTFVars
<1>7. CASE ResetMachine(p)
    BY <1>7 DEF ResetMachine
<1>8. CASE TerraformApply(p) \/ WriteInfraJSON(p) \/ OpenInventory(p)
    BY <1>8 DEF TerraformApply, WriteInfraJSON, OpenInventory
<1>9. CASE WriteInventory(p)
    BY <1>2, <1>9 DEF WriteInventory
<1>10. CASE RemoveMachine(p)
  <2>1. pc'[p] = "writeTFVars" /\ run'[p] = [run[p] EXCEPT !.machines = @ \ {run[p].target}]
      BY <1>10 DEF RemoveMachine
  <2>2. run'[p].phase = run[p].phase /\ run'[p].target = run[p].target
      BY <2>1 DEF Runs
  <2> QED BY <1>10, <2>1, <2>2
<1> QED BY <1>3, <1>4, <1>5, <1>6, <1>7, <1>8, <1>9, <1>10 DEF Step

\* A control plane that answers has a master.
LEMMA HealthyHasMaster ==
    ASSUME StoresTypeOK, HostInv, NEW c \in ControlPlane, Healthy(c)
    PROVE  \E k \in Masters(Machine) : host[k].cp = c
<1>1. RunningMembers(c) \subseteq etcd[c] /\ etcd[c] \subseteq Machine
    BY DEF RunningMembers, StoresTypeOK
<1>2. IsFiniteSet(etcd[c]) /\ Cardinality(etcd[c]) \in Nat
    BY <1>1, MachineAssumption, PartOfFinite
<1>3. RunningMembers(c) # {}
    BY <1>2, FS_EmptySet DEF Healthy
<1>4. PICK m \in Machine : host[m].cp = c
    BY <1>1, <1>3 DEF RunningMembers
<1> QED BY <1>4, ControlPlaneAssumption DEF HostInv

\* kubectl goes on working while none of the stores it needs changes.
LEMMA KubectlKept ==
    ASSUME KubectlWorks, UNCHANGED <<kubeconfig, host, etcd>>
    PROVE  KubectlWorks'
BY DEF KubectlWorks, Healthy, RunningMembers

\* kubectl goes on working when hosts settle that have kept their control planes.
LEMMA KubectlSettled ==
    ASSUME StoresTypeOK, HostInv, KubectlWorks, NEW h \in [Machine -> HostStates],
           Settle(h, node, etcd, kubeconfig), \A m \in Machine : h[m].cp = host[m].cp
    PROVE  KubectlWorks'
<1> DEFINE left == {h[x].cp : x \in Masters(Machine)} \ {NoControlPlane}
<1>1. PICK c \in ControlPlane : c = kubeconfig.cp /\ Healthy(c)
    BY DEF KubectlWorks, Healthy, StoresTypeOK, Kubeconfigs
<1>2. PICK k \in Masters(Machine) : host[k].cp = c
    BY <1>1, HealthyHasMaster
<1>3. k \in Machine /\ h[k].cp = c
    BY <1>2 DEF Masters
<1>4. c \in left
    BY <1>2, <1>3, ControlPlaneAssumption
<1>5. kubeconfig' = [kubeconfig EXCEPT !.cp = IF kubeconfig.cp \in left THEN kubeconfig.cp
                                                                     ELSE NoControlPlane]
    BY DEF Settle
<1> HIDE DEF left
<1>6. kubeconfig'.cp = c /\ kubeconfig'.state = "encrypted"
    BY <1>1, <1>4, <1>5 DEF KubectlWorks, StoresTypeOK, Kubeconfigs
<1>7. etcd'[c] = etcd[c]
  <2>1. node \in [ControlPlane -> [Machine -> NodeStates]]
      BY DEF StoresTypeOK
  <2>2. \E x \in Masters(Machine) : h[x].cp = c
      BY <1>3
  <2> QED BY <2>1, <2>2, SettleKeepsPlane
<1>8. \A m \in Machine : (host'[m].cp = c) <=> (host[m].cp = c)
  <2> SUFFICES ASSUME NEW m \in Machine PROVE (host'[m].cp = c) <=> (host[m].cp = c)
      OBVIOUS
  <2>1. host[m].cp = c => host'[m].cp = c
      BY <1>2, <1>3, SettleEffect
  <2>2. host'[m].cp \in {host[m].cp, NoControlPlane}
      BY SettleEffect
  <2> QED BY <2>1, <2>2, ControlPlaneAssumption
<1>9. RunningMembers(c)' = RunningMembers(c)
  <2>1. etcd[c] \subseteq Machine
      BY DEF StoresTypeOK
  <2> QED BY <1>7, <1>8, <2>1 DEF RunningMembers
<1>10. Healthy(c)'
    BY <1>1, <1>7, <1>9 DEF Healthy
<1> QED BY <1>6, <1>10 DEF KubectlWorks, Healthy, RunningMembers

\* From the reset to the end of RemoveNode: the machine has no files, then no node, and
\* the API server answered when the node was deleted and answers until the end.
Removing(p) ==
    run[p].phase = "remove" =>
        /\ pc[p] = "reset" /\ "lookup" \notin Faults => KubectlWorks
        /\ pc[p] \in {"deleteNode", "removeMachine", "writeTFVars", "terraformApply"} =>
             host[run[p].target] = CleanHost
        /\ pc[p] \in {"removeMachine", "writeTFVars", "terraformApply"} =>
             NodeState(run[p].target) = "none"
        /\ pc[p] \in {"removeMachine", "writeTFVars", "terraformApply", "writeInfra",
                     "openInventory", "writeInventory", "infrastructure"} => KubectlWorks

\* A step that keeps what these stores hold keeps what Removing says of them.
LEMMA RemovingKept ==
    ASSUME NEW p \in Client, Removing(p), pc'[p] = pc[p], run'[p] = run[p],
           UNCHANGED <<kubeconfig, host, node, etcd>>
    PROVE  Removing(p)'
BY KubectlKept DEF Removing, NodeState

\* The destruction of a clean machine leaves every other as it was.
LEMMA RemovalApplied ==
    ASSUME ChangeInv, HostInv, FewResources, NEW p \in Client, run[p].phase = "remove",
           pc[p] = "terraformApply", host[run[p].target] = CleanHost, KubectlWorks,
           TerraformApplied
    PROVE  KubectlWorks'
<1> TypeOK /\ StoresTypeOK
    BY DEF ChangeInv, TypeOK
<1> DEFINE h == [m \in Machine |-> IF m \in tfvars THEN host[m] ELSE CleanHost]
<1>1. tfvars = tfstate \ {run[p].target}
    BY DEF ChangeInv, Ordered, OneChange, Wanted
<1>2. Settle(h, node, etcd, kubeconfig)
    BY DEF TerraformApplied, Provision
<1>3. h \in [Machine -> HostStates]
    BY CleanHostType DEF StoresTypeOK
<1>4. \A m \in Machine : h[m].cp = host[m].cp
    BY <1>1 DEF HostInv
<1> HIDE DEF h
<1> QED BY <1>2, <1>3, <1>4, KubectlSettled

LEMMA RemovingNext ==
    ASSUME Exclusive, FewResources, "connection" \notin Faults
    PROVE  ChangeInv /\ PhasesFit /\ HostInv /\ (\A p \in Client : Removing(p)) /\ [Next]_vars
               => \A p \in Client : Removing(p)'
<1> SUFFICES ASSUME ChangeInv, PhasesFit, HostInv, \A p \in Client : Removing(p), [Next]_vars,
                    NEW p \in Client, run'[p].phase = "remove",
                    pc'[p] \in {"reset", "deleteNode", "removeMachine", "writeTFVars",
                               "terraformApply", "writeInfra", "openInventory",
                               "writeInventory", "infrastructure"}
             PROVE  Removing(p)'
    BY DEF Removing
<1> Removing(p) /\ TypeOK /\ StoresTypeOK /\ TargetNamed
    BY DEF ChangeInv, TypeOK
<1>1. CASE UNCHANGED vars
    BY <1>1, RemovingKept DEF vars, stores
<1>2. CASE Step(p)
  <2>1. /\ run[p].phase = "remove" /\ run'[p].target = run[p].target
        /\ ~Fail(p) /\ ~CommandFails(p) /\ \A x : ~Return(p, x)
      BY <1>2, RemoveOrder
  <2>2. run[p].target \in Machine
      BY <2>1 DEF PhasesFit, FirstPhase, TargetNamed
  <2>3. CASE pc'[p] = "reset"
    <3>1. NodeExists(p) \/ DrainNode(p)
        BY <1>2, <2>3, RemoveOrder
    <3>2. ASSUME "lookup" \notin Faults
          PROVE  KubectlWorks /\ UNCHANGED <<kubeconfig, host, etcd>>
        BY <2>1, <3>1, <3>2 DEF NodeExists, DrainNode, SetNodeState, stores
    <3> QED BY <2>3, <3>2, KubectlKept DEF Removing
  <2>4. CASE pc'[p] = "deleteNode"
    <3> DEFINE m == run[p].target
               h == [host EXCEPT ![m] = CleanHost]
    <3>1. KubeadmReset(m)
        BY <1>2, <2>1, <2>4, RemoveOrder DEF ResetMachine
    <3>2. PICK e : Settle(h, node, e, kubeconfig)
        BY <3>1 DEF KubeadmReset
    <3>3. h \in [Machine -> HostStates] /\ h[m] = CleanHost
        BY <2>2, CleanHostType DEF StoresTypeOK
    <3> HIDE DEF h
    <3>4. host'[m] = CleanHost
        BY <2>2, <3>2, <3>3, SettleEffect
    <3> QED BY <2>1, <2>4, <3>4 DEF Removing
  <2>5. CASE pc'[p] = "removeMachine"
    <3>1. DeleteNode(p) /\ pc[p] = "deleteNode"
        BY <1>2, <2>5, RemoveOrder DEF DeleteNode, At
    <3>2. KubectlWorks /\ SetNodeState(run[p].target, "none")
        BY <2>1, <3>1 DEF DeleteNode
    <3>3. UNCHANGED <<kubeconfig, host, etcd>> /\ kubeconfig.cp \in ControlPlane
        BY <3>2 DEF SetNodeState, KubectlWorks, Healthy, StoresTypeOK, Kubeconfigs
    <3>4. node'[kubeconfig.cp][run[p].target] = "none"
        BY <2>2, <3>2, <3>3 DEF SetNodeState, StoresTypeOK
    <3>5. host[run[p].target] = CleanHost
        BY <2>1, <3>1 DEF Removing
    <3> QED BY <2>1, <2>5, <3>2, <3>3, <3>4, <3>5, KubectlKept DEF Removing, NodeState
  <2>6. CASE pc'[p] \in {"writeTFVars", "terraformApply"}
    <3>1. pc[p] \in {"removeMachine", "writeTFVars"} /\ UNCHANGED <<kubeconfig, host, node, etcd>>
        BY <1>2, <2>1, <2>6, RemoveOrder DEF RemoveMachine, WriteTFVars, At, stores, k8s
    <3>2. /\ host[run[p].target] = CleanHost /\ NodeState(run[p].target) = "none"
          /\ KubectlWorks
        BY <2>1, <3>1 DEF Removing
    <3> QED BY <2>1, <2>6, <3>1, <3>2, KubectlKept DEF Removing, NodeState
  <2>7. CASE pc'[p] = "writeInfra"
    <3>1. TerraformApplied /\ pc[p] = "terraformApply"
        BY <1>2, <2>7, RemoveOrder DEF TerraformApply, At
    <3>2. KubectlWorks'
        BY <2>1, <3>1, RemovalApplied DEF Removing
    <3> QED BY <2>7, <3>2 DEF Removing
  <2>8. CASE pc'[p] \in {"openInventory", "writeInventory", "infrastructure"}
    <3>1. /\ pc[p] \in {"writeInfra", "openInventory", "writeInventory"}
          /\ UNCHANGED <<kubeconfig, host, etcd>>
        BY <1>2, <2>1, <2>8, RemoveOrder
        DEF WriteInfraJSON, OpenInventory, WriteInventory, At, k8s
    <3> QED BY <2>1, <2>8, <3>1, KubectlKept DEF Removing
  <2> QED BY <2>3, <2>4, <2>5, <2>6, <2>7, <2>8
<1> QED BY <1>1, <1>2, OneAtWork DEF Removing

\* The step of a client at the reset is the reset.
LEMMA AtReset ==
    ASSUME NEW p \in Client, pc[p] = "reset", Step(p)
    PROVE  ResetMachine(p)
<1>1. ~(\/ WorkspaceApply(p) \/ PlanNoDiff(p) \/ AddMachine(p) \/ CloneMachine(p)
        \/ WriteTFVars(p) \/ TerraformApply(p) \/ WriteInfraJSON(p)
        \/ OpenInventory(p) \/ WriteInventory(p))
    BY DEF At, WorkspaceApply, PlanNoDiff, AddMachine, CloneMachine, WriteTFVars,
           TerraformApply, WriteInfraJSON, OpenInventory, WriteInventory
<1>2. ~(\/ WaitForSSH(p) \/ Infrastructure(p) \/ PrepareNodes(p)
        \/ InitializeMaster(p) \/ FetchAdminConf(p) \/ JoinCluster(p)
        \/ EncryptKubeconfig(p))
    BY DEF At, WaitForSSH, Infrastructure, PrepareNodes, InitializeMaster,
           FetchAdminConf, JoinCluster, EncryptKubeconfig
<1>3. ~(\/ NodeExists(p) \/ DrainNode(p) \/ DeleteNode(p)
        \/ RemoveMachine(p) \/ KubernetesCleanup(p) \/ TerraformDestroy(p))
    BY DEF At, NodeExists, DrainNode, DeleteNode, RemoveMachine,
           KubernetesCleanup, TerraformDestroy
<1> QED BY <1>1, <1>2, <1>3 DEF Step

\* The reset of a running member takes it out of an etcd cluster that answers.
LEMMA ResetLeavesEtcd ==
    ASSUME StoresTypeOK, NEW m \in Machine, NEW c \in ControlPlane, Healthy(c),
           m \in RunningMembers(c), KubeadmReset(m)
    PROVE  m \notin etcd'[c]
<1> DEFINE e == [x \in ControlPlane |->
                     IF x = host[m].cp /\ Healthy(x) THEN etcd[x] \ {m} ELSE etcd[x]]
           h == [host EXCEPT ![m] = CleanHost]
<1>1. host[m].cp = c
    BY DEF RunningMembers
<1>2. e[c] = etcd[c] \ {m}
    BY <1>1
<1>3. Settle(h, node, e, kubeconfig)
    BY DEF KubeadmReset
<1> HIDE DEF e, h
<1>4. etcd'[c] \in {e[c], {}}
    BY <1>3 DEF Settle
<1> QED BY <1>2, <1>4

\* RemovingInv is inductive, and what the two theorems below follow from.
RemovingInv ==
    ChangeInv /\ PhasesFit /\ HostInv /\ \A p \in Client : Agreeing(p) /\ Removing(p)

LEMMA RemovingInit == Init => RemovingInv
<1>1. Init => \A p \in Client : Agreeing(p) /\ Removing(p)
    BY DEF Init, Agreeing, Playing, Removing
<1> QED BY <1>1, ChangeInit, PhasesInit, HostInit DEF RemovingInv

LEMMA RemovingInvNext ==
    ASSUME Exclusive, FewResources, "connection" \notin Faults
    PROVE  RemovingInv /\ [Next]_vars => RemovingInv'
<1>1. ChangeInv /\ PhasesFit /\ [Next]_vars => PhasesFit'
    BY PhasesNext DEF ChangeInv
<1> QED BY <1>1, ChangeNext, HostNext, AgreeingNext, RemovingNext DEF RemovingInv

\* With one command at a time, in a small cluster and as long as no SSH connection is
\* lost, the API server still answers when remove or replace ends well.
THEOREM QuorumKept ==
    ASSUME Exclusive, FewResources, "connection" \notin Faults
    PROVE  Spec => RemoveKeepsQuorum
<1>1. RemovingInv /\ [Next]_vars =>
        [\A p \in Client : Completes(p) /\ run[p].phase = "remove" => KubectlWorks']_vars
  <2> SUFFICES ASSUME RemovingInv, [Next]_vars, NEW p \in Client, Completes(p),
                      run[p].phase = "remove"
               PROVE  KubectlWorks'
      OBVIOUS
  <2> ChangeInv /\ Agreeing(p) /\ Removing(p)
      BY DEF RemovingInv
  <2>1. WriteInventory(p) \/ Infrastructure(p)
      BY LastSteps
  <2>2. pc[p] \in {"writeInventory", "infrastructure"} /\ UNCHANGED <<kubeconfig, host, etcd>>
      BY <2>1, Completion DEF WriteInventory, Infrastructure, At, k8s
  <2> QED BY <2>2, KubectlKept DEF Removing
<1> QED BY <1>1, RemovingInit, RemovingInvNext, PTL DEF Spec, RemoveKeepsQuorum

\* If kubectl's "not found" means nothing else as well, the machine that RemoveNode
\* destroys has left the etcd cluster, holds no kubeadm files and has no node.
THEOREM RemovedHadLeft ==
    ASSUME Exclusive, FewResources, "connection" \notin Faults, "lookup" \notin Faults
    PROVE  Spec => RemovedMachineHadLeft
<1>1. RemovingInv /\ [Next]_vars =>
        [\A p \in Client :
            run[p].phase = "remove" /\ Moves(p) /\ kubeconfig.cp \in ControlPlane
                => /\ /\ At(p, "reset") /\ pc'[p] = "deleteNode"
                      /\ run[p].target \in RunningMembers(kubeconfig.cp)
                      => run[p].target \notin etcd'[kubeconfig.cp]
                   /\ At(p, "terraformApply") => \A m \in tfstate \ tfstate' :
                          host[m] = CleanHost /\ NodeState(m) = "none"]_vars
  <2> SUFFICES ASSUME RemovingInv, [Next]_vars, NEW p \in Client, run[p].phase = "remove",
                      Moves(p), kubeconfig.cp \in ControlPlane
               PROVE  /\ /\ pc[p] = "reset" /\ pc'[p] = "deleteNode"
                         /\ run[p].target \in RunningMembers(kubeconfig.cp)
                         => run[p].target \notin etcd'[kubeconfig.cp]
                      /\ pc[p] = "terraformApply" => \A m \in tfstate \ tfstate' :
                             host[m] = CleanHost /\ NodeState(m) = "none"
      BY DEF At
  <2> ChangeInv /\ Removing(p) /\ TypeOK /\ StoresTypeOK /\ TargetNamed
      BY DEF RemovingInv, ChangeInv, TypeOK
  <2>1. ASSUME pc[p] = "reset", pc'[p] = "deleteNode",
               run[p].target \in RunningMembers(kubeconfig.cp)
        PROVE  run[p].target \notin etcd'[kubeconfig.cp]
    <3>1. Step(p)
        BY <2>1, WorkerMoves, ReturnEffect DEF Kill
    <3>2. \A x : ~Return(p, x)
        BY <2>1, ReturnEffect
    <3>3. KubeadmReset(run[p].target)
        BY <2>1, <3>1, <3>2, AtReset DEF ResetMachine, Fail, CommandFails
    <3>4. run[p].target \in Machine
        BY <2>1 DEF RunningMembers, StoresTypeOK
    <3>5. Healthy(kubeconfig.cp)
        BY <2>1 DEF Removing, KubectlWorks
    <3> QED BY <2>1, <3>3, <3>4, <3>5, ResetLeavesEtcd
  <2>2. ASSUME pc[p] = "terraformApply", NEW m \in tfstate \ tfstate'
        PROVE  host[m] = CleanHost /\ NodeState(m) = "none"
    <3>1. m = run[p].target
        BY <2>2, ApplyTouchesOnlyItsMachine DEF Wanted
    <3> QED BY <2>2, <3>1 DEF Removing
  <2> QED BY <2>1, <2>2
<1> QED BY <1>1, RemovingInit, RemovingInvNext, PTL DEF Spec, RemovedMachineHadLeft

-----------------------------------------------------------------------------
(* A cluster that only grows, and its one control plane. *)

\* No command takes a machine away but destroy, which takes all of them.
OnlyGrows == Command \cap {"replace", "remove", "reset", "edit"} = {}

LeastMaster == Min(Masters(Machine))

\* The first master by name is there from the start (masters[0] never changes).
FirstIsInitial == Masters(Machine) # {} /\ LeastMaster \in InitialMachines

\* The machines wanted and those that exist only become more, or none.
Grown ==
    /\ InitialMachines \subseteq tfvars
    /\ tfstate \subseteq tfvars
    /\ tfstate = {} \/ InitialMachines \subseteq tfstate
    /\ \A p \in Client : /\ run[p].command \in Command \cup {"none"}
                         /\ pc[p] # "idle" => tfvars \subseteq run[p].machines

\* Machine m has joined control plane c, completely.
MemberOf(m, c) ==
    /\ host[m].admin <=> NodeType[m] = "master"
    /\ host[m].kubelet
    /\ host[m].cp = c
    /\ node[c][m] # "none"

\* Either no machine has joined, or the first master has, and the others have joined the
\* control plane of the first master or are clean.
Joint ==
    \/ \A m \in Machine : host[m] = CleanHost
    \/ \E c \in ControlPlane :
           MemberOf(LeastMaster, c) /\ \A m \in Machine : host[m] = CleanHost \/ MemberOf(m, c)

\* What the join of Apply leaves to encryptKubeconfig.
AllMembers(c) == kubeconfig.cp = c /\ \A m \in K8sNodes(inventory) : MemberOf(m, c)

JoinedAll(p) ==
    run[p].phase = "apply" /\ pc[p] = "encryptKubeconfig" /\ K8sNodes(inventory) # {} =>
        \E c \in ControlPlane : AllMembers(c)

\* What a step does to the machines of a cluster that only grows when no tool fails.
LEMMA GrowthSteps ==
    ASSUME ChangeInv, PhasesFit, OnlyGrows, "command" \notin Faults, NEW p \in Client, Step(p),
           run[p].command \in Command \cup {"none"}
    PROVE  /\ \/ tfvars' = tfvars
              \/ tfvars' = run[p].machines /\ run'[p] = run[p] /\ UNCHANGED <<tfstate, host, node>>
           /\ \/ UNCHANGED <<tfstate, host, node>>
              \/ TerraformApplied
              \/ TerraformDestroyed
              \/ /\ InitializeMaster(p) /\ Masters(inventory) # {} /\ ~host[FirstMaster].admin
                 /\ KubeadmInit(FirstMaster, TRUE)
              \/ /\ JoinCluster(p) /\ ActiveMasters # {}
                 /\ KubeadmJoin(host[Min(ActiveMasters)].cp, JoiningNodes, {}, {}, {})
              \/ KubectlWorks /\ SetNodeState(run[p].target, "drained") /\ UNCHANGED tfstate
<1> USE DEF stores, k8s
<1> TypeOK /\ Ordered(p) /\ run[p] \in Runs
    BY DEF ChangeInv, TypeOK
<1>1. run[p].phase \notin {"remove", "reset"}
    BY CommandOfPhase DEF OnlyGrows
<1>2. ~CommandFails(p)
    BY DEF CommandFails
<1>3. ~(ResetMachine(p) \/ DeleteNode(p) \/ RemoveMachine(p) \/ NodeExists(p))
    BY <1>1 DEF ResetMachine, DeleteNode, RemoveMachine, NodeExists, At, Ordered, MethodSteps
<1>4. CASE Fail(p)
    BY <1>4 DEF Fail
<1>5. CASE \/ WorkspaceApply(p) \/ PlanNoDiff(p) \/ AddMachine(p) \/ CloneMachine(p)
           \/ WriteInfraJSON(p) \/ OpenInventory(p) \/ WriteInventory(p)
    BY <1>2, <1>4, <1>5 DEF WorkspaceApply, PlanNoDiff, AddMachine, CloneMachine, WriteInfraJSON,
            OpenInventory, WriteInventory
<1>6. CASE WriteTFVars(p)
  <2>1. \/ tfvars' = run[p].machines /\ Goto(p, "terraformApply") /\ UNCHANGED <<tfstate, k8s>>
        \/ Fail(p)
      BY <1>6 DEF WriteTFVars
  <2> QED BY <1>4, <2>1, GotoEffect
<1>7. CASE TerraformApply(p)
    BY <1>7 DEF TerraformApply, TerraformApplied, Provision
<1>8. CASE TerraformDestroy(p)
    BY <1>8 DEF TerraformDestroy, TerraformDestroyed, Provision
<1>9. CASE \/ WaitForSSH(p) \/ Infrastructure(p) \/ PrepareNodes(p) \/ FetchAdminConf(p)
           \/ EncryptKubeconfig(p) \/ KubernetesCleanup(p)
    BY <1>2, <1>4, <1>9 DEF WaitForSSH, Infrastructure, PrepareNodes, FetchAdminConf,
            FetchKubeconfig, EncryptKubeconfig, KubernetesCleanup
<1>10. CASE InitializeMaster(p)
  <2>1. \/ UNCHANGED stores
        \/ Fail(p)
        \/ /\ Masters(inventory) # {} /\ ~host[FirstMaster].admin
           /\ KubeadmInit(FirstMaster, TRUE)
      BY <1>2, <1>10 DEF InitializeMaster, FirstMaster
  <2>2. KubeadmInit(FirstMaster, TRUE) => tfvars' = tfvars
      BY DEF KubeadmInit
  <2> QED BY <1>4, <1>10, <2>1, <2>2
<1>11. CASE JoinCluster(p)
  <2>1. \/ UNCHANGED stores
        \/ Fail(p)
        \/ /\ ActiveMasters # {}
           /\ KubeadmJoin(host[Min(ActiveMasters)].cp, JoiningNodes, {}, {}, {})
      BY <1>11 DEF JoinCluster
  <2>2. ASSUME NEW c, KubeadmJoin(c, JoiningNodes, {}, {}, {}) PROVE tfvars' = tfvars
      BY <2>2 DEF KubeadmJoin
  <2> QED BY <1>4, <1>11, <2>1, <2>2
<1>12. CASE DrainNode(p)
    BY <1>2, <1>4, <1>12 DEF DrainNode, SetNodeState
<1> QED BY <1>3, <1>5, <1>6, <1>7, <1>8, <1>9, <1>10, <1>11, <1>12 DEF Step

LEMMA GrownNext ==
    ASSUME Exclusive, OnlyGrows, "command" \notin Faults
    PROVE  ChangeInv /\ PhasesFit /\ Grown /\ [Next]_vars => Grown'
<1> SUFFICES ASSUME ChangeInv, PhasesFit, Grown, [Next]_vars PROVE Grown'
    OBVIOUS
<1> TypeOK /\ TargetNamed
    BY DEF ChangeInv
<1>1. ~EditTFVars
    BY DEF EditTFVars, OnlyGrows
<1>2. ASSUME NEW p \in Client, Start(p) PROVE Grown'
  <2>1. PICK c \in Command \ {"edit"} : \E t, s :
          /\ pc' = [pc EXCEPT ![p] = s]
          /\ run' = [run EXCEPT ![p] =
                         [command |-> c, phase |-> FirstPhase(c), target |-> t,
                          created |-> NoMachine, machines |-> tfvars]]
      BY <1>2 DEF Start
  <2>2. UNCHANGED <<tfvars, tfstate>>
      BY <1>2 DEF Start, stores
  <2>3. run'[p].command = c /\ run'[p].machines = tfvars
      BY <2>1 DEF TypeOK
  <2>4. \A q \in Client \ {p} : run'[q] = run[q] /\ pc'[q] = pc[q]
      BY <2>1 DEF TypeOK
  <2> QED BY <2>2, <2>3, <2>4 DEF Grown
<1>3. ASSUME NEW p \in Client, Kill(p) PROVE Grown'
  <2>1. UNCHANGED <<tfvars, tfstate>> /\ pc'[p] = "idle" /\ run'[p].command = "none"
      BY <1>3, ReturnEffect DEF Kill, stores, NoRun
  <2>2. \A q \in Client \ {p} : run'[q] = run[q] /\ pc'[q] = pc[q]
      BY <1>3, StepIsLocal
  <2> QED BY <2>1, <2>2 DEF Grown
<1>4. ASSUME NEW p \in Client, Step(p) PROVE Grown'
  <2>1. \A q \in Client \ {p} : run'[q] = run[q] /\ pc'[q] = "idle"
      BY <1>4, StepIsActive, StepIsLocal DEF ChangeInv, OneCommand
  <2>2. pc[p] # "idle" /\ run[p].command \in Command \cup {"none"} /\ tfvars \subseteq run[p].machines
      BY <1>4, StepIsActive DEF Grown
  <2>3. /\ run'[p].command \in Command \cup {"none"}
        /\ pc'[p] # "idle" => run[p].machines \subseteq run'[p].machines
    <3>1. CASE Ends(p)
        BY <3>1, ReturnEffect DEF Ends, NoRun
    <3>2. CASE Continues(p)
      <4>1. PICK s, r : /\ GotoWith(p, s, r) /\ r.command = run[p].command
                        /\ pc[p] # "removeMachine" => run[p].machines \subseteq r.machines
          BY <3>2 DEF Continues
      <4>2. pc[p] # "removeMachine"
          BY <2>2, CommandOfPhase DEF OnlyGrows, ChangeInv, Ordered, MethodSteps
      <4> QED BY <2>2, <4>1, <4>2, GotoWithEffect
    <3> QED BY <1>4, <3>1, <3>2, StepShape
  <2>4. \/ UNCHANGED <<tfvars, tfstate>>
        \/ tfvars' = run[p].machines /\ run'[p] = run[p] /\ tfstate' = tfstate
        \/ tfvars' = tfvars /\ tfstate' \in {tfvars, {}}
      BY <1>4, <2>2, GrowthSteps
      DEF TerraformApplied, TerraformDestroyed, Provision, KubeadmInit, KubeadmJoin
  <2> QED BY <2>1, <2>2, <2>3, <2>4 DEF Grown
<1> QED BY <1>1, <1>2, <1>3, <1>4 DEF Next, Finished, vars, stores, Grown

\* The first master of the inventory is the first master there is.
LEMMA FirstIsLeast ==
    ASSUME ChangeInv, FirstIsInitial, Grown, inventory = tfstate, Masters(inventory) # {}
    PROVE  FirstMaster = LeastMaster /\ LeastMaster \in Masters(Machine)
<1>1. Masters(Machine) \in SUBSET Nat /\ Masters(inventory) \subseteq Masters(Machine)
    BY MachineAssumption DEF Masters, ChangeInv, TypeOK, StoresTypeOK
<1>2. LeastMaster \in Masters(Machine) /\ \A y \in Masters(Machine) : LeastMaster <= y
    BY <1>1, MinIsLeast DEF FirstIsInitial, LeastMaster
<1>3. Masters(inventory) \in SUBSET Nat
    BY <1>1
<1>4. FirstMaster \in Masters(inventory) /\ \A y \in Masters(inventory) : FirstMaster <= y
    BY <1>3, MinIsLeast DEF FirstMaster
<1>5. LeastMaster \in Masters(inventory)
    BY <1>2 DEF FirstIsInitial, Grown, Masters
<1>6. FirstMaster <= LeastMaster /\ LeastMaster <= FirstMaster
    BY <1>1, <1>2, <1>4, <1>5
<1>7. FirstMaster \in Nat /\ LeastMaster \in Nat
    BY <1>1, <1>2, <1>3, <1>4
<1> QED BY <1>2, <1>6, <1>7

\* Settling hosts that have kept their files keeps one control plane one.
LEMMA JointSettled ==
    ASSUME StoresTypeOK, Joint, LeastMaster \in Masters(Machine),
           NEW h \in [Machine -> HostStates], NEW e, NEW k, Settle(h, node, e, k),
           \A m \in Machine : h[m] = host[m]
    PROVE  Joint'
<1>1. CASE \A m \in Machine : host[m] = CleanHost
  <2>1. \A m \in Machine : host'[m] = CleanHost
      BY <1>1, SettleEffect
  <2> QED BY <2>1 DEF Joint
<1>2. ASSUME NEW c \in ControlPlane, MemberOf(LeastMaster, c),
             \A m \in Machine : host[m] = CleanHost \/ MemberOf(m, c)
      PROVE  Joint'
  <2>1. LeastMaster \in Machine /\ h[LeastMaster].cp = c
      BY <1>2 DEF Masters, MemberOf
  <2>2. node'[c] = node[c]
    <3>1. node \in [ControlPlane -> [Machine -> NodeStates]]
        BY DEF StoresTypeOK
    <3>2. \E x \in Masters(Machine) : h[x].cp = c
        BY <2>1
    <3> QED BY <3>1, <3>2, SettleKeepsPlane
  <2>3. ASSUME NEW m \in Machine, MemberOf(m, c) PROVE MemberOf(m, c)'
    <3>1. h[m].cp = c /\ h[m].admin = host[m].admin /\ h[m].kubelet = host[m].kubelet
        BY <2>3 DEF MemberOf
    <3>2. host'[m].admin = host[m].admin /\ host'[m].kubelet = host[m].kubelet /\ host'[m].cp = c
        BY <2>1, <3>1, SettleEffect
    <3> QED BY <2>2, <2>3, <3>2 DEF MemberOf
  <2>4. ASSUME NEW m \in Machine, host[m] = CleanHost PROVE host'[m] = CleanHost
      BY <2>4, SettleEffect
  <2>5. MemberOf(LeastMaster, c)'
      BY <1>2, <2>1, <2>3
  <2>6. \A m \in Machine : (host[m] = CleanHost \/ MemberOf(m, c))'
      BY <1>2, <2>3, <2>4
  <2>7. LeastMaster' = LeastMaster
      BY DEF LeastMaster, Masters
  <2> QED BY <2>5, <2>6, <2>7 DEF Joint
<1> QED BY <1>1, <1>2 DEF Joint

\* The first initialisation finds no machine that has joined.
LEMMA InitJoins ==
    ASSUME StoresTypeOK, Joint, LeastMaster \in Masters(Machine), ~host[LeastMaster].admin,
           KubeadmInit(LeastMaster, TRUE)
    PROVE  Joint'
<1>1. LeastMaster \in Machine /\ NodeType[LeastMaster] = "master"
    BY DEF Masters
<1>2. \A m \in Machine : host[m] = CleanHost
    BY <1>1 DEF Joint, MemberOf
<1>3. PICK c \in ControlPlane :
        /\ host' = [host EXCEPT ![LeastMaster] = [admin |-> TRUE, kubelet |-> TRUE, cp |-> c]]
        /\ node' = [node EXCEPT ![c][LeastMaster] = "ready"]
    BY DEF KubeadmInit
<1>4. MemberOf(LeastMaster, c)'
  <2>1. /\ host'[LeastMaster] = [admin |-> TRUE, kubelet |-> TRUE, cp |-> c]
        /\ node'[c][LeastMaster] = "ready"
      BY <1>1, <1>3 DEF StoresTypeOK
  <2> QED BY <1>1, <2>1 DEF MemberOf
<1>5. \A m \in Machine \ {LeastMaster} : host'[m] = CleanHost
    BY <1>2, <1>3 DEF StoresTypeOK
<1> QED BY <1>4, <1>5 DEF Joint

\* join-cluster joins what has not joined yet, and leaves the rest.
LEMMA JoinJoins ==
    ASSUME StoresTypeOK, Joint, LeastMaster \in Masters(Machine), ActiveMasters # {},
           KubeadmJoin(host[Min(ActiveMasters)].cp, JoiningNodes, {}, {}, {})
    PROVE  /\ Joint'
           /\ \E c \in ControlPlane : /\ c = host[Min(ActiveMasters)].cp
                                     /\ \A m \in K8sNodes(inventory) : MemberOf(m, c)'
<1> DEFINE J == JoiningNodes
<1>1. PICK f : f = Min(ActiveMasters)
    OBVIOUS
<1>2. f \in Machine /\ host[f].admin
  <2>1. ActiveMasters \in SUBSET Nat
      BY MachineAssumption DEF StoresTypeOK, ActiveMasters, Masters
  <2>2. f \in ActiveMasters
      BY <1>1, <2>1, MinIsMember
  <2> QED BY <2>2 DEF ActiveMasters, Masters, StoresTypeOK
<1>3. PICK c \in ControlPlane :
        MemberOf(LeastMaster, c) /\ \A m \in Machine : host[m] = CleanHost \/ MemberOf(m, c)
  <2>1. host[f] # CleanHost
      BY <1>2 DEF CleanHost
  <2> QED BY <1>2, <2>1 DEF Joint
<1>4. host[f].cp = c
    BY <1>2, <1>3 DEF MemberOf, CleanHost
<1>5. KubeadmJoin(c, J, {}, {}, {})
    BY <1>1, <1>4
<1>6. \A m \in Machine : m \in J =>
          host'[m] = [admin |-> NodeType[m] = "master", kubelet |-> TRUE, cp |-> c]
    BY <1>5, Zenon DEF KubeadmJoin
<1>7. \A m \in Machine : m \notin J => host'[m] = host[m]
    BY <1>5, Zenon DEF KubeadmJoin
<1>8. \A m \in Machine : /\ node[c][m] # "none" => node'[c][m] # "none"
                         /\ m \in J => node'[c][m] # "none"
  <2>1. node'[c] = [m \in Machine |->
                        IF m \in J \cup {} /\ node[c][m] = "none"
                        THEN "ready" ELSE node[c][m]]
      BY <1>5 DEF KubeadmJoin, StoresTypeOK
  <2> HIDE DEF J
  <2> QED BY <2>1
<1>9. ASSUME NEW m \in Machine, m \in J \/ MemberOf(m, c) PROVE MemberOf(m, c)'
  <2> HIDE DEF J
  <2>1. CASE m \in J
    <3>1. host'[m] = [admin |-> NodeType[m] = "master", kubelet |-> TRUE, cp |-> c]
        BY <1>6, <2>1
    <3>2. host'[m].admin = (NodeType[m] = "master") /\ host'[m].kubelet /\ host'[m].cp = c
        BY <3>1
    <3> QED BY <1>8, <2>1, <3>2 DEF MemberOf
  <2>2. CASE m \notin J
      BY <1>7, <1>8, <1>9, <2>2 DEF MemberOf
  <2> QED BY <2>1, <2>2
<1>10. \A m \in K8sNodes(inventory) : m \in Machine /\ (m \in J \/ MemberOf(m, c))
  <2> SUFFICES ASSUME NEW m \in K8sNodes(inventory), ~MemberOf(m, c)
               PROVE  m \in Machine /\ m \in J
      BY DEF K8sNodes, Masters, Workers, StoresTypeOK
  <2>1. m \in Machine
      BY DEF K8sNodes, Masters, Workers, StoresTypeOK
  <2>2. host[m] = CleanHost
      BY <1>3, <2>1
  <2> QED BY <2>1, <2>2 DEF JoiningNodes, CleanHost
<1> HIDE DEF J
<1>11. LeastMaster \in Machine
    BY DEF Masters
<1>12. MemberOf(LeastMaster, c)'
    BY <1>3, <1>9, <1>11
<1>13. \A m \in Machine : (host[m] = CleanHost \/ MemberOf(m, c))'
    BY <1>3, <1>7, <1>9
<1>14. Joint'
    BY <1>12, <1>13 DEF Joint
<1>15. \A m \in K8sNodes(inventory) : MemberOf(m, c)'
    BY <1>9, <1>10
<1> QED BY <1>1, <1>4, <1>14, <1>15

\* One control plane stays one.
LEMMA JointNext ==
    ASSUME Exclusive, OnlyGrows, FirstIsInitial, "command" \notin Faults
    PROVE  ChangeInv /\ PhasesFit /\ HostInv /\ Grown /\ Joint /\ [Next]_vars => Joint'
<1> SUFFICES ASSUME ChangeInv, PhasesFit, HostInv, Grown, Joint, [Next]_vars PROVE Joint'
    OBVIOUS
<1> TypeOK /\ StoresTypeOK /\ LeastMaster \in Masters(Machine)
  <2>1. Masters(Machine) \in SUBSET Nat
      BY MachineAssumption DEF Masters
  <2> QED BY <2>1, MinIsMember DEF FirstIsInitial, LeastMaster, ChangeInv, TypeOK
<1>1. CASE UNCHANGED <<host, node>>
    BY <1>1 DEF Joint, MemberOf, LeastMaster, Masters
<1>2. ASSUME NEW p \in Client, Step(p) PROVE Joint'
  <2>0. run[p].command \in Command \cup {"none"}
      BY DEF Grown
  <2>1. CASE TerraformApplied
    <3> DEFINE h == [m \in Machine |-> IF m \in tfvars THEN host[m] ELSE CleanHost]
    <3>1. Settle(h, node, etcd, kubeconfig)
        BY <2>1 DEF TerraformApplied, Provision
    <3>2. h \in [Machine -> HostStates]
        BY CleanHostType DEF StoresTypeOK
    <3>3. \A m \in Machine : h[m] = host[m]
        BY DEF HostInv, Grown
    <3> HIDE DEF h
    <3> QED BY <3>1, <3>2, <3>3, JointSettled
  <2>2. CASE TerraformDestroyed
    <3> DEFINE h == [m \in Machine |-> IF m \in {} THEN host[m] ELSE CleanHost]
    <3>1. Settle(h, node, etcd, kubeconfig)
        BY <2>2 DEF TerraformDestroyed, Provision
    <3>2. h \in [Machine -> HostStates] /\ \A m \in Machine : h[m] = CleanHost
        BY CleanHostType DEF StoresTypeOK
    <3> HIDE DEF h
    <3>3. \A m \in Machine : host'[m] = CleanHost
        BY <3>1, <3>2, SettleEffect
    <3> QED BY <3>3 DEF Joint
  <2>3. CASE /\ InitializeMaster(p) /\ Masters(inventory) # {} /\ ~host[FirstMaster].admin
             /\ KubeadmInit(FirstMaster, TRUE)
    <3>1. inventory = tfstate
        BY <2>3 DEF InitializeMaster, At, ChangeInv, Ordered, Rendered
    <3>2. FirstMaster = LeastMaster
        BY <2>3, <3>1, FirstIsLeast
    <3> QED BY <2>3, <3>2, InitJoins
  <2>4. CASE /\ ActiveMasters # {}
             /\ KubeadmJoin(host[Min(ActiveMasters)].cp, JoiningNodes, {}, {}, {})
      BY <2>4, JoinJoins
  <2>5. CASE KubectlWorks /\ SetNodeState(run[p].target, "drained")
    <3>1. kubeconfig.cp \in ControlPlane
        BY <2>5 DEF KubectlWorks, Healthy, StoresTypeOK, Kubeconfigs
    <3>2. /\ host' = host
          /\ node' = [node EXCEPT ![kubeconfig.cp][run[p].target] = "drained"]
        BY <2>5 DEF SetNodeState
    <3>3. \A c \in ControlPlane, m \in Machine : node[c][m] # "none" => node'[c][m] # "none"
        BY <3>1, <3>2 DEF StoresTypeOK
    <3>4. \A c \in ControlPlane, m \in Machine : MemberOf(m, c) => MemberOf(m, c)'
        BY <3>2, <3>3 DEF MemberOf
    <3>5. LeastMaster \in Machine /\ LeastMaster' = LeastMaster
        BY DEF Masters, LeastMaster
    <3> QED BY <3>2, <3>4, <3>5 DEF Joint
  <2> QED BY <1>1, <1>2, <2>0, <2>1, <2>2, <2>3, <2>4, <2>5, GrowthSteps
<1> QED BY <1>1, <1>2 DEF Next, Start, Kill, EditTFVars, Finished, vars, stores

\* What Apply ends with when no tool fails in a cluster that only grows.
GrowthInv ==
    /\ ChangeInv /\ PhasesFit /\ HostInv /\ Grown /\ Joint
    /\ \A p \in Client : Agreeing(p) /\ Yielding(p) /\ JoinedAll(p)

\* join-cluster joins every node to the control plane that the kubeconfig talks to.
LEMMA JoinedAllNext ==
    ASSUME Exclusive, FirstIsInitial, "command" \notin Faults
    PROVE  GrowthInv /\ [Next]_vars => \A p \in Client : JoinedAll(p)'
<1> SUFFICES ASSUME GrowthInv, [Next]_vars, NEW p \in Client,
                    run'[p].phase = "apply", pc'[p] = "encryptKubeconfig",
                    K8sNodes(inventory)' # {}
             PROVE  \E c \in ControlPlane : AllMembers(c)'
    BY DEF JoinedAll
<1> ChangeInv /\ TypeOK /\ StoresTypeOK /\ Yielding(p) /\ JoinedAll(p)
    BY DEF GrowthInv, ChangeInv, TypeOK
<1>1. CASE UNCHANGED vars
  <2>1. K8sNodes(inventory)' = K8sNodes(inventory)
      BY <1>1 DEF vars, stores, K8sNodes, Masters, Workers
  <2>2. PICK c \in ControlPlane : AllMembers(c)
      BY <1>1, <2>1 DEF vars, JoinedAll
  <2>3. AllMembers(c)'
      BY <1>1, <2>1, <2>2 DEF AllMembers, MemberOf, vars, stores
  <2> QED BY <2>3
<1>2. CASE Step(p)
  <2>1. /\ JoinCluster(p) /\ run[p].phase = "apply" /\ inventory' = inventory
        /\ ~Fail(p) /\ \A x : ~Return(p, x)
      BY <1>2, PlaybookOrder
  <2>3. K8sNodes(inventory)' = K8sNodes(inventory) /\ K8sNodes(inventory) # {}
      BY <2>1 DEF K8sNodes, Masters, Workers
  <2>4. /\ ActiveMasters # {}
        /\ KubeadmJoin(host[Min(ActiveMasters)].cp, JoiningNodes, {}, {}, {})
      BY <2>1, <2>3 DEF JoinCluster
  <2>5. LeastMaster \in Masters(Machine)
    <3>1. Masters(Machine) \in SUBSET Nat
        BY MachineAssumption DEF Masters
    <3> QED BY <3>1, MinIsMember DEF FirstIsInitial, LeastMaster
  <2>6. PICK c \in ControlPlane : /\ c = host[Min(ActiveMasters)].cp
                                  /\ \A m \in K8sNodes(inventory) : MemberOf(m, c)'
      BY <2>4, <2>5, JoinJoins DEF GrowthInv
  <2>7. Masters(inventory) # {}
      BY <2>4 DEF ActiveMasters
  <2>8. PICK d \in ControlPlane : FirstMasterOf(d) /\ Fetched(d) /\ host[FirstMaster].admin
      BY <2>1, <2>7 DEF JoinCluster, At, Yielding
  <2>9. host[Min(ActiveMasters)].cp = d
      BY <2>7, <2>8, FirstStaysFirst DEF FirstMasterOf, FirstMaster
  <2>10. kubeconfig'.cp = c
      BY <2>4, <2>6, <2>8, <2>9 DEF KubeadmJoin, Fetched
  <2> QED BY <2>3, <2>6, <2>10 DEF AllMembers
<1> QED BY <1>1, <1>2, OneAtWork

LEMMA GrowthInit ==
    ASSUME FirstIsInitial
    PROVE  Init => GrowthInv
<1> SUFFICES ASSUME Init PROVE GrowthInv
    OBVIOUS
<1>1. Grown /\ Joint
    BY DEF Init, Grown, Joint, NoRun
<1>2. \A p \in Client : Agreeing(p) /\ Yielding(p) /\ JoinedAll(p)
    BY DEF Init, Agreeing, Playing, Yielding, JoinedAll
<1> QED BY <1>1, <1>2, ChangeInit, PhasesInit, HostInit DEF GrowthInv

LEMMA GrowthNext ==
    ASSUME Exclusive, OnlyGrows, FirstIsInitial, "command" \notin Faults
    PROVE  GrowthInv /\ [Next]_vars => GrowthInv'
<1>1. ChangeInv /\ PhasesFit /\ [Next]_vars => PhasesFit'
    BY PhasesNext DEF ChangeInv
<1> QED BY <1>1, ChangeNext, HostNext, GrownNext, JointNext, AgreeingNext, YieldingNext,
           JoinedAllNext DEF GrowthInv

\* With one command at a time, in a cluster that only grows, when its first master is there
\* from the start and no tool fails, every Kubernetes machine has joined the control plane
\* of the kubeconfig when apply ends well, wherever earlier commands were killed.
THEOREM ApplyJoins ==
    ASSUME Exclusive, OnlyGrows, FirstIsInitial, "command" \notin Faults
    PROVE  Spec => ApplyJoinsAll
<1>1. GrowthInv /\ [Next]_vars =>
        [\A p \in Client :
            Completes(p) /\ run[p].phase = "apply"
                => \A m \in K8sNodes(tfstate') :
                       /\ host'[m].cp = kubeconfig'.cp
                       /\ node'[kubeconfig'.cp][m] # "none"]_vars
  <2> SUFFICES ASSUME GrowthInv, [Next]_vars, NEW p \in Client, Completes(p),
                      run[p].phase = "apply", NEW m \in K8sNodes(tfstate')
               PROVE  host'[m].cp = kubeconfig'.cp /\ node'[kubeconfig'.cp][m] # "none"
      OBVIOUS
  <2> ChangeInv /\ Agreeing(p) /\ JoinedAll(p) /\ StoresTypeOK
      BY DEF GrowthInv, ChangeInv, TypeOK
  <2>1. EncryptKubeconfig(p) /\ kubeconfig.state = "plaintext" /\ ~Return(p, "error")
      BY Completion, LastSteps
  <2>2. inventory = tfstate /\ tfstate' = tfstate
      BY <2>1 DEF EncryptKubeconfig, At, Agreeing, Playing
  <2>3. m \in K8sNodes(inventory)
      BY <2>2 DEF K8sNodes, Masters, Workers
  <2>6. PICK c \in ControlPlane : AllMembers(c)
      BY <2>1, <2>3 DEF EncryptKubeconfig, At, JoinedAll
  <2>4. /\ kubeconfig' = [kubeconfig EXCEPT !.state = "encrypted"]
        /\ UNCHANGED <<host, node>>
      BY <2>1 DEF EncryptKubeconfig
  <2>5. kubeconfig'.cp = kubeconfig.cp
      BY <2>4 DEF StoresTypeOK, Kubeconfigs
  <2> QED BY <2>3, <2>4, <2>5, <2>6 DEF AllMembers, MemberOf
<1> QED BY <1>1, GrowthInit, GrowthNext, PTL DEF Spec, ApplyJoinsAll

=============================================================================
