----------------------------- MODULE ClusterClient -----------------------------
(***************************************************************************)
(* The ck8s commands that change a cluster: cmd/ck8s/{k8s,internal,destroy} *)
(* and client/cluster.go.  A client is one running ck8s process.  It reads *)
(* the configuration once, when it starts, and then goes through the steps *)
(* of its command; every step is one call to an external tool or one write *)
(* of a file, so other clients, faults and a kill come between any two.    *)
(***************************************************************************)
EXTENDS ClusterTools

CONSTANTS
    Client,           \* processes that may run at the same time
    Command,          \* the commands the operators use
    Exclusive,        \* TRUE: operators run one command at a time
    InitialMachines,  \* the machines of the cluster flavor `ck8s init` wrote
    NoMachine,
    MaxCommands       \* bound: commands started in a behaviour

Commands == {"apply", "add", "clone", "replace", "remove", "reset", "drain",
             "terraform apply", "destroy", "edit"}

ASSUME CommandAssumption == Command \subseteq Commands
ASSUME ExclusiveAssumption == Exclusive \in BOOLEAN
ASSUME InitialMachinesAssumption == InitialMachines \subseteq Machine /\ InitialMachines # {}
ASSUME NoMachineAssumption == NoMachine \notin Machine
ASSUME MaxCommandsAssumption == MaxCommands \in Nat

VARIABLES
    pc,               \* the step each client is about to take
    run,              \* what each client holds in memory
    result,           \* how the last command of each client ended
    started           \* the number of commands started

vars == <<stores, pc, run, result, started>>

Steps == {"idle", "workspace", "plan", "configure", "nodeExists", "drain", "reset",
          "deleteNode", "removeMachine", "writeTFVars", "terraformApply", "writeInfra",
          "openInventory", "writeInventory", "waitForSSH", "infrastructure",
          "prepareNodes", "initializeMaster", "fetchKubeconfig", "joinCluster",
          "encryptKubeconfig", "cleanup", "terraformDestroy"}

\* The client method at work; "replace" goes through "join" and "remove".
Phases == {"none", "apply", "join", "remove", "reset", "drain", "terraform", "destroy"}

\* machines is the tfvars of the cluster object: a snapshot of the file, changed
\* in memory by AddMachine and RemoveMachine; created is the machine joined.
Runs == [command: Commands \cup {"none"}, phase: Phases, target: Machine \cup {NoMachine},
         created: Machine \cup {NoMachine}, machines: SUBSET Machine]

NoRun == [command |-> "none", phase |-> "none", target |-> NoMachine,
          created |-> NoMachine, machines |-> {}]

Results == {"none", "ok", "error", "killed"}

TypeOK ==
    /\ StoresTypeOK
    /\ pc \in [Client -> Steps]
    /\ run \in [Client -> Runs]
    /\ result \in [Client -> Results]
    /\ started \in 0..MaxCommands

Init ==
    /\ tfvars = InitialMachines
    /\ infra = {}
    /\ inventory = {}
    /\ kubeconfig = [state |-> "absent", cp |-> NoControlPlane]
    /\ tfstate = {}
    /\ balancer = {}
    /\ host = [m \in Machine |-> CleanHost]
    /\ node = [c \in ControlPlane |-> [m \in Machine |-> "none"]]
    /\ etcd = [c \in ControlPlane |-> {}]
    /\ pc = [p \in Client |-> "idle"]
    /\ run = [p \in Client |-> NoRun]
    /\ result = [p \in Client |-> "none"]
    /\ started = 0

-----------------------------------------------------------------------------
(* Control flow. *)

AllIdle == \A p \in Client : pc[p] = "idle"

At(p, step) == pc[p] = step

Goto(p, step) ==
    /\ pc' = [pc EXCEPT ![p] = step]
    /\ UNCHANGED <<run, result, started>>

GotoWith(p, step, r) ==
    /\ pc' = [pc EXCEPT ![p] = step]
    /\ run' = [run EXCEPT ![p] = r]
    /\ UNCHANGED <<result, started>>

Return(p, r) ==
    /\ pc' = [pc EXCEPT ![p] = "idle"]
    /\ run' = [run EXCEPT ![p] = NoRun]
    /\ result' = [result EXCEPT ![p] = r]
    /\ UNCHANGED started

\* The command ends with an error and the step had no effect.
Fail(p) == Return(p, "error") /\ UNCHANGED stores

CommandFails(p) == "command" \in Faults /\ Fail(p)

\* Join returned: replaceNode goes on with RemoveNode, addNode and cloneNode end.
Joined(p) ==
    IF run[p].command = "replace"
    THEN GotoWith(p, "plan", [run[p] EXCEPT !.phase = "remove"])
    ELSE Return(p, "ok")

FirstStep(c) ==
    CASE c = "apply" -> {"workspace"}
      [] c \in {"add", "clone", "replace", "remove"} -> {"plan"}
      [] c = "reset" -> {"reset"}
      [] c = "drain" -> {"drain"}
      [] c = "terraform apply" -> {"writeTFVars"}
      [] c = "destroy" -> {"cleanup", "terraformDestroy"}  \* --kubernetes-cleanup

FirstPhase(c) ==
    CASE c \in {"add", "clone", "replace"} -> "join"
      [] c = "terraform apply" -> "terraform"
      [] OTHER -> c

Targets(c) ==
    IF c \in {"apply", "terraform apply", "destroy"} THEN {NoMachine} ELSE Machine

\* A random name for a clone of m: not in use anywhere.
FreshNames(m) ==
    {n \in Machine \ (tfvars \cup tfstate \cup UNION {run[p].machines : p \in Client}) :
        /\ NodeType[n] = NodeType[m]
        /\ \A c \in ControlPlane : node[c][n] = "none" /\ n \notin etcd[c]}

\* withClusterClient: read and validate the configuration, then run the command.
\* Names bound the model: a machine is only cloned while a random name is left.
Start(p) ==
    /\ At(p, "idle")
    /\ Exclusive => AllIdle
    /\ started < MaxCommands
    /\ Valid(tfvars)
    /\ \E c \in Command \ {"edit"} : \E t \in Targets(c), s \in FirstStep(c) :
        /\ c \in {"clone", "replace"} /\ t \in tfvars => FreshNames(t) # {}
        /\ pc' = [pc EXCEPT ![p] = s]
        /\ run' = [run EXCEPT ![p] =
                       [command |-> c, phase |-> FirstPhase(c), target |-> t,
                        created |-> NoMachine, machines |-> tfvars]]
        /\ result' = [result EXCEPT ![p] = "none"]
        /\ started' = started + 1
        /\ UNCHANGED stores

\* The operator edits tfvars.json while no command runs.
EditTFVars ==
    /\ "edit" \in Command
    /\ started < MaxCommands
    /\ AllIdle
    /\ tfvars' \in SUBSET Machine
    /\ UNCHANGED <<infra, inventory, kubeconfig, tfstate, balancer, host, node, etcd,
                   pc, run, result, started>>

\* SIGKILL, or a signal no handler is registered for.
Kill(p) ==
    /\ "kill" \in Faults
    /\ ~At(p, "idle")
    /\ Return(p, "killed")
    /\ UNCHANGED stores

-----------------------------------------------------------------------------
(* AddMachine, CloneMachine and the Terraform steps. *)

\* terraformRemoteWorkspaceApply.
WorkspaceApply(p) ==
    /\ At(p, "workspace")
    /\ \/ Goto(p, "writeTFVars") /\ UNCHANGED stores
       \/ CommandFails(p)

\* TerraformPlanNoDiff compares the file, not the snapshot, with the state.
PlanNoDiff(p) ==
    /\ At(p, "plan")
    /\ \/ /\ NoDiffFound
          /\ Goto(p, IF run[p].phase = "remove" THEN "nodeExists" ELSE "configure")
          /\ UNCHANGED stores
       \/ ~NoDiffFound /\ Fail(p)
       \/ CommandFails(p)

Configured(p, m) ==
    GotoWith(p, "writeTFVars",
             [run[p] EXCEPT !.created = m, !.machines = @ \cup {m}])

\* AddMachine: validateMachine compares the version of the API server with that of
\* the image, and panics on the image of a load balancer, which has none.
AddMachine(p) ==
    /\ At(p, "configure")
    /\ run[p].command = "add"
    /\ LET m == run[p].target
           valid == KubectlWorks /\ NodeType[m] # "loadbalancer" /\ m \notin run[p].machines
       IN \/ valid /\ Configured(p, m) /\ UNCHANGED stores
          \/ ~valid /\ Fail(p)
          \/ CommandFails(p)

\* Mutant of CloneMachine: the clone is entered without a name of its own.
CloneUnnamed(p) ==
    /\ At(p, "configure")
    /\ run[p].command \in {"clone", "replace"}
    /\ run[p].target \in run[p].machines
    /\ FreshNames(run[p].target) # {}
    /\ Configured(p, run[p].created)
    /\ UNCHANGED stores

\* CloneMachine: only a clone with another image is validated.
CloneMachine(p) ==
    /\ At(p, "configure")
    /\ run[p].command \in {"clone", "replace"}
    /\ \/ /\ run[p].target \in run[p].machines
          /\ \E m \in FreshNames(run[p].target) : Configured(p, m)
          /\ UNCHANGED stores
       \/ (run[p].target \notin run[p].machines \/ ~KubectlWorks) /\ Fail(p)
       \/ CommandFails(p)

\* WriteTFVars validates the snapshot before it writes the file.
WriteTFVars(p) ==
    /\ At(p, "writeTFVars")
    /\ \/ /\ Valid(run[p].machines)
          /\ tfvars' = run[p].machines
          /\ Goto(p, "terraformApply")
          /\ UNCHANGED <<infra, inventory, tfstate, balancer, k8s>>
       \/ ~Valid(run[p].machines) /\ Fail(p)

\* Mutant of TerraformApply: infra.json is not rewritten.
ApplyLeavesInfra(p) ==
    /\ At(p, "terraformApply")
    /\ TerraformApplied
    /\ Goto(p, "openInventory")

\* terraform init and terraform apply, which reads tfvars.json.
TerraformApply(p) ==
    /\ At(p, "terraformApply")
    /\ \/ TerraformApplied /\ Goto(p, "writeInfra")
       \/ "command" \in Faults /\ TerraformApplyFailed /\ Return(p, "error")

WriteInfraJSON(p) ==
    /\ At(p, "writeInfra")
    /\ \/ /\ infra' = tfstate
          /\ Goto(p, "openInventory")
          /\ UNCHANGED <<tfvars, inventory, tfstate, balancer, k8s>>
       \/ CommandFails(p)

\* Mutants of AfterTerraformApply: RemoveNode leaves the load balancers alone;
\* replace removes the old node as soon as the new machine is there.
BalancersForgotten(p) ==
    IF run[p].phase \in {"apply", "join"} THEN Goto(p, "waitForSSH") ELSE Return(p, "ok")
ReplacedAtOnce(p) ==
    IF run[p].phase = "apply" THEN Goto(p, "waitForSSH") ELSE Joined(p)

AfterTerraformApply(p) ==
    CASE run[p].phase \in {"apply", "join"} -> Goto(p, "waitForSSH")
      [] run[p].phase = "remove" /\ CloudProvider = "safespring" -> Goto(p, "infrastructure")
      [] OTHER -> Return(p, "ok")

\* Mutant of OpenInventory: the truncated inventory is not rendered.
InventoryNotRendered(p) ==
    /\ At(p, "openInventory")
    /\ inventory' = {}
    /\ AfterTerraformApply(p)
    /\ UNCHANGED <<tfvars, infra, tfstate, balancer, k8s>>

\* WriteAnsibleInventory opens the file with O_TRUNC before it asks for the state.
OpenInventory(p) ==
    /\ At(p, "openInventory")
    /\ inventory' = {}
    /\ Goto(p, "writeInventory")
    /\ UNCHANGED <<tfvars, infra, tfstate, balancer, k8s>>

WriteInventory(p) ==
    /\ At(p, "writeInventory")
    /\ \/ /\ inventory' = tfstate
          /\ AfterTerraformApply(p)
          /\ UNCHANGED <<tfvars, infra, tfstate, balancer, k8s>>
       \/ CommandFails(p)

-----------------------------------------------------------------------------
(* The rest of Apply and Join. *)

\* Apply waits for every machine of the state, Join for the one it created.
WaitForSSH(p) ==
    /\ At(p, "waitForSSH")
    /\ \/ /\ run[p].phase = "join" => run[p].created \in tfstate
          /\ Goto(p, IF run[p].phase = "apply" /\ CloudProvider = "safespring"
                     THEN "infrastructure" ELSE "prepareNodes")
          /\ UNCHANGED stores
       \/ run[p].phase = "join" /\ run[p].created \notin tfstate /\ Fail(p)
       \/ CommandFails(p)

\* The infrastructure playbook: before the nodes join in Apply, after in Join.
Infrastructure(p) ==
    /\ At(p, "infrastructure")
    /\ \/ /\ HostsReachable
          /\ balancer' = IF LoadBalancers(inventory) = {} THEN balancer ELSE K8sNodes(inventory)
          /\ \/ run[p].phase = "apply" /\ Goto(p, "prepareNodes")
             \/ run[p].phase = "join" /\ Joined(p)
             \/ run[p].phase = "remove" /\ Return(p, "ok")
          /\ UNCHANGED <<tfvars, infra, inventory, tfstate, k8s>>
       \/ ~HostsReachable /\ Fail(p)
       \/ CommandFails(p)

PrepareNodes(p) ==
    /\ At(p, "prepareNodes")
    /\ \/ /\ HostsReachable
          /\ Goto(p, IF run[p].phase = "apply" THEN "initializeMaster" ELSE "joinCluster")
          /\ UNCHANGED stores
       \/ ~HostsReachable /\ Fail(p)
       \/ CommandFails(p)

\* initialize-master, up to the fetch.  Without masters the play has no hosts.
InitializeMaster(p) ==
    /\ At(p, "initializeMaster")
    /\ LET masters == Masters(inventory)
           first == Min(masters)
       IN \/ masters = {} /\ Goto(p, "joinCluster") /\ UNCHANGED stores
          \/ /\ masters # {} /\ first \in tfstate /\ ~host[first].admin
             /\ \/ KubeadmInit(first, TRUE) /\ Goto(p, "fetchKubeconfig")
                \/ /\ "command" \in Faults
                   /\ KubeadmInit(first, FALSE)
                   /\ Return(p, "error")
          \/ /\ masters # {} /\ host[first].admin /\ MasterReady(first)
             /\ Goto(p, "fetchKubeconfig") /\ UNCHANGED stores
          \/ /\ masters # {}
             /\ first \notin tfstate \/ (host[first].admin /\ ~MasterReady(first))
             /\ Fail(p)
          \/ masters # {} /\ CommandFails(p)

FetchAdminConf(p) ==
    /\ At(p, "fetchKubeconfig")
    /\ LET first == Min(Masters(inventory))
           readable == Masters(inventory) # {} /\ host[first].admin
       IN \/ readable /\ FetchKubeconfig(first) /\ Goto(p, "joinCluster")
          \/ ~readable /\ Fail(p)
          \/ CommandFails(p)

\* Mutant of AfterJoinCluster: Apply ends without encryptKubeconfig.
KubeconfigLeftPlain(p) == IF run[p].phase = "apply" THEN Return(p, "ok") ELSE Joined(p)

AfterJoinCluster(p) ==
    CASE run[p].phase = "apply" -> Goto(p, "encryptKubeconfig")
      [] run[p].phase = "join" /\ CloudProvider = "safespring" -> Goto(p, "infrastructure")
      [] OTHER -> Joined(p)

\* join-cluster: every node of the inventory that is not a member of a control
\* plane joins that of masters_active[0].
JoinCluster(p) ==
    /\ At(p, "joinCluster")
    /\ LET cp == host[Min(ActiveMasters)].cp
           canJoin == ActiveMasters # {} /\ HostsReachable /\ Healthy(cp)
       IN \/ canJoin /\ KubeadmJoin(cp, JoiningNodes, {}, {}, {}) /\ AfterJoinCluster(p)
          \/ /\ canJoin /\ "command" \in Faults
             /\ KubeadmJoinFailed(cp)
             /\ Return(p, "error")
          \/ /\ K8sNodes(inventory) = {} /\ HostsReachable
             /\ AfterJoinCluster(p) /\ UNCHANGED stores
          \/ ~canJoin /\ ~(K8sNodes(inventory) = {} /\ HostsReachable) /\ Fail(p)

\* encryptKubeconfig: sops -e -i, and when it fails the file is deleted.
EncryptKubeconfig(p) ==
    /\ At(p, "encryptKubeconfig")
    /\ \/ /\ kubeconfig.state = "plaintext"
          /\ kubeconfig' = [kubeconfig EXCEPT !.state = "encrypted"]
          /\ Return(p, "ok")
       \/ /\ kubeconfig.state # "plaintext" \/ "command" \in Faults
          /\ kubeconfig' = [state |-> "absent", cp |-> NoControlPlane]
          /\ Return(p, "error")
    /\ UNCHANGED <<tfvars, infra, inventory, tfstate, balancer, host, node, etcd>>

-----------------------------------------------------------------------------
(* RemoveNode, ResetNode and DrainNode. *)

\* Mutant of NodeFound: the name looked up is never that of a node.
NodeNeverFound(p) == FALSE

NodeFound(p) == NodeState(run[p].target) # "none"

\* NodeExists looks the node up under the name the provider gives it.  Any output
\* with "not found" in it means that there is no such node.
NodeExists(p) ==
    /\ At(p, "nodeExists")
    /\ LET found == CloudProvider = "aws" => run[p].target \in tfstate
       IN \/ /\ KubectlWorks /\ found
             /\ Goto(p, IF NodeFound(p) THEN "drain" ELSE "reset")
             /\ UNCHANGED stores
          \/ "lookup" \in Faults /\ found /\ Goto(p, "reset") /\ UNCHANGED stores
          \/ ~(KubectlWorks /\ found) /\ Fail(p)
          \/ CommandFails(p)

\* Mutant of AfterDrain: RemoveNode does not reset the machine.
ResetSkipped(p) ==
    IF run[p].phase = "remove" THEN Goto(p, "removeMachine") ELSE Return(p, "ok")

AfterDrain(p) ==
    IF run[p].phase = "remove" THEN Goto(p, "reset") ELSE Return(p, "ok")

\* kubectl drain cordons the node first and then evicts its pods.
DrainNode(p) ==
    /\ At(p, "drain")
    /\ LET known == /\ KubectlWorks
                    /\ NodeNamedByPrefix
                    /\ NodeState(run[p].target) # "none"
       IN \/ known /\ SetNodeState(run[p].target, "drained") /\ AfterDrain(p)
          \/ /\ known /\ "command" \in Faults
             /\ SetNodeState(run[p].target, "cordoned")
             /\ Return(p, "error")
          \/ ~known /\ Fail(p)
          \/ CommandFails(p)

\* Mutant of ResetMachine: the node of a machine to be removed is not deleted.
NodeLeftRegistered(p) ==
    /\ At(p, "reset")
    /\ run[p].target \in tfstate
    /\ KubeadmReset(run[p].target)
    /\ Goto(p, IF run[p].phase = "remove" THEN "removeMachine" ELSE "deleteNode")

\* ResetNode, the SSH session.  A lost connection yields an error without an
\* exit code, which the runner drops: the reset may not have happened at all.
\* There is no kubeadm on a load balancer.
ResetMachine(p) ==
    /\ At(p, "reset")
    /\ LET m == run[p].target
           reachable == m \in tfstate /\ NodeType[m] # "loadbalancer"
       IN \/ reachable /\ KubeadmReset(m) /\ Goto(p, "deleteNode")
          \/ /\ reachable /\ "connection" \in Faults
             /\ Goto(p, "deleteNode") /\ UNCHANGED stores
          \/ reachable /\ "command" \in Faults /\ KubeadmReset(m) /\ Return(p, "error")
          \/ ~reachable /\ Fail(p)
          \/ CommandFails(p)

\* kubectl delete node fails for a node that is not registered.
DeleteNode(p) ==
    /\ At(p, "deleteNode")
    /\ LET known == /\ KubectlWorks
                    /\ NodeNamedByPrefix
                    /\ NodeState(run[p].target) # "none"
       IN \/ /\ known /\ SetNodeState(run[p].target, "none")
             /\ IF run[p].phase = "remove" THEN Goto(p, "removeMachine") ELSE Return(p, "ok")
          \/ ~known /\ Fail(p)
          \/ CommandFails(p)

RemoveMachine(p) ==
    /\ At(p, "removeMachine")
    /\ GotoWith(p, "writeTFVars", [run[p] EXCEPT !.machines = @ \ {run[p].target}])
    /\ UNCHANGED stores

-----------------------------------------------------------------------------
(* Destroy and `internal terraform destroy`. *)

\* Volumes, services and pods are deleted if the API server answers.
KubernetesCleanup(p) ==
    /\ At(p, "cleanup")
    /\ \/ Goto(p, "terraformDestroy") /\ UNCHANGED stores
       \/ KubectlWorks /\ CommandFails(p)

TerraformDestroy(p) ==
    /\ At(p, "terraformDestroy")
    /\ \/ TerraformDestroyed /\ Return(p, "ok")
       \/ "command" \in Faults /\ TerraformDestroyFailed /\ Return(p, "error")

-----------------------------------------------------------------------------

Step(p) ==
    \/ WorkspaceApply(p) \/ PlanNoDiff(p) \/ AddMachine(p) \/ CloneMachine(p)
    \/ WriteTFVars(p) \/ TerraformApply(p) \/ WriteInfraJSON(p)
    \/ OpenInventory(p) \/ WriteInventory(p) \/ WaitForSSH(p)
    \/ Infrastructure(p) \/ PrepareNodes(p) \/ InitializeMaster(p)
    \/ FetchAdminConf(p) \/ JoinCluster(p) \/ EncryptKubeconfig(p)
    \/ NodeExists(p) \/ DrainNode(p) \/ ResetMachine(p) \/ DeleteNode(p)
    \/ RemoveMachine(p) \/ KubernetesCleanup(p) \/ TerraformDestroy(p)

\* The model's bound is reached; the operators have gone home.
Finished ==
    /\ AllIdle
    /\ started = MaxCommands
    /\ UNCHANGED vars

Next ==
    \/ EditTFVars
    \/ \E p \in Client : Start(p) \/ Step(p) \/ Kill(p)
    \/ Finished

Spec == Init /\ [][Next]_vars

-----------------------------------------------------------------------------
(* Properties. *)

\* Client p takes a step, and the command of client p ends well.
Moves(p) == pc'[p] # pc[p]
Completes(p) == Moves(p) /\ result'[p] = "ok"

\* Every playbook runs on an inventory that lists exactly the machines that
\* exist: TerraformApply rewrites the inventory after every change of the state,
\* although it truncates it first and may stop before it is rendered.
PlaybooksSeeState ==
    \A p \in Client :
        pc[p] \in {"infrastructure", "prepareNodes", "initializeMaster",
                   "fetchKubeconfig", "joinCluster"} => inventory = tfstate

\* terraform apply as a part of RemoveNode destroys the machine the operator
\* named and touches no other, whatever was pending in tfvars.json before and
\* wherever it stops.
RemoveTouchesOnlyItsMachine ==
    [][\A p \in Client :
        At(p, "terraformApply") /\ run[p].phase = "remove" /\ Moves(p)
            => tfstate' \in {tfstate, tfstate \ {run[p].target}}]_vars

\* A machine that RemoveNode destroys has left Kubernetes: the reset of a running
\* etcd member took it out of the etcd cluster of the API server, kubeadm left no
\* file on the machine that goes, and the API server has no node for it.
RemovedMachineHadLeft ==
    [][\A p \in Client :
        run[p].phase = "remove" /\ Moves(p) /\ kubeconfig.cp \in ControlPlane
            => /\ /\ At(p, "reset") /\ pc'[p] = "deleteNode"
                  /\ run[p].target \in RunningMembers(kubeconfig.cp)
                  => run[p].target \notin etcd'[kubeconfig.cp]
               /\ At(p, "terraformApply") => \A m \in tfstate \ tfstate' :
                      host[m] = CleanHost /\ NodeState(m) = "none"]_vars

\* RemoveNode resets a machine only when its node is drained or not registered.
ResetOnlyDrained ==
    \A p \in Client :
        At(p, "reset") /\ run[p].phase = "remove"
            => /\ kubeconfig.cp # NoControlPlane
               /\ NodeState(run[p].target) \in {"drained", "none"}

\* terraform apply as a part of Join adds the machine named and touches no other.
JoinTouchesOnlyItsMachine ==
    [][\A p \in Client :
        At(p, "terraformApply") /\ run[p].phase = "join" /\ Moves(p)
            => tfstate' \in {tfstate, tfstate \cup {run[p].created}}]_vars

\* replace never takes the old node away before the new one is a working member
\* of a control plane.
ReplacementJoinedFirst ==
    \A p \in Client :
        run[p].command = "replace" /\ run[p].phase = "remove"
            => LET new == run[p].created
               IN /\ new \in tfstate
                  /\ NodeType[new] # "loadbalancer" =>
                         /\ host[new].cp # NoControlPlane
                         /\ node[host[new].cp][new] = "ready"
                  /\ NodeType[new] = "master" => new \in etcd[host[new].cp]

\* When a command that runs TerraformApply ends well, the four places that list
\* the machines of the cluster agree.
CompletedCommandsAgree ==
    [][\A p \in Client :
        Completes(p) /\ run[p].phase \in {"apply", "join", "remove", "terraform"}
            => tfvars' = tfstate' /\ inventory' = tfstate' /\ infra' = tfstate']_vars

\* When apply ends well, kubectl works: the kubeconfig is that of a control plane
\* that answers, and it is encrypted.  Load balancers alone have no control plane.
ApplyYieldsKubectl ==
    [][\A p \in Client :
        Completes(p) /\ run[p].phase = "apply" /\ K8sNodes(tfstate') # {}
            => KubectlWorks']_vars

\* When a command that ends with the infrastructure playbook ends well, the load
\* balancers of Safespring send traffic to exactly the nodes that exist.
BalancerSeesNodes ==
    [][\A p \in Client :
        Completes(p) /\ run[p].phase \in {"apply", "join", "remove"}
            => (LoadBalancers(tfstate') # {} => balancer' = K8sNodes(tfstate'))]_vars

\* Removing or replacing a node never costs the control plane its quorum.
RemoveKeepsQuorum ==
    [][\A p \in Client :
        Completes(p) /\ run[p].phase = "remove" => KubectlWorks']_vars

\* When apply ends well, every Kubernetes machine has joined one control plane.
ApplyJoinsAll ==
    [][\A p \in Client :
        Completes(p) /\ run[p].phase = "apply"
            => \A m \in K8sNodes(tfstate') :
                   /\ host'[m].cp = kubeconfig'.cp
                   /\ node'[kubeconfig'.cp][m] # "none"]_vars

\* "This command will cordon and drain a Kubernetes node" (cmd/ck8s/k8s.go): while
\* no command fails and the API server has a node for the machine, that is drained.
DrainFindsNode ==
    [][\A p \in Client :
        At(p, "drain") /\ Moves(p) /\ KubectlWorks /\ NodeState(run[p].target) # "none"
            => node'[kubeconfig.cp][run[p].target] = "drained"]_vars

=============================================================================
