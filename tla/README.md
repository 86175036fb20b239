# A TLA+ verification of ck8s-cluster

`ck8s` is a command line program that creates and changes Kubernetes clusters at
five cloud providers. It keeps no daemon and no database: every command reads a
configuration directory, drives Terraform, Ansible, kubectl, sops and kubeadm one
after the other, and writes some of the files back. What can go wrong is therefore
in the sequence: a command stops half way, another runs at the same time, a file
is older than the state it describes, an answer of a tool is misread. This
directory models those sequences, checks them with TLC and proves the most
important results with TLAPS.

## Inventory

| Part | Source | State it keeps | Operations | Talks to |
|---|---|---|---|---|
| Commands | `cmd/ck8s/*.go` | none; flags | one per command | builds a `ClusterClient`, calls its methods |
| Cluster client | `client/cluster.go` | the cluster object, read from the files once when the command starts | `Apply`, `Join`, `AddMachine`, `CloneMachine`, `RemoveNode`, `ResetNode`, `DrainNode`, `Destroy`, `TerraformApply`, `Upgrade` | every other part |
| Configuration files | `client/config.go`, `client/infra.go`, `client/ansibleinventory.go` | `tfvars.json`, `infra.json`, the inventory, the kubeconfig | read, write; both clusters share the first two | the file system |
| Initialisation | `client/init.go`, `cmd/ck8s/init.go` | nine files, of which the key pairs are per cluster | write each unless it exists | sops |
| Runner | `runner/standard.go`, `signal.go`, `local.go`, `ssh.go` | `caughtSignals`, a goroutine and a channel per command | `Run`, `Background`, `Output` | the child process, the operator's signals |
| SSH agent | `runner/sshagent.go` | an agent process per playbook | start, add key, kill | the runner |
| Tools | `runner/terraform.go`, `kubectl.go`, `kubeadm.go`, `ansible.go`, `sops.go` | none | one method per call | the runner |
| Playbooks | `ansible/` | files under `/etc/kubernetes` on each machine | infrastructure, prepare-nodes, initialize-master, join-cluster | the machines |
| Machine client | `client/machine.go`, `client/ssh.go`, `runner/ssh.go` | one SSH connection; the pipe that takes the place of `os.Stdin`, and two goroutines | wait, reset, upgrade | the machine, the operator's terminal |
| Types and providers | `api/` | the machines of a cluster, the images of a provider | add, clone, remove, validate | kubectl, for the version of the API server |

Hard parts: every command is a chain of a dozen calls with side effects on five
systems and any call may fail; the operator may interrupt between any two; the
runner forwards signals from a goroutine that races with the return of the
command; two operators may share a configuration directory, and the two clusters of
an environment always share two of its files and the Terraform workspace; decisions
are taken from strings in the output of tools and from files that tell whether
something was done; an SSH session takes the terminal away from the process for good. `PROJECT.json` lists each of these at its line under `hazards`.

What makes each part correct:

* cluster client: a command changes the machine it was asked to change and no
  other; a machine leaves Kubernetes before it is destroyed; a replacement works
  before the original goes; afterwards files, state, load balancers and kubeconfig
  agree; an interrupted apply can be repeated;
* configuration files: nothing runs on an inventory that is not the state; what one
  cluster's commands wrote survives the other's, and neither touches the other's
  machines;
* initialisation: it can be repeated, spoils nothing, and keys fit;
* runner: a command returns, it does not report success when it was interrupted,
  and nothing is left behind;
* SSH agent: a playbook has its key, and no agent is left behind silently;
* machine client: a wait ends in time and misses no machine that is there, every
  connection is closed, and the operator's answer reaches the command that asks;
* types and providers: nodes keep to the version skew policy of Kubernetes.

## Modules

| Module | What it is |
|---|---|
| `ClusterTools` | the stores of one cluster as VARIABLES, and what Terraform, kubeadm, kubectl and the playbooks do to them |
| `ClusterClient` | the commands: extends `ClusterTools` with the steps of every running `ck8s` process; `Spec` and the properties |
| `MachineChange` | the abstract specification: what a command promises about machines |
| `ClusterClientRefinement` | the mapping from `ClusterClient` to `MachineChange` |
| `StandardRunner` | one `StandardRunner` with child, pipes, signals and goroutines |
| `SSHAgentRunner` | the SSH agent runner, composed with the `StandardRunner` it uses |
| `ConfigInit` | `ck8s init`, run again and run concurrently |
| `SharedFiles` | `tfvars.json`, `infra.json` and the workspace under the commands of both clusters |
| `MachineVersions` | images, flavors, validation and upgrade |
| `MachineClient` | waits and sessions over SSH, with time and with the operator's terminal |
| `MCClusterClient`, `MCConfigInit`, `MCSharedFiles`, `MCMachineVersions` | node types, choices and symmetry for TLC; the other modules are run as they are |
| `ClusterClientProofs`, `ClusterClientRefinementProofs`, `StandardRunnerProofs`, `SSHAgentRunnerProofs`, `ConfigInitProofs`, `SharedFilesProofs`, `MachineVersionsProofs`, `MachineClientProofs` | theorems |

The modules meet at the calls of the code. A step of `ClusterClient` stands for a
whole call of the runner, whose inside is `StandardRunner`, or, for a playbook,
for the four of `SSHAgentRunner`; its `WaitForSSH` and `ResetMachine` are jobs of
`MachineClient`; its `AddMachine` and `CloneMachine` pick names, `MachineVersions`
picks images. `SharedFiles` repeats the file steps of `ClusterClient` finer
(truncation and content apart) and for two clusters, and leaves the rest out.

### ClusterTools and ClusterClient

A machine is a number, its node type a constant; numbers are ordered like the
names in an inventory, because a playbook for `masters[0]` runs on the first. The
stores are sets of machines (`tfvars`, `infra`, `inventory`, `tfstate`,
`balancer`), the kubeconfig with its encryption state and the control plane it
points to, the kubeadm files of each machine (`host`: admin.conf, kubelet.conf, and
the control plane they belong to), and for each control plane ever initialised the
registered nodes and the etcd members. A control plane whose masters are all gone
ceases to exist (`Settle`). It answers while a majority of its members runs
(`Healthy`), and kubectl works when it answers and the kubeconfig is encrypted,
since the program only runs kubectl under `sops exec-file`.

A client has a program counter `pc` over the calls of the method it is in, and
`run`, what it has in memory: the command, the phase (the method: apply, join,
remove ...; replace is join and then remove), the target, the machine created and
`machines`, the snapshot of `tfvars.json` it took at start. Each action is one call
to a tool or one file operation with its guard, its effect, its partial effect
where the tool can stop half way, and its error return:

| Code | Actions in order |
|---|---|
| `Apply` | `WorkspaceApply`, *TerraformApply*, `WaitForSSH`, (`Infrastructure` on Safespring), `PrepareNodes`, `InitializeMaster`, `FetchAdminConf`, `JoinCluster`, `EncryptKubeconfig` |
| `TerraformApply` | `WriteTFVars`, `TerraformApply`, `WriteInfraJSON`, `OpenInventory`, `WriteInventory` |
| `AddMachine`/`CloneMachine` + `Join` | `PlanNoDiff`, `AddMachine` or `CloneMachine`, *TerraformApply*, `WaitForSSH`, `PrepareNodes`, `JoinCluster`, (`Infrastructure`) |
| `RemoveNode` | `PlanNoDiff`, `NodeExists`, `DrainNode`, `ResetMachine`, `DeleteNode`, `RemoveMachine`, *TerraformApply*, (`Infrastructure`) |
| `ResetNode`, `DrainNode` | `ResetMachine`, `DeleteNode`; `DrainNode` |
| `Destroy` | `KubernetesCleanup`, `TerraformDestroy` |

The environment: `EditTFVars` is the operator editing the configuration between
commands. `Faults` says what else may happen: `command` (a tool fails, before or
after part of its effect; an operator who declines Terraform's question is one of
these), `kill` (the process ends between two steps), `connection` (an SSH
connection is lost while its command runs, which the runner takes for success) and
`lookup` (kubectl fails with "not found" in its output). A kill is between steps;
the partial effects of a tool that is killed with the program are those of `command`.

Abstractions: a machine is `MachineResources` Terraform resources, and only whole
machines are planned; changes in place (a machine's size or image) do not occur.
`Valid` is `api.ValidateCluster`, which sees the machines of the OpenStack providers only:
those two need at least one, the others may do without. A join that stops half way
(`KubeadmJoinFailed`) leaves one master, or any number of workers, with a part of their
files; masters are over before workers begin.
`EditTFVars` happens while no command runs, so a concurrent edit is a concurrent
command. Names of clones are free numbers; a clone is only started while one is
left. Timing (the sleep in `ResetNode`, SSH timeouts) is left out: `WaitForSSH`
succeeds or fails. `Upgrade` changes nothing this module has, and is in
`MachineVersions` and `MachineClient`.

### MachineChange and ClusterClientRefinement

`MachineChange` has three variables: the machines that exist, those that belong to a
control plane, and the change under way, which is nothing, converge (apply,
`terraform apply`, destroy) or creates, replaces, removes or resets one machine. A
machine is created, joins, leaves and only then goes; the original of a replacement
may only be touched once the new one exists and, if it is a node, has joined
(`Supersede`). There are no files, tools, failures and retries: a command that fails
is one that ends early.

`ClusterClientRefinement` maps the Terraform state to `existing`, the kubeadm files of
the machines to `joined`, and command, phase and program counter of the client at work
to `change`; a replace turns into a remove at the plan between its two halves.
`ImplementsMachineChange` is `Abstract!Spec`. It is stated for one client (the
abstract specification has one change under way) and does not hold if `Faults` has
`connection`: a reset that was not done is taken for done, so a machine goes that has
not left. Nor does it hold when a plan of ten additions passes for none.

### StandardRunner

`main` is the program counter of `run()`: start the child, with an `OutputHandler`
read its pipe and then the other to EOF, register the signal handler, wait, close
it, look at `caughtSignals` and at the error of `Wait`. Actions of the child write to
pipes of bounded capacity and end it; `Signal` is the operator, dropped when the
channel is full and deadly when no handler is registered. `Receive`, `ReadCaught` and
`Forward` are the goroutine of one command: the append to `caughtSignals` is read
and write, since nothing synchronises it, and a goroutine outlives its command.
Exit codes are told apart only by what `handleWaitError` does with them.

### SSHAgentRunner

Extends `StandardRunner`: `role` says what the next command is for (the agent, its key,
the playbook, its kill, or another command of the client between two playbooks), and
each action of the runner that starts, ends or feeds a command is joined with what
`withSSHAgent` does then. `agents` are the agents that live, by the run that
started them; they survive the command, the call and the process. `ssh-agent` may print
too little (`ParseOutput` then has to fail), a child that is killed may have done its work or not,
and the kill, being a command of the same runner, fails after a caught signal.

### ConfigInit

A process walks over the six parts of `ConfigInitializer.Init` for the service and
then the workload cluster; files other than keys already exist the second time.
`Check` is `mkdirAllIfNotExists`; writing is truncation (`Open`) and content (`Write`)
as `ioutil.WriteFile` does it, and each may return an error (`Fail`), which leaves the
file as it is: absent, truncated or, for a key pair, with its first half only. Private keys are created
read-only, so the second writer fails, unless init runs as root (`AsRoot`). Runs are
numbered to tell whose key a file holds. Two histories state the properties: the files a run left
unfinished when it ended (`lost`) and the files there when a run began (`before`).
Two processes that write the same file at the same time are not told apart by its content.

### SharedFiles

Each cluster has an operator who runs one command at a time. A command reads the
machines of both clusters (`Start`), changes its own in memory (`Configure`), truncates
and writes the file, applies the module of its own cluster (`Applied`, the `-target`),
and merges its values into `infra.json`, which it truncates and writes too. Files that
were cut off are `Broken`: `readTFVars` fails on them, `renderInfraJSON` starts afresh.
Terraform may stop half way, and a command may be killed anywhere. `Destroy` with
`--destroy-remote-workspace` takes the state of both clusters; machines that run on
without one are `orphans`. Two histories state the properties: what each cluster's own
commands wrote last (`asked`) and whether commands have overlapped.

### MachineVersions

A command is one step here. A version is one number, minor and patch; an image stands
for its version. `MachineImages` and the flavors are those of the five providers, with
three node types and one for every other word an operator may type. `IsSupported`
subtracts unsigned integers (`Minus`). `validateMachine` asks whichever API server
answers; a clone without an image of its own is not validated. `Upgrade` takes the version
that `kubeadm` on the machine tells, which need not be that of the kubelet of its image
(`CHANGELOG.md:89`): `kubeadm` is any function from images to versions. It moves the
control plane one minor version up or down at most. `moved` records what upgrades have
done to the minor version.

### MachineClient

A command is a sequence of jobs (`Jobs`): wait for a machine, run a command in a
session, or a local command that asks for approval. `WaitForSSH` looks at the clock
between attempts, and an attempt is decrypt, dial, handshake, each with a longest
duration of which the code only sets that of dial; `DecryptTime` and `HandshakeTime`
are assumptions about sops and the peer: a host that accepts a connection and then
answers no handshake keeps `WaitForSSH` for ever (`client/ssh.go:67`), which
`WaitIsBounded` therefore does not cover. `Tick` is a second. A session that takes
input puts a pipe in the place of `os.Stdin`; `Pump` feeds it from the terminal for the
rest of the process, `Copy` empties it for the session and only notices the end of the
session when it has read something, which is why `Wait` adds a newline. A session whose
command does not start (`StartFails`) leaves the pipe without a copier. The operator
answers once when asked and may type early.

One assumption is about timing: before the next local command asks, the goroutines have
done what they can (`Quiet`), as seconds of kubectl or terraform init lie in between.

## Runs

| Run | Question | Result |
|---|---|---|
| `ClientOperations` | four commands of one operator on Exoscale, with edits, failing tools and kills: are machines taken away safely, do files and state agree, and is every step one of `MachineChange`? | holds, 1,380,000 states |
| `ClientSafespring` | do the load balancers follow the nodes, also with lost connections and false lookups? | holds, 1,170,000 states |
| `ClientInterrupted` | does apply, repeated after interruptions, join every machine to one control plane? | holds, 29,000 states |
| `AgentRunner` | four commands of one runner, two signals at any moment: success after a signal, return, goroutines, keys, agents left behind | holds, 116,000 states |
| `ConfigInit` | three runs of init by two operators, with failing sops calls and writes, and kills: what is written, what is lost, do the keys fit? | holds, 2,480,000 states |
| `SharedFiles` | four commands of two clusters, overlapping, failing, killed: whose machines are touched, and what is lost? | holds, 4,500,000 states |
| `MachineVersions` | add, clone, replace, remove and upgrade on clusters of any age, with newer kubeadms: version skew, nodes newer than the control plane | holds, 353,000 states |
| `MachineClient` | apply, replace, upgrade and status, machines that come up at any second or never: waits, connections, prompts, the end of each command | holds, 33,000 states |
| `ConnectionLost` | quorum after a remove whose SSH connection was lost | violated |
| `CloneInterrupted` | one control plane after an interrupted clone of a master and an apply | violated |
| `PlanTenToAdd` | remove touches only its machine, with ten pending resources | violated |
| `DrainOnAWS` | `ck8s drain` drains the node of its machine on AWS | violated |

The violated ones are disagreements between the code and its own comments, each
quoted in `PROJECT.json` under `findings`:

* `runner/standard.go:218` returns "handled" along with the error when a lost
  connection yields no exit code, and the error is dropped. A master whose
  `kubeadm reset` did not run is destroyed while etcd counts it.
* `ansible/initialize-master.yml:8` asks only the first master whether there is a
  control plane. Clones have hexadecimal names that sort before `master-0`.
* `runner/terraform.go:137` looks for a substring that "10 to add ..." contains.
  Azure has five resources per machine, so two pending machines are enough.
* `runner/kubectl.go:98` drains, and line 105 deletes, a node by the prefixed name of its machine.
  On AWS the node has the private DNS name, which only `NodeExists` builds
  (`client/cluster.go:401`), so drain fails, and remove and replace with it.

Further limits, which changing a constant of a run above, or the property, shows:

* `RemoveTouchesOnlyItsMachine` fails with two clients and `Exclusive = FALSE`:
  `client/cluster.go:456` plans with the file and line 485 applies the snapshot.
* `runner/standard.go:135` reads one pipe to its end before the other, so a command whose
  child fills the second one never returns. `RunReturns` says that this (`Blocked`) is
  the only way; the run reaches it, as its children write more than a pipe holds.
* `AcceptedSignalStops` of `StandardRunner` fails: `runner/standard.go:181` does not
  wait for the goroutine that records the signal, so a signal that was accepted at the
  last moment does not stop the caller. `NoSuccessAfterForward`, which holds, is about signals
  that were forwarded.
* `ResetOnlyDrained` and `ImplementsMachineChange`
  fail with `"lookup"` and `"connection"`, respectively, in `Faults`; `ApplyJoinsAll` fails with
  `"command"` (a join, of a worker too, that wrote kubelet.conf and failed is skipped for ever) and with
  `"reset"` among the commands.
* `ck8s init` that is killed, or fails to write, between truncation and content leaves
  a file that the next run takes for written, and when only the public key could not be written the
  next run ends well without one (`client/init.go:116`, `150`). `InitWritesAll` says
  that no more than the part being written is lost that way. `KeysMatch` fails with `AsRoot = TRUE`:
  mode 0400 does not keep root from writing a private key again.
* After an upgrade that changes the minor version the skew policy is not kept: a clone
  without an image of its own is not validated (`client/cluster.go:363`), and nothing looks
  at the nodes that are there already, the oldest of which may be two minor versions behind
  before the upgrade. `CHANGELOG.md:100` speaks of image validation without saying when, so
  `SkewPolicy` ends there (`moved`). `NodesNotNewer` ends when an upgrade lowers the version.
* A master that an edit of `tfvars.json` and an apply destroy, and a later apply
  creates anew, is empty but still listed by the etcd cluster it was a member of; its
  next `kubeadm reset` finds no files and does not take it out. Apply never takes a
  machine out of Kubernetes, only remove and replace do, so `RemovedMachineHadLeft`
  speaks of running members. It takes three masters to see this.
* An apply with load balancers and no nodes ends well without a control plane, so
  `ApplyYieldsKubectl` speaks of clusters with nodes.
* `TFVarsAsWritten` and `InfraTrue` fail without their `~overlapped`: of two overlapping
  read-modify-writes of one file an update is lost.

### Bounds

Two masters and one worker make every quorum the code has to care about: one
member, two members, one of two lost. Four machines let load balancers, or a pair
of pending machines, appear as well. Two control planes are one more than there
should be. Four commands are bootstrap, an interrupted or failed change, its retry
and another change. `ClientInterrupted` has five for longer chains of interruptions;
there, a new master sorts after the first (initial machines 1 and 3), which is the
condition under which apply can be repeated; `CloneInterrupted` drops it. In
`ClientOperations` `MachineResources` is 1, so no plan has ten changes. A pipe holds
one unit and children write up to two on either, so each pipe fills, the second one for
good. Four commands of the agent runner are one
whole call (`AgentRunner` starts a playbook's agent at the first), or four other
commands; two signals are one in the goroutine and one in the channel or dropped.
`SharedFiles` has two machines a cluster may have each, so that an addition and a
pending removal meet, and four commands: two of each cluster, or an apply, a failed
remove and an add of one and a command of the other. `MachineVersions` takes each list of images (Exoscale and
City Cloud list those of Safespring's nodes), one cluster with three masters, so that
API servers of different patch versions answer, two new names, and for each image the kubeadm of its
own version or of the next minor version; it needs no bound on commands. `ConfigInit` has
two processes and three runs: a run that is stopped, and two more, after it or at the same
time. In `SharedFiles` a machine is five resources, as on Azure, so that two additions pass for none.
`DrainOnAWS` needs an apply and a drain only.
`MachineClient` has a timeout longer than an attempt and its pause (five seconds), so a
wait makes several attempts, and two early lines. Bounds named `Max...` only stop new
commands, signals and lines from starting. Symmetry is only taken
over control plane identities, new names, processes of init, and the clusters and machines of
`SharedFiles`, which the specifications never order or name; the properties checked
under it are invariants, action properties and the safety specification `MachineChange`.
`SharedFiles` and `MachineClient` do not check for deadlock, as there the commands run
out; in the others `Finished` and the like make the end a step.

### Fairness

`SSHAgentRunner` takes that of `StandardRunner`: the Go scheduler runs the main goroutine
and each signal goroutine again and again, and the operating system lets a child that
is not blocked write and exit. Nothing is assumed of signals, of crashes or of how the
child ends. Three properties rest on it: `RunReturns`, `GoroutinesEnd` and
`AgentIsKilled`.

In `MachineClient` the process, its pump, its copier and time go on, remote commands end,
and an operator who is asked answers. Nothing makes a machine come up or keeps a
connection. `CommandEnds` rests on it: every wait is cut off by the deadline, and the
prompt after a session still gets a line although the terminal is now behind a pipe.

The client specifications, `SharedFiles` and `MachineVersions` have no fairness, as operators
need not start or finish anything, and no liveness property.

## Proofs

`ClusterClientProofs` proves for every set of machines, every assignment of node
types, every provider, every set of faults, every number of clients and commands:

* `TypeCorrect`: `TypeOK` is an invariant. It is not inductive alone: `AddMachine`
  puts its target into the set of machines, so the invariant adds `TargetNamed`, a
  client whose command takes a machine has one. One lemma per group of actions,
  one step per action; `StepShape` says how any step changes a client's memory.
* `PlaybooksRunOnState` (`PlaybooksSeeState`), assuming `Exclusive`: operators run one
  command at a time.
* `RemoveIsConfined` and `JoinIsConfined` (`RemoveTouchesOnlyItsMachine`,
  `JoinTouchesOnlyItsMachine`), assuming `Exclusive` and `FewResources`: fewer than ten
  resources in all. Both conditions are needed: `PlanTenToAdd` is the counterexample
  without the second, and two overlapping commands (see the limits above) are one without
  the first.
* `FilesAgree` (`CompletedCommandsAgree`), assuming `Exclusive`.
* `ResetAfterDrain` (`ResetOnlyDrained`), assuming `Exclusive` and that lookups do not
  lie; with `lookup` in `Faults` it fails.
* `NewJoinsBeforeOldLeaves` (`ReplacementJoinedFirst`), assuming `Exclusive` and
  `FewResources`.

* `BalancersFollow` (`BalancerSeesNodes`), assuming `Exclusive` and `BalancersOnSafespring`:
  only Safespring has images for load balancers (`api/safespring/cloudprovider.go:19`),
  and only for it do the commands run the infrastructure playbook.
* `ApplyFetches` (`ApplyYieldsKubectl`), assuming `Exclusive` alone: whatever failed, was
  killed or was edited before, and with any number of control planes.
* `QuorumKept` (`RemoveKeepsQuorum`), assuming `Exclusive`, `FewResources` and no lost
  connection (`ConnectionLost` is the counterexample without the last), for any number
  of masters.
* `RemovedHadLeft` (`RemovedMachineHadLeft`), assuming the same and lookups that do not lie:
  a lookup that takes a broken API server for a missing node lets the reset run while no
  etcd member can be removed.
* `ApplyJoins` (`ApplyJoinsAll`), assuming `Exclusive`, no failing tool, `OnlyGrows` (no
  replace, remove, reset or edit among the commands) and `FirstIsInitial` (the master
  that is first by name is there from the start; `CloneInterrupted` is the
  counterexample without it). Commands may be killed at every step.

They come from one inductive invariant, `ChangeInv`: one client at work, idle clients
hold nothing, and for each client `Ordered`, which says where each method can be
(`MethodSteps`), that between the plan and the write of `tfvars.json` snapshot, file
and state agree and that from there until terraform apply the snapshot is the
state with exactly the one machine added or removed (`OneChange`), and that from the
rendering of the inventory to the last playbook it equals the state (`Rendered`).
`NoDiffMeansEqual` is where `FewResources` enters: it turns the string the code looks
for into equality of file and state. Three more invariants stand beside it. `Agreeing`
follows the machines from file to state, `infra.json` and inventory. `HostInv` says
that a machine that does not exist has no kubeadm files and that a control plane some
host belongs to has a master; it is what makes a new machine start clean and a join
mean something. `Replacing` says, step by step, what is true of the new machine of a
replace (it exists, is not the target, is of its type, and has joined once the join playbook
is over) and that nothing done to the old one takes it away.

The other invariants each follow a command to its end. `Balanced` carries what the infrastructure
playbook wrote through the rest of apply. `Yielding` says that the first master has a control
plane that answers when the kubeconfig is fetched and still after the join
(`JoinKeepsHealthy`; new members run, so by the counting lemma `JoinKeepsMajority` they
never cost the majority). `Removing` goes from the reset to the end of a remove: no files, then no node, and an API
server that answered when the node was deleted and answers until the end, since the machine
that goes is no longer a member. `Joint` is about the cluster as a whole: no machine
has joined, or the first master has, and the others have joined its control plane or are clean. It
is why one file on the first master is enough to decide about initialisation; `Grown`
keeps that master, and `JoinedAll` says what the join leaves to the last step.

`ClusterClientRefinementProofs` proves `ClusterClientIsMachineChange`
(`ImplementsMachineChange`) assuming `Exclusive`, `FewResources` and no lost
connections: initial states map to initial states, and each action of `ClusterClient`
maps to a named action of `MachineChange` or to a stutter. Besides the invariants above it needs that a
phase is one the command has (`PhasesFit`), that a machine about to be removed has
left (`Removing`, where `connection` would break it), and that a machine to be created
has no name before it is configured (`Unnamed`). `JoinedMachinesExist` takes an
invariant of `MachineChange` back through the refinement: only machines that exist have
the files of a control plane.

`StandardRunnerProofs` proves for every number of commands and signals, every pipe
capacity and every amount of output:

* `RunnerTypeCorrect`: `TypeOK`. Its bound on `caughtSignals` is the hard part, because
  the append is a read and a write with other goroutines in between. The invariant
  `Counted` bounds the length now, and the length each goroutine is about to write,
  together with the signals in channels and in goroutines, by the signals sent.
* `SignalsStopCommands` (`NoSuccessAfterForward`): from `Remembered`, which says that
  a lost update may drop signals but never empties `caughtSignals`, and from
  `SuccessNeedsQuiet`, that a command only succeeds when the slice is empty.

`SSHAgentRunnerProofs` proves for every number of commands and signals, every pipe
capacity and every amount of output:

* `AgentRunnerIsRunner`: each behaviour of the agent runner is one of `StandardRunner`, so
  what is proved there holds here: `AgentSignalsStop` (`NoSuccessAfterForward`) is one line.
* `AgentTypeCorrect` (`AgentTypeOK`), `PlaybooksHaveKeys` (`PlaybookHasKey`) and
  `LeaksAreReported` (`LeakIsReported`), from `AgentInv`: the agent of the call is alive
  from the end of Start to its kill, has its key once ssh-add has ended well
  (`KeyAdded`), and each agent that lives is accounted for by the call under way or by
  an error (`Accounted`), which `Killing` carries through the kill.

`ConfigInitProofs` proves for every number of processes and runs of init:

* `InitTypeCorrect`: `TypeOK`.
* `EarlierStays` (`EarlierIsKept`), without hypotheses: `Begun` says that a file about to
  be opened was absent when the run looked for it, so it is none of `before`.
* `InitIsComplete` (`InitWritesAll`), without hypotheses: failed writes, kills and concurrent
  processes included. `SettledInv` says that a file that is not complete behind a run is one that
  a stopped run or a process at work has in hand.
* `KeysAlwaysMatch` (`KeysMatch`), assuming `~AsRoot`, under failures, kills and any number of
  concurrent processes. The inductive `KeyInv` says that a process between the creation of a
  private key and the end of the public key is the writer of the private one (`OwnsKey`), and that a public
  key that is there was written by the owner of the private key (`PairFits`); a second
  owner is impossible as the private key is created read-only.

`SharedFilesProofs` proves for any number of clusters, machines and commands, with
overlap, failures and kills anywhere:

* `SharedTypeCorrect` (`TypeOK`), whose `StepOK` says what a client has in memory at each
  step: what it writes is valid;
* `ClustersKeptApart` (`ClustersApart`) and `OwnMachinesStayManaged`
  (`OwnMachinesManaged`), the latter from `NothingLeft`: at the deletion of the workspace the
  cluster's own state is empty, and no other cluster's command can fill it;
* `TFVarsKept` (`TFVarsAsWritten`) and `AddKeepsMachines` (`AddDestroysNothing`), from
  `SoloInv`: without overlap one command is under way, its snapshot is the file, and an
  add differs from the state by its machine only;
* `InfraStaysTrue` (`InfraTrue`), from `InfraInv`, which says the same of what a command
  has read of `infra.json` and not yet written back.

`MachineVersionsProofs` proves for every choice of provider, flavor and cluster, any
names and every width of the unsigned integers:

* `IsSupportedIsPolicy`: `IsSupported` is the skew policy for all pairs of versions; the
  order of its two checks keeps the subtraction from wrapping around;
* `VersionsTypeCorrect`, `SkewPolicyHolds` (`SkewPolicy`) and `NeverNewer`
  (`NodesNotNewer`), for every assignment of kubeadm versions to images. `SkewPolicy` is not inductive, as a clone may copy any machine:
  `Ceiling` bounds, until an upgrade lowers it, every image and server by the configured version, joined or not, and
  `Window` keeps, until an upgrade changes it, all servers at that minor version and
  all images at most two behind.

`MachineClientProofs` proves for every timeout and duration:

* `MachineClientTypeCorrect`, `WaitOverrunsByOneAttempt` (`WaitIsBounded`; `Clock`
  bounds the elapsed time at each step of an attempt), `ConnectionsAreClosed`
  (`NoConnectionLeft`; `Connections` ties the connection to the step);
* `OperatorIsHeard` (`PromptHearsOperator`), from `Hears`: while nothing is typed early,
  the newline of an ended session is still in the pipe only as long as a copier
  is there to take it, and the goroutines come to rest before the next question;
* `WaitDoesNotMiss` (`WaitFindsMachine`), from `Found`: once the machine is up, no more
  than the rest of a pause passes until an attempt, which then succeeds.

The assumptions on constants are those of the modules; no other fact is assumed.
Every safety property that a run expects to hold is stated by a theorem. Only
model-checked are the four liveness properties (`RunReturns`, `GoroutinesEnd`,
`AgentIsKilled`, `CommandEnds`): liveness under fairness is out of the prover's reach, and
so is anything by induction over data.

## Not modelled

* Formats and contents of files, logging, sizes and names of machine types, networks:
  data the control flow does not look at. `config.yaml` and the secrets are only read.
* Commands that only print (flavors, completion, machine list, version, kubectl and
  terraform output), and `internal kubectl`, which may do anything. `machine ssh` is one
  session without a property of its own.
* The Terraform configurations, of which `ClusterTools` only takes the number of resources per
  machine, and the playbooks' node preparation, which is one step without state.
* Pipeline, release and migration scripts: straight-line shell around the command line.
* Changes in place of a machine (size, image): only whole machines are planned.
* The retry of a failed remove: it does not converge, and the TODOs at
  `client/cluster.go:430`, `475` and `481` say so; there is no promise to check.

## Plan

1. Done: the cluster client and its tools, its abstract specification and the
   refinement; the runner and the SSH agent runner; initialisation; the shared files;
   images, versions and upgrade; the machine client; the theorems above.
2. Done: theorems about every safety property of the runs.
3. Proofs with weaker hypotheses: `ApplyJoins` with replace and remove of masters other
   than the first, `RemoveIsConfined` for commands that overlap but not between plan and apply.
4. Abstract specifications for the runner (a command that ends once, with success only if
   no signal was forwarded) and for the shared files (one file per cluster).
5. Changes in place of a machine, and with them plans that have something to change.
