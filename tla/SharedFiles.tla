------------------------------- MODULE SharedFiles -------------------------------
(***************************************************************************)
(* What the service cluster and the workload cluster of one environment    *)
(* share: config.go and infra.go keep the machines of both in tfvars.json  *)
(* and infra.json, each rewritten whole, and both live in one Terraform    *)
(* workspace, of which a command only touches its own module.              *)
(*                                                                         *)
(* Each cluster has an operator who runs one command at a time; commands   *)
(* of the two clusters may overlap, and any of them may be killed.  Steps  *)
(* that touch nothing shared are left to ClusterClient.                    *)
(***************************************************************************)
EXTENDS Naturals, FiniteSets

CONSTANTS
    Cluster,          \* the clusters of the environment, one operator for each
    Machine,          \* names of machines
    Broken,           \* a file that is empty or cut off
    Null,             \* what infra.json says of a cluster it knows nothing of
    MachineResources, \* Terraform resources of one machine
    MaxCommands       \* bound: commands started in a behaviour

Machines == [Cluster -> SUBSET Machine]
Infra == [Cluster -> (SUBSET Machine) \cup {Null}]

ASSUME BrokenAssumption == \A f \in Infra : Broken # f
ASSUME NullAssumption == \A S \in SUBSET Machine : Null # S
ASSUME ResourcesAssumption == MachineResources \in Nat \ {0}
ASSUME CommandsAssumption == MaxCommands \in Nat

VARIABLES
    tfvars,           \* tfvars.json
    infra,            \* .state/infra.json
    workspace,        \* the remote Terraform workspace exists
    state,            \* the Terraform state in it
    orphans,          \* machines that run on although no state knows them
    pc,               \* the next step of each cluster's operator
    run,              \* what the ck8s process has in memory
    result,           \* how the last command of each cluster ended
    validated,        \* the provider has fields the validator can see (openstack)
    started,          \* number of commands started
    asked,            \* history: the machines each cluster's own commands wrote
    overlapped        \* history: two commands have run at the same time

files == <<tfvars, infra>>
cloud == <<workspace, state, orphans>>
control == <<pc, run, result>>
history == <<validated, started, asked, overlapped>>
vars == <<files, cloud, control, history>>

Commands == {"apply", "terraform apply", "add", "remove", "destroy"}

Steps == {"idle", "workspace", "plan", "configure", "writeTFVars", "fillTFVars",
          "terraform", "readInfra", "writeInfra", "fillInfra", "destroy",
          "workspaceDestroy"}

NoInfra == [c \in Cluster |-> Null]

NoRun == [command |-> "none", machine |-> Null,
          machines |-> [c \in Cluster |-> {}], infra |-> NoInfra, output |-> {}]

Runs == [command: Commands \cup {"none"}, machine: Machine \cup {Null},
         machines: Machines, infra: Infra, output: SUBSET Machine]

\* Mutant of Valid: nothing is required.
NotRequired(m) == TRUE

\* ValidateCluster: only exported fields are validated, which require a machine
\* in either cluster.
Valid(m) == validated => \A c \in Cluster : m[c] # {}

TypeOK ==
    /\ tfvars \in Machines \cup {Broken} /\ infra \in Infra \cup {Broken}
    /\ tfvars # Broken /\ validated => \A c \in Cluster : tfvars[c] # {}
    /\ workspace \in BOOLEAN /\ state \in Machines /\ orphans \in Machines
    /\ pc \in [Cluster -> Steps] /\ run \in [Cluster -> Runs]
    /\ result \in [Cluster -> {"none", "ok", "error", "killed", "destroyed"}]
    /\ validated \in BOOLEAN /\ started \in 0..MaxCommands
    /\ asked \in Machines /\ overlapped \in BOOLEAN

\* ck8s init has written the machines of a flavor for both clusters.
Init ==
    /\ tfvars \in [Cluster -> (SUBSET Machine) \ {{}}]
    /\ infra = Broken
    /\ workspace = FALSE
    /\ state = [c \in Cluster |-> {}] /\ orphans = [c \in Cluster |-> {}]
    /\ pc = [c \in Cluster |-> "idle"] /\ run = [c \in Cluster |-> NoRun]
    /\ result = [c \in Cluster |-> "none"]
    /\ validated \in BOOLEAN /\ started = 0
    /\ asked = tfvars /\ overlapped = FALSE

-----------------------------------------------------------------------------
(* Control flow. *)

Goto(c, step) ==
    /\ pc' = [pc EXCEPT ![c] = step]
    /\ UNCHANGED <<run, result, history>>

GotoWith(c, step, r) ==
    /\ pc' = [pc EXCEPT ![c] = step]
    /\ run' = [run EXCEPT ![c] = r]
    /\ UNCHANGED <<result, history>>

Return(c, res) ==
    /\ pc' = [pc EXCEPT ![c] = "idle"]
    /\ run' = [run EXCEPT ![c] = NoRun]
    /\ result' = [result EXCEPT ![c] = res]
    /\ UNCHANGED history

Fail(c) == Return(c, "error") /\ UNCHANGED <<files, cloud>>

FirstStep(command) ==
    CASE command = "apply" -> "workspace"
      [] command = "terraform apply" -> "writeTFVars"
      [] command \in {"add", "remove"} -> "plan"
      [] command = "destroy" -> "destroy"

\* Mutant of ReadTFVars: a file that can not be decoded configures no machines.
DecodeErrorIgnored == {IF tfvars = Broken THEN [c \in Cluster |-> {}] ELSE tfvars}

\* readTFVars decodes the machines of both clusters, or fails.
ReadTFVars == {tfvars} \ {Broken}

Start(c) ==
    /\ pc[c] = "idle" /\ started < MaxCommands
    /\ \E m \in ReadTFVars, command \in Commands, target \in Machine :
        /\ Valid(m)
        /\ pc' = [pc EXCEPT ![c] = FirstStep(command)]
        /\ run' = [run EXCEPT ![c] = [NoRun EXCEPT !.command = command,
                                                   !.machine = target, !.machines = m]]
    /\ started' = started + 1
    /\ overlapped' = (overlapped \/ \E d \in Cluster \ {c} : pc[d] # "idle")
    /\ UNCHANGED <<files, cloud, result, validated, asked>>

Kill(c) ==
    /\ pc[c] # "idle"
    /\ Return(c, "killed")
    /\ UNCHANGED <<files, cloud>>

-----------------------------------------------------------------------------
(* The remote workspace and the plan. *)

\* terraformRemoteWorkspaceApply makes the workspace if it does not exist.
WorkspaceApply(c) ==
    /\ pc[c] = "workspace"
    /\ \/ /\ workspace' = TRUE
          /\ Goto(c, "writeTFVars")
          /\ UNCHANGED <<files, state, orphans>>
       \/ Fail(c)

\* Mutant of NoDiff: TerraformPlanNoDiff does not look at the exit status.
DiffIgnored(c) == workspace /\ tfvars # Broken

\* terraform plan -target compares the file with the state of one module.  The plan
\* is searched for "0 to add, 0 to change, 0 to destroy", as in "10 to add, ...".
NoDiff(c) ==
    /\ workspace /\ tfvars # Broken
    /\ (MachineResources * Cardinality(tfvars[c] \ state[c])) % 10 = 0
    /\ state[c] \subseteq tfvars[c]

PlanNoDiff(c) ==
    /\ pc[c] = "plan"
    /\ \/ NoDiff(c) /\ Goto(c, "configure") /\ UNCHANGED <<files, cloud>>
       \/ ~NoDiff(c) /\ Fail(c)

\* AddMachine and RemoveMachine change the snapshot, not the file.
Configure(c) ==
    /\ pc[c] = "configure"
    /\ LET r == run[c]
           Changed(S) == GotoWith(c, "writeTFVars", [r EXCEPT !.machines[c] = S])
       IN \/ r.command = "remove" /\ Changed(r.machines[c] \ {r.machine})
          \/ /\ r.command = "add" /\ r.machine \notin r.machines[c]
             /\ Changed(r.machines[c] \cup {r.machine})
    /\ UNCHANGED <<files, cloud>>

AlreadyExists(c) ==
    /\ pc[c] = "configure"
    /\ run[c].command = "add" /\ run[c].machine \in run[c].machines[c]
    /\ Fail(c)

-----------------------------------------------------------------------------
(* TerraformApply. *)

\* ioutil.WriteFile truncates the file ...
WriteTFVars(c) ==
    /\ pc[c] = "writeTFVars"
    /\ \/ /\ Valid(run[c].machines)
          /\ tfvars' = Broken
          /\ Goto(c, "fillTFVars")
          /\ UNCHANGED <<infra, cloud>>
       \/ ~Valid(run[c].machines) /\ Fail(c)

\* ... and then writes all of it, the other cluster's machines as they were read.
FillTFVars(c) ==
    /\ pc[c] = "fillTFVars"
    /\ tfvars' = run[c].machines
    /\ asked' = [asked EXCEPT ![c] = run[c].machines[c]]
    /\ pc' = [pc EXCEPT ![c] = "terraform"]
    /\ UNCHANGED <<infra, cloud, run, result, validated, started, overlapped>>

\* Mutant of Applied: terraform runs without -target.
Untargeted(c, S) == [d \in Cluster |-> IF d = c THEN S ELSE tfvars[d]]

Applied(c, S) == [state EXCEPT ![c] = S]

\* terraform init and apply -target, which reads the file, not the snapshot.
TerraformApply(c) ==
    /\ pc[c] = "terraform"
    /\ workspace /\ tfvars # Broken
    /\ \/ state' = Applied(c, tfvars[c]) /\ Goto(c, "readInfra")
       \/ \E S \in SUBSET (state[c] \cup tfvars[c]) :
            /\ state[c] \cap tfvars[c] \subseteq S
            /\ state' = Applied(c, S)
            /\ Return(c, "error")
    /\ UNCHANGED <<files, workspace, orphans>>

TerraformCanNotRun(c) ==
    /\ pc[c] \in {"terraform", "destroy"}
    /\ ~workspace \/ tfvars = Broken
    /\ Fail(c)

\* terraform output, and what renderInfraJSON finds in the file it opens or creates;
\* it starts from nothing when that can not be decoded.
ReadInfra(c) ==
    /\ pc[c] = "readInfra"
    /\ \/ /\ workspace
          /\ GotoWith(c, "writeInfra",
                      [run[c] EXCEPT !.output = state[c],
                                     !.infra = IF infra = Broken THEN NoInfra ELSE infra])
          /\ UNCHANGED <<files, cloud>>
       \/ Fail(c)

WriteInfra(c) ==
    /\ pc[c] = "writeInfra"
    /\ infra' = Broken
    /\ Goto(c, "fillInfra")
    /\ UNCHANGED <<tfvars, cloud>>

\* Mutant of UpdatedValues: the values of one cluster are written for both.
BothUpdated(c, old, output) == [d \in Cluster |-> output]

\* updateValues
UpdatedValues(c, old, output) == [old EXCEPT ![c] = output]

FillInfra(c) ==
    /\ pc[c] = "fillInfra"
    /\ infra' = UpdatedValues(c, run[c].infra, run[c].output)
    /\ Return(c, "ok")
    /\ UNCHANGED <<tfvars, cloud>>

-----------------------------------------------------------------------------
(* Destroy. *)

\* Mutant of AfterFailedDestroy: the error of terraform destroy is only logged.
FailedDestroyGoesOn(c) == Goto(c, "workspaceDestroy")

AfterFailedDestroy(c) == Return(c, "error")

\* terraform destroy -target; --destroy-remote-workspace goes on with the workspace.
TerraformDestroy(c) ==
    /\ pc[c] = "destroy"
    /\ workspace /\ tfvars # Broken
    /\ \/ /\ state' = [state EXCEPT ![c] = {}]
          /\ Goto(c, "workspaceDestroy") \/ Return(c, "destroyed")
       \/ \E S \in SUBSET state[c] :
            state' = [state EXCEPT ![c] = S] /\ AfterFailedDestroy(c)
    /\ UNCHANGED <<files, workspace, orphans>>

\* terraformRemoteWorkspaceDestroy takes the state of both clusters with it.
WorkspaceDestroy(c) ==
    /\ pc[c] = "workspaceDestroy"
    /\ \/ /\ workspace' = FALSE
          /\ orphans' = [d \in Cluster |-> orphans[d] \cup state[d]]
          /\ state' = [d \in Cluster |-> {}]
          /\ Return(c, "destroyed")
          /\ UNCHANGED files
       \/ Fail(c)

-----------------------------------------------------------------------------

ClusterStep(c) ==
    \/ Start(c) \/ Kill(c)
    \/ WorkspaceApply(c) \/ PlanNoDiff(c) \/ Configure(c) \/ AlreadyExists(c)
    \/ WriteTFVars(c) \/ FillTFVars(c) \/ TerraformApply(c) \/ TerraformCanNotRun(c)
    \/ ReadInfra(c) \/ WriteInfra(c) \/ FillInfra(c)
    \/ TerraformDestroy(c) \/ WorkspaceDestroy(c)

Next == \E c \in Cluster : ClusterStep(c)

Spec == Init /\ [][Next]_vars

-----------------------------------------------------------------------------
(* Properties. *)

\* A command changes the Terraform state of the other cluster only by deleting the
\* workspace, whatever tfvars.json says by then (TerraformRunnerConfig's target).
ClustersApart ==
    [][ \A c \in Cluster : state'[c] # state[c] /\ workspace' => pc'[c] # pc[c] ]_vars

\* No change to the machines of a cluster is lost as long as commands do not overlap,
\* killed ones included: the file holds what each cluster's own commands wrote last.
TFVarsAsWritten ==
    ~overlapped /\ tfvars # Broken => tfvars = asked

\* "Make sure no changes are already pending": adding a machine destroys none, not
\* even one an earlier command failed to remove, as long as commands do not overlap.
AddDestroysNothing ==
    [][ \A c \in Cluster :
            ~overlapped' /\ run[c].command = "add" => state[c] \subseteq state'[c] ]_vars

\* infra.json is true of a cluster whose last command succeeded, or silent about it,
\* as long as commands do not overlap and no workspace is deleted under machines.
InfraTrue ==
    \A c \in Cluster :
        /\ ~overlapped /\ infra # Broken /\ \A d \in Cluster : orphans[d] = {}
        /\ pc[c] = "idle" /\ result[c] = "ok"
        => infra[c] \in {state[c], Null}

\* Deleting the workspace never leaves machines of the operator's own cluster behind.
OwnMachinesManaged ==
    [][ \A c \in Cluster : orphans'[c] # orphans[c] => pc'[c] = pc[c] ]_vars

=============================================================================
