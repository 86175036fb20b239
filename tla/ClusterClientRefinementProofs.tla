--------------------- MODULE ClusterClientRefinementProofs ---------------------
(***************************************************************************)
(* The refinement of ClusterClientRefinement for every set of machines,    *)
(* node types and provider: with one command at a time, in a small cluster *)
(* and as long as no SSH connection is lost, every step of a ck8s command  *)
(* is a step of MachineChange or changes nothing that MachineChange sees.  *)
(***************************************************************************)
EXTENDS ClusterClientRefinement, ClusterClientProofs

\* The machine to be created has no name before it is configured.
Unnamed(p) ==
    run[p].phase = "join" /\ pc[p] \in {"plan", "configure"} => run[p].created = NoMachine

Inv ==
    /\ ChangeInv /\ PhasesFit /\ HostInv
    /\ \A p \in Client : Replacing(p) /\ Removing(p) /\ Unnamed(p)

-----------------------------------------------------------------------------
(* The mapping. *)

Nothing == [kind |-> "none", machine |-> NoMachine, original |-> NoMachine]

Belonging == {m \in Machine : Joins(m)}

\* What each command means.
LEMMA ChangeOfCommand ==
    ASSUME NEW r, NEW step
    PROVE  /\ r.command \in {"apply", "terraform apply", "destroy"} =>
                  ChangeOf(r, step) =
                      [kind |-> "converge", machine |-> NoMachine, original |-> NoMachine]
           /\ r.command \in {"add", "clone"} =>
                  ChangeOf(r, step) =
                      [kind |-> "create", machine |-> r.created, original |-> NoMachine]
           /\ r.command = "replace" /\ ~Superseded(r, step) =>
                  ChangeOf(r, step) =
                      [kind |-> "replace", machine |-> r.created, original |-> r.target]
           /\ r.command = "replace" /\ Superseded(r, step) =>
                  ChangeOf(r, step) =
                      [kind |-> r.phase, machine |-> r.target, original |-> NoMachine]
           /\ r.command \in {"remove", "reset"} =>
                  ChangeOf(r, step) =
                      [kind |-> r.phase, machine |-> r.target, original |-> NoMachine]
           /\ r.command \in {"drain", "none"} => ChangeOf(r, step) = Nothing
<1>1. CASE r.command \in {"apply", "terraform apply", "destroy"}
    BY <1>1 DEF ChangeOf
<1>2. CASE r.command \in {"add", "clone"}
    BY <1>2 DEF ChangeOf
<1>3. CASE r.command = "replace"
    BY <1>3 DEF ChangeOf
<1>4. CASE r.command \in {"remove", "reset"}
    BY <1>4 DEF ChangeOf
<1>5. CASE r.command \in {"drain", "none"}
    BY <1>5 DEF ChangeOf, Nothing
<1> QED BY <1>1, <1>2, <1>3, <1>4, <1>5

\* The change is that of the client at work ...
LEMMA ChangeOfActive ==
    ASSUME OneCommand, NEW p \in Client, pc[p] # "idle"
    PROVE  Change = ChangeOf(run[p], pc[p])
<1>1. Active = {p}
    BY DEF OneCommand, Active
<1>2. (CHOOSE q \in Active : TRUE) = p /\ Active # {}
    BY <1>1
<1> QED BY <1>2 DEF Change

LEMMA NextChangeOfActive ==
    ASSUME OneCommand', NEW p \in Client, pc'[p] # "idle"
    PROVE  Change' = ChangeOf(run'[p], pc'[p])
<1>1. Active' = {p}
    BY DEF OneCommand, Active
<1>2. (CHOOSE q \in Active' : TRUE) = p /\ Active' # {}
    BY <1>1
<1> QED BY <1>2 DEF Change

\* ... and there is none when every client is idle.
LEMMA IdleChange ==
    /\ ChangeOf(NoRun, "idle") = Nothing
    /\ (\A p \in Client : pc[p] = "idle") => Change = Nothing
    /\ (\A p \in Client : pc'[p] = "idle") => Change' = Nothing
<1>1. ChangeOf(NoRun, "idle") = Nothing
    BY DEF ChangeOf, NoRun, Nothing
<1>2. (\A p \in Client : pc[p] = "idle") => Active = {}
    BY DEF Active
<1>3. (\A p \in Client : pc'[p] = "idle") => Active' = {}
    BY DEF Active
<1> QED BY <1>1, <1>2, <1>3 DEF Change

\* Two memories that differ in the snapshot alone mean the same change.
LEMMA SameChange ==
    ASSUME NEW r1, NEW r2, NEW s1, NEW s2,
           r1.command = r2.command, r1.phase = r2.phase,
           r1.target = r2.target, r1.created = r2.created,
           s1 # "plan", s2 # "plan"
    PROVE  ChangeOf(r1, s1) = ChangeOf(r2, s2)
BY DEF ChangeOf, Superseded

-----------------------------------------------------------------------------
(* The steps of a command: which end it, which go on with it. *)

LEMMA StepKinds ==
    ASSUME ChangeInv, NEW p \in Client, Step(p) \/ Kill(p), pc[p] \notin {"plan", "configure"}
    PROVE  \/ Ends(p)
           \/ \E s \in Steps \ {"idle", "plan", "configure"} : Goto(p, s)
           \/ Joined(p) /\ run[p].phase = "join" /\ run[p].command = "replace"
           \/ RemoveMachine(p)
<1> USE DEF Results, At
<1> TypeOK
    BY DEF ChangeInv
<1>1. ASSUME NEW x \in Results, Return(p, x) PROVE Ends(p)
    BY <1>1 DEF Ends
<1>2. ASSUME Fail(p) \/ CommandFails(p) PROVE Ends(p)
    BY <1>2 DEF Fail, CommandFails, Ends
<1> SUFFICES ASSUME ~Ends(p), \A s \in Steps \ {"idle", "plan", "configure"} : ~Goto(p, s),
                    ~(Joined(p) /\ run[p].phase = "join" /\ run[p].command = "replace"),
                    ~RemoveMachine(p)
             PROVE  FALSE
    OBVIOUS
<1> USE <1>1, <1>2 DEF Steps
<1>3. ~(Joined(p) /\ run[p].phase = "join")
    BY DEF Joined
<1>4. ~AfterTerraformApply(p)
    BY DEF AfterTerraformApply
<1>5. pc[p] = "joinCluster" => ~AfterJoinCluster(p)
    BY <1>3 DEF AfterJoinCluster, ChangeInv, Ordered, MethodSteps
<1>6. ~WorkspaceApply(p) /\ ~PlanNoDiff(p) /\ ~AddMachine(p) /\ ~CloneMachine(p)
    BY DEF WorkspaceApply, PlanNoDiff, AddMachine, CloneMachine
<1>7. ~WriteTFVars(p) /\ ~TerraformApply(p) /\ ~WriteInfraJSON(p)
    BY DEF WriteTFVars, TerraformApply, WriteInfraJSON
<1>8. ~OpenInventory(p) /\ ~WriteInventory(p)
    BY <1>4 DEF OpenInventory, WriteInventory
<1>9. ~WaitForSSH(p) /\ ~Infrastructure(p) /\ ~PrepareNodes(p)
    BY <1>3 DEF WaitForSSH, Infrastructure, PrepareNodes
<1>10. ~InitializeMaster(p) /\ ~FetchAdminConf(p)
    BY DEF InitializeMaster, FetchAdminConf
<1>11. ~JoinCluster(p) /\ ~EncryptKubeconfig(p)
    BY <1>5 DEF JoinCluster, EncryptKubeconfig
<1>12. ~NodeExists(p) /\ ~DrainNode(p) /\ ~ResetMachine(p) /\ ~DeleteNode(p)
    BY DEF NodeExists, DrainNode, AfterDrain, ResetMachine, DeleteNode
<1>13. ~KubernetesCleanup(p) /\ ~TerraformDestroy(p) /\ ~Kill(p)
    BY DEF KubernetesCleanup, TerraformDestroy, Kill
<1> QED BY <1>6, <1>7, <1>8, <1>9, <1>10, <1>11, <1>12, <1>13 DEF Step

\* The other clients are idle, before a step and after it.
LEMMA OthersIdle ==
    ASSUME ChangeInv, NEW p \in Client, Step(p) \/ Kill(p)
    PROVE  /\ pc[p] # "idle"
           /\ \A q \in Client \ {p} : pc[q] = "idle" /\ pc'[q] = "idle"
           /\ Change = ChangeOf(run[p], pc[p])
           /\ pc'[p] = "idle" => Change' = Nothing
           /\ pc'[p] # "idle" => Change' = ChangeOf(run'[p], pc'[p])
<1>1. pc[p] # "idle"
    BY StepIsActive
<1>2. \A q \in Client \ {p} : pc[q] = "idle" /\ pc'[q] = "idle"
    BY <1>1, StepIsLocal DEF ChangeInv, OneCommand
<1>3. OneCommand /\ OneCommand'
    BY <1>2 DEF OneCommand, ChangeInv
<1>4. pc'[p] = "idle" => Change' = Nothing
    BY <1>2, IdleChange
<1> QED BY <1>1, <1>2, <1>3, <1>4, ChangeOfActive, NextChangeOfActive

\* Outside the plan and the naming of a machine, a step leaves the change as it is,
\* or ends it.
LEMMA StepGoes ==
    ASSUME Inv, NEW p \in Client, Step(p) \/ Kill(p), pc[p] \notin {"plan", "configure"}
    PROVE  Change' \in {Change, Nothing}
<1> ChangeInv /\ TypeOK /\ run[p] \in Runs
    BY DEF Inv, ChangeInv, TypeOK
<1>1. CASE Ends(p)
    BY <1>1, OthersIdle, ReturnEffect DEF Ends
<1>2. CASE \E s \in Steps \ {"idle", "plan", "configure"} : Goto(p, s)
  <2>1. pc'[p] \notin {"idle", "plan"} /\ run'[p] = run[p]
      BY <1>2, GotoEffect
  <2> QED BY <2>1, OthersIdle, SameChange
<1>3. CASE Joined(p) /\ run[p].phase = "join" /\ run[p].command = "replace"
  <2>1. GotoWith(p, "plan", [run[p] EXCEPT !.phase = "remove"])
      BY <1>3 DEF Joined
  <2>2. /\ pc'[p] = "plan" /\ run'[p].phase = "remove" /\ run'[p].command = "replace"
        /\ run'[p].target = run[p].target /\ run'[p].created = run[p].created
      BY <1>3, <2>1, GotoWithEffect DEF Runs
  <2>3. ChangeOf(run'[p], pc'[p]) = ChangeOf(run[p], pc[p])
      BY <1>3, <2>2 DEF ChangeOf, Superseded
  <2> QED BY <2>2, <2>3, OthersIdle
<1>4. CASE RemoveMachine(p)
  <2>1. /\ pc'[p] = "writeTFVars"
        /\ run'[p] = [run[p] EXCEPT !.machines = @ \ {run[p].target}]
      BY <1>4, GotoWithEffect DEF RemoveMachine
  <2>2. /\ run'[p].phase = run[p].phase /\ run'[p].command = run[p].command
        /\ run'[p].created = run[p].created /\ run'[p].target = run[p].target
      BY <2>1 DEF Runs
  <2>3. ChangeOf(run'[p], pc'[p]) = ChangeOf(run[p], pc[p])
      BY <2>1, <2>2 DEF ChangeOf, Superseded
  <2> QED BY <2>1, <2>3, OthersIdle
<1> QED BY <1>1, <1>2, <1>3, <1>4, StepKinds

-----------------------------------------------------------------------------
(* The machine that Join names. *)

\* Only Start plans a join, and the configuration ends in a name.
LEMMA UnnamedNext == Inv /\ [Next]_vars => \A p \in Client : Unnamed(p)'
<1> SUFFICES ASSUME Inv, [Next]_vars, NEW p \in Client,
                    run'[p].phase = "join", pc'[p] \in {"plan", "configure"}
             PROVE  run'[p].created = NoMachine
    BY DEF Unnamed
<1> ChangeInv /\ TypeOK /\ TargetNamed /\ Unnamed(p) /\ run[p] \in Runs
    BY DEF Inv, ChangeInv, TypeOK
<1>1. ASSUME NEW q \in Client, Start(q) PROVE run'[p].created = NoMachine
  <2>1. PICK c \in Commands \ {"edit"} : \E t \in Targets(c), s \in FirstStep(c) :
          /\ pc' = [pc EXCEPT ![q] = s]
          /\ run' = [run EXCEPT ![q] =
                         [command |-> c, phase |-> FirstPhase(c), target |-> t,
                          created |-> NoMachine, machines |-> tfvars]]
      BY <1>1, StartRun
  <2>2. p = q => run'[p].created = NoMachine
      BY <2>1 DEF TypeOK
  <2>3. p # q => pc'[p] = pc[p] /\ run'[p] = run[p]
      BY <2>1
  <2> QED BY <2>2, <2>3 DEF Unnamed
<1>2. ASSUME NEW q \in Client, Step(q) \/ Kill(q) PROVE run'[p].created = NoMachine
  <2>1. p # q => pc'[p] = pc[p] /\ run'[p] = run[p]
      BY <1>2, StepIsLocal
  <2>2. CASE p = q
    <3>1. CASE pc[p] \in {"plan", "configure"}
      <4>1. ~Ends(p)
          BY ReturnEffect DEF Ends
      <4>2. Step(p) /\ ~Fail(p) /\ ~CommandFails(p)
          BY <1>2, <2>2, <4>1 DEF Kill, Fail, CommandFails, Ends, Results
      <4>3. CASE pc[p] = "plan"
        <5>1. PlanNoDiff(p)
            BY <4>2, <4>3 DEF Step, At, WorkspaceApply, AddMachine, CloneMachine, WriteTFVars,
                  TerraformApply, WriteInfraJSON, OpenInventory, WriteInventory, WaitForSSH,
                  Infrastructure, PrepareNodes, InitializeMaster, FetchAdminConf, JoinCluster,
                  EncryptKubeconfig, NodeExists, DrainNode, ResetMachine, DeleteNode,
                  RemoveMachine, KubernetesCleanup, TerraformDestroy
        <5>2. run'[p] = run[p]
            BY <4>2, <5>1, GotoEffect DEF PlanNoDiff
        <5> QED BY <4>3, <5>2 DEF Unnamed
      <4>4. CASE pc[p] = "configure"
        <5>1. AddMachine(p) \/ CloneMachine(p)
            BY <4>2, <4>4 DEF Step, At, WorkspaceApply, PlanNoDiff, WriteTFVars,
                  TerraformApply, WriteInfraJSON, OpenInventory, WriteInventory, WaitForSSH,
                  Infrastructure, PrepareNodes, InitializeMaster, FetchAdminConf, JoinCluster,
                  EncryptKubeconfig, NodeExists, DrainNode, ResetMachine, DeleteNode,
                  RemoveMachine, KubernetesCleanup, TerraformDestroy
        <5>2. \A m : Configured(p, m) => pc'[p] = "writeTFVars"
            BY GotoWithEffect DEF Configured
        <5> QED BY <4>2, <5>1, <5>2 DEF AddMachine, CloneMachine
      <4> QED BY <3>1, <4>3, <4>4
    <3>2. CASE pc[p] \notin {"plan", "configure"}
      <4>1. ~Ends(p)
          BY ReturnEffect DEF Ends
      <4>2. ~RemoveMachine(p)
          BY GotoWithEffect DEF RemoveMachine
      <4>3. ~(Joined(p) /\ run[p].command = "replace")
        <5> SUFFICES ASSUME Joined(p), run[p].command = "replace" PROVE FALSE
            OBVIOUS
        <5>1. run'[p] = [run[p] EXCEPT !.phase = "remove"]
            BY GotoWithEffect DEF Joined
        <5> QED BY <5>1 DEF Runs
      <4>4. \A s : Goto(p, s) => pc'[p] = s
          BY GotoEffect
      <4> QED BY <1>2, <2>2, <3>2, <4>1, <4>2, <4>3, <4>4, StepKinds
    <3> QED BY <3>1, <3>2
  <2> QED BY <2>1, <2>2 DEF Unnamed
<1>3. CASE EditTFVars \/ Finished \/ UNCHANGED vars
  <2>1. UNCHANGED <<pc, run>>
      BY <1>3 DEF EditTFVars, Finished, vars
  <2> QED BY <2>1 DEF Unnamed
<1> QED BY <1>1, <1>2, <1>3 DEF Next

LEMMA InvInit == Init => Inv
<1>1. Init => \A p \in Client : Replacing(p) /\ Removing(p) /\ Unnamed(p)
    BY DEF Init, Replacing, Removing, Unnamed, NoRun
<1> QED BY <1>1, ChangeInit, PhasesInit, HostInit DEF Inv

LEMMA InvNext ==
    ASSUME Exclusive, FewResources, "connection" \notin Faults
    PROVE  Inv /\ [Next]_vars => Inv'
<1>1. ChangeInv /\ PhasesFit /\ [Next]_vars => PhasesFit'
    BY PhasesNext DEF ChangeInv
<1>2. Inv /\ [Next]_vars => \A p \in Client : Replacing(p)'
    BY ReplacingNext DEF Inv
<1> QED BY <1>1, <1>2, ChangeNext, HostNext, RemovingNext, UnnamedNext DEF Inv

-----------------------------------------------------------------------------
(* What each step is to MachineChange. *)

AbstractStep == [Abstract!Next]_(Abstract!vars)

\* Steps that leave the machines alone: the last step of a command ends the change.
LEMMA QuietStep ==
    ASSUME tfstate' = tfstate, host' = host \/ Belonging' = Belonging,
           Change' \in {Change, Nothing}
    PROVE  AbstractStep
<1>1. Belonging' = Belonging
    BY DEF Belonging, Joins
<1>2. CASE Change' = Change
    BY <1>1, <1>2 DEF AbstractStep, Abstract!vars, Belonging
<1>3. CASE Change' = Nothing /\ Change # Nothing
  <2>1. Abstract!End
      BY <1>1, <1>3 DEF Abstract!End, Abstract!NoChange, Abstract!Of, Abstract!Unmoved, Nothing, Belonging
  <2> QED BY <2>1 DEF AbstractStep, Abstract!Next
<1> QED BY <1>2, <1>3

\* Terraform takes machines out of their control planes by destroying them, and no
\* other way.
LEMMA ProvisionBelonging ==
    ASSUME StoresTypeOK, HostInv, NEW S \in SUBSET Machine, Provision(S)
    PROVE  /\ tfstate' = S
           /\ Belonging' \subseteq Belonging \cap S
           /\ \A old : tfstate \ {old} \subseteq S /\ (old \in Machine => ~Joins(old))
                  => Belonging' = Belonging
           /\ tfstate \subseteq S => Belonging' = Belonging
<1> DEFINE h == [m \in Machine |-> IF m \in S THEN host[m] ELSE CleanHost]
<1>1. Settle(h, node, etcd, kubeconfig) /\ tfstate' = S
    BY DEF Provision
<1>2. h \in [Machine -> HostStates]
    BY CleanHostType DEF StoresTypeOK
<1>3. \A m \in Machine : h[m] = IF m \in S THEN host[m] ELSE CleanHost
    OBVIOUS
<1>clean. CleanHost.cp = NoControlPlane
    BY DEF CleanHost
<1> HIDE DEF h
<1>4. Belonging' \subseteq Belonging \cap S
  <2> SUFFICES ASSUME NEW m \in Machine, host'[m].cp # NoControlPlane
               PROVE  m \in S /\ host[m].cp # NoControlPlane
      BY DEF Belonging, Joins
  <2>1. h[m].cp # NoControlPlane
      BY <1>1, <1>2, SettleEffect
  <2> QED BY <1>3, <1>clean, <2>1
<1>5. ASSUME \A m \in Machine : h[m].cp = host[m].cp
      PROVE  Belonging' = Belonging
  <2> SUFFICES ASSUME NEW m \in Machine, host[m].cp # NoControlPlane
               PROVE  host'[m].cp # NoControlPlane
      BY <1>4 DEF Belonging, Joins
  <2>1. PICK x \in Masters(Machine) : host[x].cp = host[m].cp
      BY DEF HostInv
  <2>2. h[x].cp = h[m].cp
      BY <1>5, <2>1 DEF Masters
  <2>3. host'[m].cp = h[m].cp
      BY <1>1, <1>2, <2>2, SettleEffect
  <2> QED BY <1>5, <2>3
<1>6. ASSUME NEW old, tfstate \ {old} \subseteq S, old \in Machine => ~Joins(old)
      PROVE  \A m \in Machine : h[m].cp = host[m].cp
    BY <1>3, <1>6, <1>clean DEF HostInv, Joins
<1>7. tfstate \subseteq S => \A m \in Machine : h[m].cp = host[m].cp
    BY <1>3, <1>clean DEF HostInv
<1> QED BY <1>1, <1>4, <1>5, <1>6, <1>7

LEMMA TerraformApplyStep ==
    ASSUME Inv, FewResources, NEW p \in Client, TerraformApply(p)
    PROVE  AbstractStep
<1> ChangeInv /\ TypeOK /\ StoresTypeOK /\ HostInv /\ Ordered(p) /\ Removing(p) /\ run[p] \in Runs
    BY DEF Inv, ChangeInv, TypeOK
<1> DEFINE r == run[p]
<1>1. pc[p] = "terraformApply" /\ Step(p)
    BY DEF TerraformApply, At, Step
<1>2. Change = ChangeOf(r, "terraformApply") /\ Change' \in {Change, Nothing}
    BY <1>1, OthersIdle, StepGoes
<1>3. r.phase \in {"apply", "join", "remove", "terraform"}
    BY <1>1 DEF Ordered, MethodSteps
<1>4. CASE UNCHANGED <<tfstate, host>>
    BY <1>2, <1>4, QuietStep
<1>5. CASE ~UNCHANGED <<tfstate, host>>
  <2>1. PICK S \in SUBSET (tfvars \cup tfstate) : tfvars \cap tfstate \subseteq S /\ Provision(S)
      BY <1>5 DEF TerraformApply, TerraformApplied, TerraformApplyFailed, Fail, CommandFails, stores
  <2>2. S \in SUBSET Machine
      BY DEF StoresTypeOK
  <2>3. tfstate' = S /\ Belonging' \subseteq Belonging \cap S
      BY <2>1, <2>2, ProvisionBelonging
  <2>4. CASE r.phase \in {"apply", "terraform"}
    <3>1. r.command \in {"apply", "terraform apply"}
        BY <2>4, CommandOfPhase DEF Inv
    <3>2. Change.kind = "converge"
        BY <1>2, <3>1 DEF ChangeOf
    <3>3. Abstract!Converge
        BY <1>2, <2>2, <2>3, <3>2
        DEF Abstract!Converge, Abstract!Going, Abstract!NoChange, Abstract!Of, Nothing, Belonging
    <3> QED BY <3>3 DEF AbstractStep, Abstract!Next
  <2>5. CASE r.phase = "join"
    <3>1. r.command \in {"add", "clone", "replace"}
        BY <2>5, CommandOfPhase DEF Inv
    <3>2. /\ Change.kind \in {"create", "replace"} /\ Change.machine = r.created
        BY <1>2, <2>5, <3>1 DEF ChangeOf, Superseded
    <3>3. r.machines = tfstate \cup {r.created} /\ tfvars = r.machines
        BY <1>1, <2>5 DEF Ordered, OneChange, Wanted
    <3>4. r.created \in Machine
        BY <3>3 DEF Runs
    <3>5. S \in {tfstate, tfstate \cup {r.created}} /\ tfstate \subseteq S
        BY <2>1, <3>3
    <3>6. Belonging' = Belonging
        BY <2>1, <2>2, <3>5, ProvisionBelonging
    <3>7. CASE S = tfstate \cup {r.created}
      <4>1. Abstract!Create
          BY <1>2, <2>3, <3>2, <3>4, <3>6, <3>7, NoMachineAssumption
          DEF Abstract!Create, Abstract!Going, Abstract!NoChange, Abstract!Of, Nothing, Belonging
      <4> QED BY <4>1 DEF AbstractStep, Abstract!Next
    <3>8. CASE S = tfstate
        BY <1>2, <2>3, <3>6, <3>8, QuietStep
    <3> QED BY <3>5, <3>7, <3>8
  <2>6. CASE r.phase = "remove"
    <3>1. r.command \in {"remove", "replace"}
        BY <2>6, CommandOfPhase DEF Inv
    <3>2. /\ Change.kind = "remove" /\ Change.machine = r.target
        BY <1>2, <2>6, <3>1 DEF ChangeOf, Superseded
    <3>3. tfvars = tfstate \ {r.target}
        BY <1>1, <2>6 DEF Ordered, OneChange, Wanted
    <3>4. S \in {tfstate, tfstate \ {r.target}} /\ tfstate \ {r.target} \subseteq S
        BY <2>1, <3>3
    <3>5. ~Joins(r.target)
        BY <1>1, <2>6 DEF Removing, Joins, CleanHost
    <3>6. Belonging' = Belonging
        BY <2>1, <2>2, <3>4, <3>5, ProvisionBelonging
    <3>7. CASE S = tfstate \ {r.target}
      <4>1. Abstract!Remove
          BY <1>2, <2>3, <3>2, <3>5, <3>6, <3>7
          DEF Abstract!Remove, Abstract!Going, Abstract!NoChange, Abstract!Of, Nothing, Belonging
      <4> QED BY <4>1 DEF AbstractStep, Abstract!Next
    <3>8. CASE S = tfstate
        BY <1>2, <2>3, <3>6, <3>8, QuietStep
    <3> QED BY <3>4, <3>7, <3>8
  <2> QED BY <1>3, <2>4, <2>5, <2>6
<1> QED BY <1>4, <1>5


\* terraform destroy converges to no machine, or to fewer when it fails.
LEMMA TerraformDestroyStep ==
    ASSUME Inv, NEW p \in Client, TerraformDestroy(p)
    PROVE  AbstractStep
<1> ChangeInv /\ TypeOK /\ StoresTypeOK /\ HostInv /\ PhasesFit /\ Ordered(p)
    BY DEF Inv, ChangeInv, TypeOK
<1>1. pc[p] = "terraformDestroy" /\ Step(p)
    BY DEF TerraformDestroy, At, Step
<1>2. Change = ChangeOf(run[p], "terraformDestroy") /\ Change' \in {Change, Nothing}
    BY <1>1, OthersIdle, StepGoes
<1>3. run[p].command = "destroy"
    BY <1>1, CommandOfPhase DEF Ordered, MethodSteps
<1>4. Change.kind = "converge"
    BY <1>2, <1>3 DEF ChangeOf
<1>5. PICK S \in SUBSET tfstate : Provision(S)
    BY DEF TerraformDestroy, TerraformDestroyed, TerraformDestroyFailed
<1>6. S \in SUBSET Machine
    BY DEF StoresTypeOK
<1>7. tfstate' = S /\ Belonging' \subseteq Belonging \cap S
    BY <1>5, <1>6, ProvisionBelonging
<1>8. Abstract!Converge
    BY <1>2, <1>4, <1>6, <1>7
    DEF Abstract!Converge, Abstract!Going, Abstract!NoChange, Abstract!Of, Nothing, Belonging
<1> QED BY <1>8 DEF AbstractStep, Abstract!Next

\* kubeadm reset makes its machine leave, and all when it was the last master.
LEMMA ResetMachineStep ==
    ASSUME Inv, NEW p \in Client, ResetMachine(p)
    PROVE  AbstractStep
<1> ChangeInv /\ TypeOK /\ StoresTypeOK /\ PhasesFit /\ Ordered(p)
    BY DEF Inv, ChangeInv, TypeOK
<1> DEFINE r == run[p]
           m == r.target
           h == [host EXCEPT ![m] = CleanHost]
<1>1. pc[p] = "reset" /\ Step(p)
    BY DEF ResetMachine, At, Step
<1>2. Change = ChangeOf(run[p], "reset") /\ Change' \in {Change, Nothing}
    BY <1>1, OthersIdle, StepGoes
<1>3. run[p].phase \in {"remove", "reset"}
    BY <1>1 DEF Ordered, MethodSteps
<1>4. run[p].command \in {"remove", "replace", "reset"}
    BY <1>3, CommandOfPhase
<1>5. Change.kind \in {"remove", "reset"} /\ Change.machine = m
  <2>1. r.phase = "remove" => Superseded(r, "reset")
      BY DEF Superseded
  <2>2. r.command = "replace" => r.phase = "remove"
      BY <1>3, CommandOfPhase
  <2>3. Change = [kind |-> r.phase, machine |-> m, original |-> NoMachine]
      BY <1>2, <1>4, <2>1, <2>2, ChangeOfCommand
  <2> QED BY <1>3, <2>3
<1>6. CASE UNCHANGED <<tfstate, host>>
    BY <1>2, <1>6, QuietStep
<1>7. CASE KubeadmReset(m) /\ m \in tfstate
  <2>1. PICK e : Settle(h, node, e, kubeconfig)
      BY <1>7 DEF KubeadmReset
  <2>2. h \in [Machine -> HostStates] /\ h[m] = CleanHost
        /\ \A x \in Machine : h[x] \in {host[x], CleanHost}
      BY <1>7, CleanHostType DEF StoresTypeOK
  <2>clean. CleanHost.cp = NoControlPlane
      BY DEF CleanHost
  <2> HIDE DEF h
  <2>3. ASSUME NEW x \in Machine, host'[x].cp # NoControlPlane
        PROVE  host[x].cp # NoControlPlane /\ x # m
      BY <2>1, <2>2, <2>clean, <2>3, SettleEffect
  <2>4. Belonging' \subseteq Belonging \ {m}
      BY <2>3 DEF Belonging, Joins
  <2>5. Abstract!Leave
      BY <1>2, <1>5, <1>7, <2>4
      DEF Abstract!Leave, Abstract!Going, Abstract!NoChange, Abstract!Of, Nothing, Belonging, KubeadmReset
  <2> QED BY <2>5 DEF AbstractStep, Abstract!Next
<1> QED BY <1>6, <1>7 DEF ResetMachine, Fail, CommandFails, stores, k8s

\* Apply and Join make machines that exist members of a control plane.
LEMMA JoinIsAbstract ==
    ASSUME Inv, NEW p \in Client, Step(p), pc[p] \in {"initializeMaster", "joinCluster"},
           tfstate' = tfstate, Belonging \subseteq Belonging', Belonging' \subseteq tfstate
    PROVE  AbstractStep
<1> ChangeInv /\ TypeOK /\ PhasesFit /\ Ordered(p)
    BY DEF Inv, ChangeInv
<1>1. Change = ChangeOf(run[p], pc[p]) /\ Change' \in {Change, Nothing}
    BY OthersIdle, StepGoes
<1>2. run[p].phase \in {"apply", "join"}
    BY DEF Ordered, MethodSteps
<1>3. run[p].command \in {"apply", "add", "clone", "replace"}
    BY <1>2, CommandOfPhase
<1>4. Change.kind \in {"converge", "create", "replace"}
    BY <1>1, <1>2, <1>3 DEF ChangeOf, Superseded
<1>5. Abstract!Join
    BY <1>1, <1>4 DEF Abstract!Join, Abstract!Going, Abstract!NoChange, Abstract!Of, Nothing, Belonging
<1> QED BY <1>5 DEF AbstractStep, Abstract!Next

LEMMA InitializeMasterStep ==
    ASSUME Inv, NEW p \in Client, InitializeMaster(p)
    PROVE  AbstractStep
<1> ChangeInv /\ TypeOK /\ StoresTypeOK /\ HostInv
    BY DEF Inv, ChangeInv, TypeOK
<1>1. pc[p] = "initializeMaster" /\ Step(p)
    BY DEF InitializeMaster, At, Step
<1>2. CASE UNCHANGED <<tfstate, host>>
    BY <1>1, <1>2, StepGoes, QuietStep
<1>3. CASE \E m \in tfstate, complete \in BOOLEAN : KubeadmInit(m, complete)
  <2>1. PICK m \in tfstate, complete \in BOOLEAN, c \in ControlPlane :
           /\ host' = [host EXCEPT ![m] = [admin |-> TRUE, kubelet |-> TRUE, cp |-> c]]
           /\ tfstate' = tfstate
      BY <1>3 DEF KubeadmInit
  <2>2. m \in Machine /\ c # NoControlPlane
      BY ControlPlaneAssumption DEF StoresTypeOK
  <2>3. \A x \in Machine : x # m => host'[x] = host[x]
      BY <2>1, <2>2 DEF StoresTypeOK
  <2>4. host'[m].cp = c
      BY <2>1, <2>2 DEF StoresTypeOK
  <2>5. Belonging \subseteq Belonging'
      BY <2>2, <2>3, <2>4 DEF Belonging, Joins
  <2>clean. CleanHost.cp = NoControlPlane
      BY DEF CleanHost
  <2>6. Belonging' \subseteq tfstate
      BY <2>3, <2>clean DEF Belonging, Joins, HostInv
  <2> QED BY <1>1, <2>1, <2>5, <2>6, JoinIsAbstract
<1> QED
  BY <1>2, <1>3 DEF InitializeMaster, Fail, CommandFails, stores, k8s

LEMMA JoinClusterStep ==
    ASSUME Inv, NEW p \in Client, JoinCluster(p)
    PROVE  AbstractStep
<1> ChangeInv /\ TypeOK /\ StoresTypeOK /\ HostInv
    BY DEF Inv, ChangeInv, TypeOK
<1> DEFINE c == host[Min(ActiveMasters)].cp
<1>1. pc[p] = "joinCluster" /\ Step(p)
    BY DEF JoinCluster, At, Step
<1>2. CASE UNCHANGED <<tfstate, host>>
    BY <1>1, <1>2, StepGoes, QuietStep
<1>3. CASE /\ HostsReachable /\ Healthy(c)
           /\ (KubeadmJoin(c, JoiningNodes, {}, {}, {}) \/ KubeadmJoinFailed(c))
  <2>1. PICK J, Q \in SUBSET JoiningNodes : \E K, R : KubeadmJoin(c, J, Q, K, R)
    <3>1. CASE KubeadmJoin(c, JoiningNodes, {}, {}, {})
        BY <3>1
    <3>2. CASE KubeadmJoinFailed(c)
      <4> HIDE DEF c
      <4> QED BY <3>2, Zenon DEF KubeadmJoinFailed
    <3> QED BY <1>3, <3>1, <3>2
  <2>2. c # NoControlPlane
      BY <1>3 DEF Healthy
  <2>3. J \cup Q \subseteq tfstate
      BY <1>3 DEF JoiningNodes, K8sNodes, Masters, Workers, HostsReachable
  <2> HIDE DEF c
  <2>4. /\ tfstate' = tfstate
        /\ \A m \in Machine \ (J \cup Q) : host'[m] = host[m]
        /\ \A m \in Machine : m \in J \cup Q => host'[m].cp = c
      BY <2>1 DEF KubeadmJoin
  <2>5. Belonging \subseteq Belonging'
      BY <2>2, <2>4 DEF Belonging, Joins
  <2>clean. CleanHost.cp = NoControlPlane
      BY DEF CleanHost
  <2>6. Belonging' \subseteq tfstate
      BY <2>3, <2>4, <2>clean DEF Belonging, Joins, HostInv
  <2> QED BY <1>1, <2>4, <2>5, <2>6, JoinIsAbstract
<1>4. \/ /\ HostsReachable /\ Healthy(c)
         /\ (KubeadmJoin(c, JoiningNodes, {}, {}, {}) \/ KubeadmJoinFailed(c))
      \/ UNCHANGED stores
    BY DEF JoinCluster, Fail
<1> QED BY <1>2, <1>3, <1>4 DEF stores, k8s

\* An empty plan lets the removal of a replaced machine begin.
LEMMA PlanStep ==
    ASSUME Inv, NEW p \in Client, PlanNoDiff(p)
    PROVE  AbstractStep
<1> ChangeInv /\ TypeOK /\ StoresTypeOK /\ PhasesFit /\ Ordered(p) /\ Replacing(p)
    BY DEF Inv, ChangeInv, TypeOK
<1> DEFINE r == run[p]
<1>1. pc[p] = "plan" /\ Step(p) /\ UNCHANGED <<tfstate, host>>
    BY DEF PlanNoDiff, At, Step, Fail, CommandFails, stores, k8s
<1>2. Change = ChangeOf(r, "plan")
    BY <1>1, OthersIdle
<1>3. CASE Fail(p) \/ CommandFails(p)
  <2>1. Change' = Nothing
      BY <1>1, <1>3, OthersIdle, ReturnEffect DEF Fail, CommandFails
  <2> QED BY <1>1, <2>1, QuietStep
<1>4. CASE \E s \in {"nodeExists", "configure"} : Goto(p, s)
  <2>1. PICK s \in {"nodeExists", "configure"} : pc'[p] = s /\ run'[p] = r
      BY <1>4, GotoEffect
  <2>2. Change' = ChangeOf(r, s)
      BY <1>1, <2>1, OthersIdle
  <2>3. CASE r.command = "replace" /\ r.phase = "remove"
    <3>1. /\ Change = [kind |-> "replace", machine |-> r.created, original |-> r.target]
          /\ Change' = [kind |-> "remove", machine |-> r.target, original |-> NoMachine]
        BY <1>2, <2>1, <2>2, <2>3 DEF ChangeOf, Superseded
    <3>2. Working(r.created) /\ r.created \in Machine
        BY <2>3 DEF Replacing
    <3>3. r.created \in tfstate /\ (r.created \in K8sNodes(Machine) => r.created \in Belonging)
        BY <3>2 DEF Working, K8sNodes, Masters, Workers, Belonging, Joins
    <3>4. Abstract!Supersede
        BY <1>1, <3>1, <3>3
        DEF Abstract!Supersede, Abstract!NoChange, Abstract!Of, Abstract!Unmoved, Belonging, Joins
    <3> QED BY <3>4 DEF AbstractStep, Abstract!Next
  <2>4. CASE r.command # "replace" \/ r.phase # "remove"
    <3>1. Change' = Change
        BY <1>2, <2>1, <2>2, <2>4 DEF ChangeOf, Superseded
    <3> QED BY <1>1, <3>1, QuietStep
  <2> QED BY <2>3, <2>4
<1> QED BY <1>3, <1>4 DEF PlanNoDiff

\* AddMachine and CloneMachine name a machine that does not exist.
LEMMA ConfigureStep ==
    ASSUME Inv, FewResources, NEW p \in Client, AddMachine(p) \/ CloneMachine(p)
    PROVE  AbstractStep
<1> ChangeInv /\ TypeOK /\ StoresTypeOK /\ TargetNamed /\ PhasesFit /\ Ordered(p) /\ Unnamed(p)
    BY DEF Inv, ChangeInv, TypeOK
<1> run[p] \in Runs
    BY DEF TypeOK
<1> DEFINE r == run[p]
<1>1. pc[p] = "configure" /\ Step(p) /\ UNCHANGED <<tfstate, host>>
    BY DEF AddMachine, CloneMachine, At, Step, Fail, CommandFails, stores, k8s
<1>2. Change = ChangeOf(r, "configure")
    BY <1>1, OthersIdle
<1>3. CASE Fail(p) \/ CommandFails(p)
  <2>1. Change' = Nothing
      BY <1>1, <1>3, OthersIdle, ReturnEffect DEF Fail, CommandFails
  <2> QED BY <1>1, <2>1, QuietStep
<1>4. ASSUME NEW m \in Machine \ tfstate, Configured(p, m),
             r.command \in {"add", "clone", "replace"}
      PROVE  AbstractStep
  <2>1. pc'[p] = "writeTFVars" /\ run'[p] = [r EXCEPT !.created = m, !.machines = @ \cup {m}]
      BY <1>4, GotoWithEffect DEF Configured
  <2>2. /\ run'[p].command = r.command /\ run'[p].phase = r.phase
        /\ run'[p].target = r.target /\ run'[p].created = m
      BY <2>1 DEF Runs
  <2>3. r.phase = "join" /\ r.created = NoMachine
      BY <1>1 DEF Ordered, MethodSteps, Unnamed
  <2>4. Change' = ChangeOf(run'[p], "writeTFVars")
      BY <1>1, <2>1, OthersIdle
  <2>5. /\ Change.kind \in {"create", "replace"} /\ Change.machine = NoMachine
        /\ Change' = [Change EXCEPT !.machine = m]
    <3>1. ~Superseded(r, "configure") /\ ~Superseded(run'[p], "writeTFVars")
        BY <2>2, <2>3 DEF Superseded
    <3>2. CASE r.command \in {"add", "clone"}
      <4>1. /\ Change = [kind |-> "create", machine |-> NoMachine, original |-> NoMachine]
            /\ Change' = [kind |-> "create", machine |-> m, original |-> NoMachine]
          BY <1>2, <2>2, <2>3, <2>4, <3>2, ChangeOfCommand
      <4> QED BY <4>1
    <3>3. CASE r.command = "replace"
      <4>1. /\ Change = [kind |-> "replace", machine |-> NoMachine, original |-> r.target]
            /\ Change' = [kind |-> "replace", machine |-> m, original |-> r.target]
          BY <1>2, <2>2, <2>3, <2>4, <3>1, <3>3, ChangeOfCommand
      <4> QED BY <4>1
    <3> QED BY <1>4, <3>2, <3>3
  <2>6. Abstract!Name
      BY <1>1, <2>5 DEF Abstract!Name, Abstract!Unmoved, Joins
  <2> QED BY <2>6 DEF AbstractStep, Abstract!Next
<1>5. CASE ~Fail(p) /\ ~CommandFails(p)
  <2>1. CASE AddMachine(p)
    <3>1. /\ Configured(p, r.target) /\ r.target \notin r.machines /\ r.command = "add"
        BY <1>5, <2>1 DEF AddMachine
    <3>2. r.target \in Machine
        BY <3>1 DEF TargetNamed
    <3>3. r.machines = tfstate
        BY <1>1 DEF Ordered, MethodSteps, OneChange
    <3> QED BY <1>4, <3>1, <3>2, <3>3
  <2>2. CASE CloneMachine(p)
    <3>1. r.command \in {"clone", "replace"} /\ \E m \in FreshNames(r.target) : Configured(p, m)
        BY <1>5, <2>2 DEF CloneMachine
    <3>2. FreshNames(r.target) \subseteq Machine \ tfstate
        BY DEF FreshNames
    <3> QED BY <1>4, <3>1, <3>2
  <2> QED BY <2>1, <2>2
<1> QED BY <1>3, <1>5

\* A command begins when no other is under way.
LEMMA StartStep ==
    ASSUME Exclusive, Inv, [Next]_vars, NEW p \in Client, Start(p)
    PROVE  AbstractStep
<1> ChangeInv /\ TypeOK
    BY DEF Inv, ChangeInv
<1>0. PICK c \in Commands \ {"edit"} : \E t \in Targets(c), s \in FirstStep(c) :
          /\ pc' = [pc EXCEPT ![p] = s]
          /\ run' = [run EXCEPT ![p] =
                         [command |-> c, phase |-> FirstPhase(c), target |-> t,
                          created |-> NoMachine, machines |-> tfvars]]
          /\ UNCHANGED stores
    BY StartRun
<1>1. PICK t \in Targets(c), s \in FirstStep(c) :
          /\ pc' = [pc EXCEPT ![p] = s]
          /\ run' = [run EXCEPT ![p] =
                         [command |-> c, phase |-> FirstPhase(c), target |-> t,
                          created |-> NoMachine, machines |-> tfvars]]
          /\ UNCHANGED stores
    BY <1>0
<1>2. Change = Nothing
    BY IdleChange DEF Start, AllIdle
<1>3. OneCommand'
    BY ChangeNext DEF ChangeInv
<1>4. pc'[p] = s /\ s # "idle"
    BY <1>1 DEF TypeOK, FirstStep, Commands
<1>5. /\ run'[p].command = c /\ run'[p].phase = FirstPhase(c)
      /\ run'[p].target = t /\ run'[p].created = NoMachine
    BY <1>1 DEF TypeOK
<1>6. Change' = ChangeOf(run'[p], s)
    BY <1>3, <1>4, NextChangeOfActive
<1>7. UNCHANGED <<tfstate, host>>
    BY <1>1 DEF stores, k8s
<1>8. CASE c = "drain"
  <2>1. Change' = Nothing
      BY <1>5, <1>6, <1>8 DEF ChangeOf, Nothing
  <2> QED BY <1>7, <2>1, QuietStep
<1>9. CASE c # "drain"
  <2>1. c \notin {"apply", "terraform apply", "destroy"} => t \in Machine
      BY DEF Targets
  <2>2. /\ FirstPhase("replace") = "join" /\ FirstPhase("remove") = "remove"
        /\ FirstPhase("reset") = "reset"
      BY DEF FirstPhase
  <2>3. \/ Change' = [kind |-> "converge", machine |-> NoMachine, original |-> NoMachine]
        \/ Change' = [kind |-> "create", machine |-> NoMachine, original |-> NoMachine]
        \/ /\ t \in Machine
           /\ \/ Change' = [kind |-> "replace", machine |-> NoMachine, original |-> t]
              \/ Change' = [kind |-> "remove", machine |-> t, original |-> NoMachine]
              \/ Change' = [kind |-> "reset", machine |-> t, original |-> NoMachine]
    <3>1. CASE c \in {"apply", "terraform apply", "destroy"}
        BY <1>5, <1>6, <3>1, ChangeOfCommand
    <3>2. CASE c \in {"add", "clone"}
        BY <1>5, <1>6, <3>2, ChangeOfCommand
    <3>3. CASE c = "replace"
      <4>1. ~Superseded(run'[p], s)
          BY <1>5, <2>2, <3>3 DEF Superseded
      <4> QED BY <1>5, <1>6, <2>1, <3>3, <4>1, ChangeOfCommand
    <3>4. CASE c \in {"remove", "reset"}
        BY <1>5, <1>6, <2>1, <2>2, <3>4, ChangeOfCommand
    <3> QED BY <1>9, <3>1, <3>2, <3>3, <3>4 DEF Commands
  <2>4. Abstract!Begin
    <3>1. Abstract!NoChange = Nothing
        BY DEF Abstract!NoChange, Abstract!Of, Nothing
    <3>2. Abstract!Unmoved
        BY <1>7 DEF Abstract!Unmoved, Joins
    <3> QED BY <1>2, <2>3, <3>1, <3>2 DEF Abstract!Begin, Abstract!Of
  <2> QED BY <2>4 DEF AbstractStep, Abstract!Next
<1> QED BY <1>8, <1>9

\* The other steps change no machine and no control plane it belongs to.
LEMMA OtherSteps ==
    ASSUME Inv, NEW p \in Client, Step(p) \/ Kill(p),
           ~TerraformApply(p), ~TerraformDestroy(p), ~ResetMachine(p),
           ~InitializeMaster(p), ~JoinCluster(p)
    PROVE  UNCHANGED <<tfstate, host>>
<1> USE DEF Fail, CommandFails, stores, k8s
<1>1. CASE Kill(p)
    BY <1>1 DEF Kill
<1>2. CASE WorkspaceApply(p) \/ PlanNoDiff(p) \/ AddMachine(p) \/ CloneMachine(p)
    BY <1>2 DEF WorkspaceApply, PlanNoDiff, AddMachine, CloneMachine
<1>3. CASE WriteTFVars(p) \/ WriteInfraJSON(p) \/ OpenInventory(p) \/ WriteInventory(p)
    BY <1>3 DEF WriteTFVars, WriteInfraJSON, OpenInventory, WriteInventory
<1>4. CASE WaitForSSH(p) \/ Infrastructure(p) \/ PrepareNodes(p)
    BY <1>4 DEF WaitForSSH, Infrastructure, PrepareNodes
<1>5. CASE FetchAdminConf(p) \/ EncryptKubeconfig(p)
    BY <1>5 DEF FetchAdminConf, FetchKubeconfig, EncryptKubeconfig
<1>6. CASE NodeExists(p) \/ DrainNode(p) \/ DeleteNode(p) \/ RemoveMachine(p)
           \/ KubernetesCleanup(p)
    BY <1>6 DEF NodeExists, DrainNode, DeleteNode, SetNodeState, RemoveMachine, KubernetesCleanup
<1> QED BY <1>1, <1>2, <1>3, <1>4, <1>5, <1>6 DEF Step

-----------------------------------------------------------------------------
(* The refinement. *)

LEMMA InitIsAbstract == Init => Abstract!Init
<1> SUFFICES ASSUME Init PROVE Abstract!Init
    OBVIOUS
<1>1. Change = Nothing
    BY IdleChange DEF Init
<1>2. {m \in Machine : Joins(m)} = {}
    BY DEF Init, Joins, CleanHost
<1> QED BY <1>1, <1>2 DEF Init, Abstract!Init, Abstract!NoChange, Abstract!Of, Nothing

LEMMA NextIsAbstract ==
    ASSUME Exclusive, FewResources
    PROVE  Inv /\ [Next]_vars => AbstractStep
<1> SUFFICES ASSUME Inv, [Next]_vars PROVE AbstractStep
    OBVIOUS
<1> ChangeInv /\ TypeOK
    BY DEF Inv, ChangeInv
<1>1. ASSUME NEW p \in Client, Start(p) PROVE AbstractStep
    BY <1>1, StartStep
<1>2. ASSUME NEW p \in Client, Step(p) \/ Kill(p) PROVE AbstractStep
  <2>1. CASE TerraformApply(p) \/ TerraformDestroy(p) \/ ResetMachine(p)
             \/ InitializeMaster(p) \/ JoinCluster(p)
      BY <2>1, TerraformApplyStep, TerraformDestroyStep, ResetMachineStep,
         InitializeMasterStep, JoinClusterStep
  <2>2. CASE PlanNoDiff(p) \/ AddMachine(p) \/ CloneMachine(p)
      BY <2>2, PlanStep, ConfigureStep
  <2>3. CASE /\ ~TerraformApply(p) /\ ~TerraformDestroy(p) /\ ~ResetMachine(p)
             /\ ~InitializeMaster(p) /\ ~JoinCluster(p)
             /\ ~PlanNoDiff(p) /\ ~AddMachine(p) /\ ~CloneMachine(p)
    <3>1. UNCHANGED <<tfstate, host>>
        BY <1>2, <2>3, OtherSteps
    <3>2. CASE Kill(p)
      <4>1. Change' = Nothing
          BY <3>2, OthersIdle, ReturnEffect DEF Kill
      <4> QED BY <3>1, <4>1, QuietStep
    <3>3. CASE Step(p)
      <4>1. pc[p] \notin {"plan", "configure"}
          BY <2>3, <3>3 DEF Step, At, WorkspaceApply, WriteTFVars, WriteInfraJSON,
              OpenInventory, WriteInventory, WaitForSSH, Infrastructure, PrepareNodes,
              FetchAdminConf, EncryptKubeconfig, NodeExists, DrainNode, DeleteNode,
              RemoveMachine, KubernetesCleanup
      <4> QED BY <3>1, <3>3, <4>1, StepGoes, QuietStep
    <3> QED BY <1>2, <3>2, <3>3
  <2> QED BY <2>1, <2>2, <2>3
<1>3. CASE EditTFVars \/ Finished \/ UNCHANGED vars
  <2>1. UNCHANGED <<tfstate, host, pc, run>>
      BY <1>3 DEF EditTFVars, Finished, vars, stores, k8s
  <2>2. Active' = Active /\ ChangeOf(NoRun, "idle")' = ChangeOf(NoRun, "idle")
      BY <2>1 DEF Active, ChangeOf, NoRun, Superseded
  <2>3. Change' = Change
      BY <2>1, <2>2 DEF Change, ChangeOf, Superseded
  <2> QED BY <2>1, <2>3, QuietStep
<1> QED BY <1>1, <1>2, <1>3 DEF Next

\* With one command at a time, in a small cluster whose connections hold, every step of
\* a ck8s command (client/cluster.go), whatever fails in it, is a step of MachineChange
\* or changes none of the machines, of the control planes they belong to and of the
\* change under way.
THEOREM ClusterClientIsMachineChange ==
    ASSUME Exclusive, FewResources, "connection" \notin Faults
    PROVE  Spec => ImplementsMachineChange
<1>1. Init => Inv /\ Abstract!Init
    BY InvInit, InitIsAbstract
<1>2. Inv /\ [Next]_vars => Inv'
    BY InvNext
<1>3. Inv /\ [Next]_vars => [Abstract!Next]_(Abstract!vars)
    BY NextIsAbstract DEF AbstractStep
<1> QED BY <1>1, <1>2, <1>3, PTL DEF Spec, ImplementsMachineChange, Abstract!Spec

-----------------------------------------------------------------------------
(* What the abstract specification promises holds of the commands as well. *)

\* In MachineChange a machine only joins when it exists, and only goes when it has left.
LEMMA MachineChangeKeepsJoined == Abstract!Spec => []Abstract!JoinedExist
<1>1. Abstract!Init => Abstract!JoinedExist
    BY DEF Abstract!Init, Abstract!JoinedExist
<1>2. Abstract!JoinedExist /\ [Abstract!Next]_(Abstract!vars) => Abstract!JoinedExist'
  <2> SUFFICES ASSUME Abstract!JoinedExist, [Abstract!Next]_(Abstract!vars)
               PROVE  Abstract!JoinedExist'
      OBVIOUS
  <2> USE DEF Abstract!JoinedExist
  <2>1. CASE Abstract!Begin \/ Abstract!Name \/ Abstract!Supersede \/ Abstract!End
             \/ UNCHANGED Abstract!vars
      BY <2>1 DEF Abstract!Begin, Abstract!Name, Abstract!Supersede, Abstract!End,
         Abstract!Unmoved, Abstract!vars
  <2>2. CASE Abstract!Create \/ Abstract!Join \/ Abstract!Leave
      BY <2>2 DEF Abstract!Create, Abstract!Join, Abstract!Leave
  <2>3. CASE Abstract!Remove \/ Abstract!Converge
      BY <2>3 DEF Abstract!Remove, Abstract!Converge
  <2> QED BY <2>1, <2>2, <2>3 DEF Abstract!Next
<1> QED BY <1>1, <1>2, PTL DEF Abstract!Spec

\* With one command at a time, in a small cluster whose connections hold, only machines that
\* exist have the files of a control plane: no playbook joins a machine the state does not
\* have, and a machine that is created anew (client/cluster.go:485) starts without them.
THEOREM JoinedMachinesExist ==
    ASSUME Exclusive, FewResources, "connection" \notin Faults
    PROVE  Spec => []Abstract!JoinedExist
BY ClusterClientIsMachineChange, MachineChangeKeepsJoined DEF ImplementsMachineChange

================================================================================
