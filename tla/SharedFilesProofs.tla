---------------------------- MODULE SharedFilesProofs ----------------------------
(***************************************************************************)
(* Theorems about SharedFiles, for every number of clusters, machines and  *)
(* commands.                                                               *)
(***************************************************************************)
EXTENDS SharedFiles, TLAPS

\* What a command has in memory fits the step it is at.
StepOK(c) ==
    /\ pc[c] = "idle" => run[c].command = "none"
    /\ pc[c] # "idle" => run[c].machine \in Machine
    /\ pc[c] \in {"destroy", "workspaceDestroy"} => run[c].command = "destroy"
    /\ pc[c] = "fillTFVars" => Valid(run[c].machines)

StoresTypeOK ==
    /\ tfvars \in Machines \cup {Broken} /\ infra \in Infra \cup {Broken}
    /\ tfvars # Broken => Valid(tfvars)
    /\ workspace \in BOOLEAN /\ state \in Machines /\ orphans \in Machines

ControlTypeOK ==
    /\ pc \in [Cluster -> Steps] /\ run \in [Cluster -> Runs]
    /\ result \in [Cluster -> {"none", "ok", "error", "killed", "destroyed"}]

HistoryTypeOK ==
    /\ validated \in BOOLEAN /\ started \in 0..MaxCommands
    /\ asked \in Machines /\ overlapped \in BOOLEAN

Types == StoresTypeOK /\ ControlTypeOK /\ HistoryTypeOK

SharedInv == Types /\ \A c \in Cluster : StepOK(c)

\* A step that is not a start keeps what other clusters have in memory.
LEMMA FrameOfStep ==
    ASSUME ControlTypeOK, NEW c \in Cluster, ClusterStep(c), NEW d \in Cluster, d # c
    PROVE  pc'[d] = pc[d] /\ run'[d] = run[d] /\ result'[d] = result[d]
BY DEF ClusterStep, Start, Kill, WorkspaceApply, PlanNoDiff, Configure, AlreadyExists,
       WriteTFVars, FillTFVars, TerraformApply, TerraformCanNotRun, ReadInfra, WriteInfra,
       FillInfra, TerraformDestroy, WorkspaceDestroy, AfterFailedDestroy, Goto, GotoWith,
       Return, Fail, ControlTypeOK

\* The values of the types.
LEMMA Values ==
    /\ Broken \notin Infra /\ Broken \notin Machines
    /\ NoInfra \in Infra /\ NoRun \in Runs /\ Machines \subseteq Infra
    /\ \A r \in Runs : /\ r.machines \in Machines /\ r.infra \in Infra
                       /\ r.output \in SUBSET Machine
<1>1. Machines \subseteq Infra
    BY DEF Machines, Infra
<1>2. Broken \notin Infra
    BY BrokenAssumption
<1>3. NoInfra \in Infra
    BY DEF NoInfra, Infra
<1>4. NoRun \in Runs
  <2>1. [c \in Cluster |-> {}] \in Machines
      BY DEF Machines
  <2> QED BY <1>3, <2>1 DEF NoRun, Runs
<1>5. \A r \in Runs : /\ r.machines \in Machines /\ r.infra \in Infra
                      /\ r.output \in SUBSET Machine
    BY DEF Runs
<1> QED BY <1>1, <1>2, <1>3, <1>4, <1>5

-----------------------------------------------------------------------------
(* Control flow. *)

\* The operators that move a command on keep the types of its memory.
LEMMA ControlType ==
    ASSUME ControlTypeOK, NEW c \in Cluster, NEW step \in Steps, NEW r \in Runs,
           NEW res \in {"none", "ok", "error", "killed", "destroyed"},
           Goto(c, step) \/ GotoWith(c, step, r) \/ Return(c, res)
    PROVE  ControlTypeOK' /\ UNCHANGED history
<1>1. CASE Goto(c, step)
    BY <1>1 DEF ControlTypeOK, Goto
<1>2. CASE GotoWith(c, step, r)
    BY <1>2 DEF ControlTypeOK, GotoWith
<1>3. CASE Return(c, res)
    BY <1>3, Values DEF ControlTypeOK, Return, Steps
<1> QED BY <1>1, <1>2, <1>3

\* They reach the step, and a command that returns forgets all.
LEMMA ControlStep ==
    ASSUME ControlTypeOK, NEW c \in Cluster
    PROVE  /\ \A step : Goto(c, step) => pc'[c] = step /\ run'[c] = run[c]
           /\ \A step, r : GotoWith(c, step, r) => pc'[c] = step /\ run'[c] = r
           /\ \A res : Return(c, res) =>
                  pc'[c] = "idle" /\ run'[c] = NoRun /\ result'[c] = res
BY DEF ControlTypeOK, Goto, GotoWith, Return

-----------------------------------------------------------------------------
(* Type correctness. *)

\* What is kept while neither history nor files nor cloud change.
LEMMA OnlyControl ==
    ASSUME StoresTypeOK, HistoryTypeOK, UNCHANGED <<files, cloud, history>>
    PROVE  StoresTypeOK' /\ HistoryTypeOK'
BY DEF StoresTypeOK, HistoryTypeOK, files, cloud, history, Valid

\* A new state of one cluster is a state.
LEMMA AppliedType ==
    ASSUME StoresTypeOK, NEW c \in Cluster, NEW S \in SUBSET Machine
    PROVE  /\ Applied(c, S) \in Machines
           /\ Applied(c, S)[c] = S
           /\ \A d \in Cluster \ {c} : Applied(c, S)[d] = state[d]
BY DEF StoresTypeOK, Applied, Machines

\* A command starts from what the file says.
LEMMA StartType ==
    ASSUME SharedInv, NEW c \in Cluster, Start(c)
    PROVE  Types' /\ StepOK(c)'
<1>1. PICK m \in ReadTFVars, command \in Commands, target \in Machine :
          /\ Valid(m)
          /\ pc' = [pc EXCEPT ![c] = FirstStep(command)]
          /\ run' = [run EXCEPT ![c] = [NoRun EXCEPT !.command = command,
                                                     !.machine = target, !.machines = m]]
    BY DEF Start
<1>2. m \in Machines
    BY <1>1 DEF ReadTFVars, SharedInv, Types, StoresTypeOK
<1>3. FirstStep(command) \in {"workspace", "writeTFVars", "plan", "destroy"}
    BY <1>1 DEF Commands, FirstStep
<1>4. FirstStep(command) = "destroy" => command = "destroy"
    BY <1>1 DEF Commands, FirstStep
<1> DEFINE r == [NoRun EXCEPT !.command = command, !.machine = target, !.machines = m]
<1>5. r \in Runs /\ r.command = command /\ r.machine = target
  <2>1. NoInfra \in Infra
      BY Values
  <2> QED BY <1>1, <1>2, <2>1 DEF NoRun, Runs
<1>6. /\ pc' = [pc EXCEPT ![c] = FirstStep(command)] /\ run' = [run EXCEPT ![c] = r]
      /\ UNCHANGED result
    BY <1>1 DEF Start
<1> HIDE DEF r
<1>7. StoresTypeOK /\ ControlTypeOK /\ HistoryTypeOK
    BY DEF SharedInv, Types
<1>8. ControlTypeOK'
    BY <1>3, <1>5, <1>6, <1>7 DEF ControlTypeOK, Steps
<1>9. StoresTypeOK'
    BY <1>7 DEF Start, StoresTypeOK, files, cloud, Valid
<1>10. HistoryTypeOK'
    BY <1>7, CommandsAssumption DEF Start, HistoryTypeOK
<1>11. StepOK(c)'
    BY <1>1, <1>3, <1>4, <1>5, <1>6, <1>7 DEF ControlTypeOK, StepOK
<1> QED BY <1>8, <1>9, <1>10, <1>11 DEF Types

\* Kills, errors and plans change no store.
LEMMA ControlOnlyType ==
    ASSUME SharedInv, NEW c \in Cluster,
           Kill(c) \/ PlanNoDiff(c) \/ AlreadyExists(c) \/ TerraformCanNotRun(c)
    PROVE  Types' /\ StepOK(c)'
<1>1. StoresTypeOK /\ ControlTypeOK /\ HistoryTypeOK /\ StepOK(c)
    BY DEF SharedInv, Types
<1>2. UNCHANGED <<files, cloud>>
    BY DEF Kill, PlanNoDiff, AlreadyExists, TerraformCanNotRun, Fail
<1>3. CASE Goto(c, "configure") /\ pc[c] = "plan"
  <2>1. ControlTypeOK' /\ UNCHANGED history /\ pc'[c] = "configure" /\ run'[c] = run[c]
      BY <1>1, <1>3, ControlType, ControlStep, Values DEF Steps
  <2> QED BY <1>1, <1>2, <1>3, <2>1, OnlyControl DEF StepOK, Types
<1>4. CASE Return(c, "error") \/ Return(c, "killed")
  <2>1. ControlTypeOK' /\ UNCHANGED history /\ pc'[c] = "idle" /\ run'[c] = NoRun
      BY <1>1, <1>4, ControlType, ControlStep, Values DEF Steps
  <2> QED BY <1>1, <1>2, <2>1, OnlyControl DEF StepOK, Types, NoRun
<1> QED BY <1>3, <1>4 DEF Kill, PlanNoDiff, AlreadyExists, TerraformCanNotRun, Fail

\* The workspace is made; AddMachine and RemoveMachine change the snapshot.
LEMMA ConfigureType ==
    ASSUME SharedInv, NEW c \in Cluster, WorkspaceApply(c) \/ Configure(c)
    PROVE  Types' /\ StepOK(c)'
<1>1. StoresTypeOK /\ ControlTypeOK /\ HistoryTypeOK /\ StepOK(c)
    BY DEF SharedInv, Types
<1>2. CASE WorkspaceApply(c)
  <2>1. CASE Goto(c, "writeTFVars") /\ workspace' = TRUE /\ UNCHANGED <<files, state, orphans>>
    <3>1. ControlTypeOK' /\ UNCHANGED history /\ pc'[c] = "writeTFVars" /\ run'[c] = run[c]
        BY <1>1, <2>1, ControlType, ControlStep, Values DEF Steps
    <3>2. StoresTypeOK'
        BY <1>1, <2>1, <3>1 DEF StoresTypeOK, files, history, Valid
    <3>3. HistoryTypeOK'
        BY <1>1, <3>1 DEF HistoryTypeOK, history
    <3>4. pc[c] = "workspace"
        BY <1>2 DEF WorkspaceApply
    <3> QED BY <1>1, <3>1, <3>2, <3>3, <3>4 DEF StepOK, Types
  <2>2. CASE Fail(c)
    <3>1. ControlTypeOK' /\ UNCHANGED history /\ pc'[c] = "idle" /\ run'[c] = NoRun
        BY <1>1, <2>2, ControlType, ControlStep, Values DEF Steps, Fail
    <3>2. UNCHANGED <<files, cloud>>
        BY <2>2 DEF Fail
    <3> QED BY <1>1, <3>1, <3>2, OnlyControl DEF StepOK, NoRun, Types
  <2> QED BY <1>2, <2>1, <2>2 DEF WorkspaceApply
<1>3. CASE Configure(c)
  <2>1. run[c] \in Runs /\ run[c].machine \in Machine /\ run[c].machines \in Machines
      BY <1>1, <1>3, Values DEF Configure, StepOK, ControlTypeOK
  <2>2. PICK S \in SUBSET Machine :
            GotoWith(c, "writeTFVars", [run[c] EXCEPT !.machines[c] = S])
      BY <1>3, <2>1 DEF Configure, Machines
  <2> DEFINE r == [run[c] EXCEPT !.machines[c] = S]
  <2>3. [run[c].machines EXCEPT ![c] = S] \in Machines
      BY <2>1 DEF Machines
  <2>4. r \in Runs /\ r.machine = run[c].machine
      BY <2>1, <2>3 DEF Runs
  <2>5. GotoWith(c, "writeTFVars", r)
      BY <2>2
  <2> HIDE DEF r
  <2>6. ControlTypeOK' /\ UNCHANGED history /\ pc'[c] = "writeTFVars" /\ run'[c] = r
      BY <1>1, <2>4, <2>5, ControlType, ControlStep, Values DEF Steps
  <2>7. UNCHANGED <<files, cloud>>
      BY <1>3 DEF Configure
  <2> QED BY <1>1, <2>1, <2>4, <2>6, <2>7, OnlyControl DEF StepOK, Types
<1> QED BY <1>2, <1>3

\* The files are truncated, and what is written into them was read or validated.
LEMMA FilesType ==
    ASSUME SharedInv, NEW c \in Cluster, WriteTFVars(c) \/ FillTFVars(c) \/ WriteInfra(c) \/ FillInfra(c)
    PROVE  Types' /\ StepOK(c)'
<1>1. StoresTypeOK /\ ControlTypeOK /\ HistoryTypeOK /\ StepOK(c)
    BY DEF SharedInv, Types
<1>v. /\ run[c] \in Runs /\ run[c].machines \in Machines
      /\ run[c].infra \in Infra /\ run[c].output \in SUBSET Machine
    BY <1>1, Values DEF ControlTypeOK
<1>2. CASE WriteTFVars(c) /\ Valid(run[c].machines)
  <2>1. Goto(c, "fillTFVars") /\ tfvars' = Broken /\ UNCHANGED <<infra, cloud>> /\ pc[c] = "writeTFVars"
      BY <1>2 DEF WriteTFVars
  <2>2. ControlTypeOK' /\ UNCHANGED history /\ pc'[c] = "fillTFVars" /\ run'[c] = run[c]
      BY <1>1, <2>1, ControlType, ControlStep, Values DEF Steps
  <2>3. StoresTypeOK' /\ HistoryTypeOK'
      BY <1>1, <2>1, <2>2 DEF StoresTypeOK, HistoryTypeOK, cloud, history
  <2>4. StepOK(c)'
      BY <1>1, <1>2, <2>1, <2>2 DEF StepOK, Valid, history
  <2> QED BY <2>2, <2>3, <2>4 DEF Types
<1>3. CASE WriteTFVars(c) /\ ~Valid(run[c].machines)
  <2>1. Fail(c)
      BY <1>3 DEF WriteTFVars
  <2>2. ControlTypeOK' /\ UNCHANGED history /\ pc'[c] = "idle" /\ run'[c] = NoRun
      BY <1>1, <2>1, ControlType, ControlStep, Values DEF Steps, Fail
  <2>3. UNCHANGED <<files, cloud>>
      BY <2>1 DEF Fail
  <2> QED BY <1>1, <2>2, <2>3, OnlyControl DEF StepOK, NoRun, Types
<1>4. CASE FillTFVars(c)
  <2>1. /\ tfvars' = run[c].machines /\ pc' = [pc EXCEPT ![c] = "terraform"] /\ pc[c] = "fillTFVars"
        /\ asked' = [asked EXCEPT ![c] = run[c].machines[c]]
        /\ UNCHANGED <<infra, cloud, run, result, validated, started, overlapped>>
      BY <1>4 DEF FillTFVars
  <2>2. StoresTypeOK'
      BY <1>1, <1>v, <2>1 DEF StoresTypeOK, cloud, StepOK, Valid
  <2>3. ControlTypeOK'
      BY <1>1, <2>1 DEF ControlTypeOK, Steps
  <2>4. HistoryTypeOK'
      BY <1>1, <1>v, <2>1 DEF HistoryTypeOK, Machines
  <2>5. StepOK(c)'
      BY <1>1, <2>1 DEF StepOK, ControlTypeOK
  <2> QED BY <2>2, <2>3, <2>4, <2>5 DEF Types
<1>5. CASE WriteInfra(c)
  <2>1. Goto(c, "fillInfra") /\ infra' = Broken /\ UNCHANGED <<tfvars, cloud>> /\ pc[c] = "writeInfra"
      BY <1>5 DEF WriteInfra
  <2>2. ControlTypeOK' /\ UNCHANGED history /\ pc'[c] = "fillInfra" /\ run'[c] = run[c]
      BY <1>1, <2>1, ControlType, ControlStep, Values DEF Steps
  <2>3. StoresTypeOK' /\ HistoryTypeOK'
      BY <1>1, <2>1, <2>2 DEF StoresTypeOK, HistoryTypeOK, cloud, history, Valid
  <2> QED BY <1>1, <2>1, <2>2, <2>3 DEF StepOK, Types
<1>6. CASE FillInfra(c)
  <2>1. Return(c, "ok") /\ UNCHANGED <<tfvars, cloud>>
      BY <1>6 DEF FillInfra
  <2>2. infra' \in Infra
      BY <1>6, <1>v DEF FillInfra, UpdatedValues, Infra
  <2>3. ControlTypeOK' /\ UNCHANGED history /\ pc'[c] = "idle" /\ run'[c] = NoRun
      BY <1>1, <2>1, ControlType, ControlStep, Values DEF Steps
  <2>4. StoresTypeOK' /\ HistoryTypeOK'
      BY <1>1, <2>1, <2>2, <2>3 DEF StoresTypeOK, HistoryTypeOK, cloud, history, Valid
  <2> QED BY <2>3, <2>4 DEF StepOK, NoRun, Types
<1> QED BY <1>2, <1>3, <1>4, <1>5, <1>6

\* What Terraform leaves is a part of the state and of the file.
LEMMA TerraformType ==
    ASSUME SharedInv, NEW c \in Cluster, TerraformApply(c) \/ TerraformDestroy(c)
    PROVE  Types' /\ StepOK(c)'
<1>1. StoresTypeOK /\ ControlTypeOK /\ HistoryTypeOK /\ StepOK(c)
    BY DEF SharedInv, Types
<1>2. PICK S \in SUBSET Machine : state' = Applied(c, S)
    BY <1>1 DEF TerraformApply, TerraformDestroy, Applied, StoresTypeOK, Machines
<1>3. UNCHANGED <<files, workspace, orphans>> /\ pc[c] \in {"terraform", "destroy"}
    BY DEF TerraformApply, TerraformDestroy
<1>4. /\ pc[c] = "terraform" => Goto(c, "readInfra") \/ Return(c, "error")
      /\ pc[c] = "destroy" => \/ Goto(c, "workspaceDestroy")
                              \/ Return(c, "destroyed") \/ Return(c, "error")
    BY <1>3 DEF TerraformApply, TerraformDestroy, AfterFailedDestroy
<1>5. /\ ControlTypeOK' /\ UNCHANGED history
      /\ \/ pc'[c] = "readInfra" /\ run'[c] = run[c]
         \/ pc[c] = "destroy" /\ pc'[c] = "workspaceDestroy" /\ run'[c] = run[c]
         \/ pc'[c] = "idle" /\ run'[c] = NoRun
  <2>1. CASE Goto(c, "readInfra")
      BY <1>1, <2>1, ControlType, ControlStep, Values DEF Steps
  <2>2. CASE pc[c] = "destroy" /\ Goto(c, "workspaceDestroy")
      BY <1>1, <2>2, ControlType, ControlStep, Values DEF Steps
  <2>3. CASE Return(c, "error") \/ Return(c, "destroyed")
      BY <1>1, <2>3, ControlType, ControlStep, Values DEF Steps
  <2> QED BY <1>3, <1>4, <2>1, <2>2, <2>3
<1>6. StoresTypeOK' /\ HistoryTypeOK'
    BY <1>1, <1>2, <1>3, <1>5, AppliedType
       DEF StoresTypeOK, HistoryTypeOK, files, history, Valid
<1> QED BY <1>1, <1>3, <1>5, <1>6 DEF StepOK, NoRun, Types

\* The output of Terraform, and the workspace that goes.
LEMMA WorkspaceType ==
    ASSUME SharedInv, NEW c \in Cluster, ReadInfra(c) \/ WorkspaceDestroy(c)
    PROVE  Types' /\ StepOK(c)'
<1>1. StoresTypeOK /\ ControlTypeOK /\ HistoryTypeOK /\ StepOK(c)
    BY DEF SharedInv, Types
<1>2. CASE Fail(c)
  <2>1. ControlTypeOK' /\ UNCHANGED history /\ pc'[c] = "idle" /\ run'[c] = NoRun
      BY <1>1, <1>2, ControlType, ControlStep, Values DEF Steps, Fail
  <2>2. UNCHANGED <<files, cloud>>
      BY <1>2 DEF Fail
  <2> QED BY <1>1, <2>1, <2>2, OnlyControl DEF StepOK, NoRun, Types
<1>3. CASE ReadInfra(c) /\ ~Fail(c)
  <2>1. run[c] \in Runs /\ run[c].machine \in Machine /\ state[c] \in SUBSET Machine
      BY <1>1, <1>3 DEF ReadInfra, StepOK, ControlTypeOK, StoresTypeOK, Machines
  <2> DEFINE r == [run[c] EXCEPT !.output = state[c],
                                 !.infra = IF infra = Broken THEN NoInfra ELSE infra]
  <2>2. r \in Runs /\ r.machine = run[c].machine
      BY <1>1, <2>1, Values DEF Runs, StoresTypeOK
  <2>3. GotoWith(c, "writeInfra", r) /\ UNCHANGED <<files, cloud>>
      BY <1>3 DEF ReadInfra
  <2> HIDE DEF r
  <2>4. ControlTypeOK' /\ UNCHANGED history /\ pc'[c] = "writeInfra" /\ run'[c] = r
      BY <1>1, <2>2, <2>3, ControlType, ControlStep, Values DEF Steps
  <2> QED BY <1>1, <2>1, <2>2, <2>3, <2>4, OnlyControl DEF StepOK, Types
<1>4. CASE WorkspaceDestroy(c) /\ ~Fail(c)
  <2>1. /\ workspace' = FALSE /\ Return(c, "destroyed") /\ UNCHANGED files
        /\ orphans' = [d \in Cluster |-> orphans[d] \cup state[d]]
        /\ state' = [d \in Cluster |-> {}]
      BY <1>4 DEF WorkspaceDestroy
  <2>2. ControlTypeOK' /\ UNCHANGED history /\ pc'[c] = "idle" /\ run'[c] = NoRun
      BY <1>1, <2>1, ControlType, ControlStep, Values DEF Steps
  <2>3. orphans' \in Machines /\ state' \in Machines
      BY <1>1, <2>1 DEF StoresTypeOK, Machines
  <2>4. StoresTypeOK' /\ HistoryTypeOK'
      BY <1>1, <2>1, <2>2, <2>3 DEF StoresTypeOK, HistoryTypeOK, files, history, Valid
  <2> QED BY <2>2, <2>4 DEF StepOK, NoRun, Types
<1> QED BY <1>2, <1>3, <1>4

\* Every step keeps the invariant: what it does not touch of other clusters stays true.
LEMMA SharedNext == SharedInv /\ [Next]_vars => SharedInv'
<1> SUFFICES ASSUME SharedInv, [Next]_vars PROVE SharedInv'
    OBVIOUS
<1>1. ASSUME NEW c \in Cluster, ClusterStep(c) PROVE SharedInv'
  <2>1. Types' /\ StepOK(c)'
      BY <1>1, StartType, ControlOnlyType, ConfigureType, FilesType, TerraformType,
         WorkspaceType DEF ClusterStep
  <2>2. ASSUME NEW d \in Cluster, d # c PROVE StepOK(d)'
    <3>1. pc'[d] = pc[d] /\ run'[d] = run[d]
        BY <1>1, <2>2, FrameOfStep DEF SharedInv, Types
    <3>2. UNCHANGED validated
        BY <1>1 DEF ClusterStep, Start, Kill, WorkspaceApply, PlanNoDiff, Configure, AlreadyExists,
               WriteTFVars, FillTFVars, TerraformApply, TerraformCanNotRun, ReadInfra, WriteInfra,
               FillInfra, TerraformDestroy, WorkspaceDestroy, AfterFailedDestroy, Goto, GotoWith,
               Return, Fail, history
    <3> QED BY <3>1, <3>2 DEF SharedInv, StepOK, Valid
  <2> QED BY <2>1, <2>2 DEF SharedInv
<1>2. CASE UNCHANGED vars
    BY <1>2 DEF vars, files, cloud, control, history, SharedInv, Types, StoresTypeOK,
                ControlTypeOK, HistoryTypeOK, StepOK, Valid
<1> QED BY <1>1, <1>2 DEF Next

\* It holds after ck8s init.
LEMMA SharedStart == Init => SharedInv
<1> SUFFICES ASSUME Init PROVE SharedInv
    OBVIOUS
<1>1. StoresTypeOK
  <2>1. tfvars \in Machines /\ state \in Machines /\ orphans \in Machines
      BY DEF Init, Machines
  <2>2. \A c \in Cluster : tfvars[c] # {}
      BY DEF Init
  <2> QED BY <2>1, <2>2 DEF Init, StoresTypeOK, Valid
<1>2. ControlTypeOK
  <2>1. pc \in [Cluster -> Steps]
      BY DEF Init, Steps
  <2>2. run \in [Cluster -> Runs]
      BY Values DEF Init
  <2> QED BY <2>1, <2>2 DEF Init, ControlTypeOK
<1>3. HistoryTypeOK
  <2>1. asked \in Machines
      BY DEF Init, Machines
  <2>2. started \in 0..MaxCommands
      BY CommandsAssumption DEF Init
  <2> QED BY <2>1, <2>2 DEF Init, HistoryTypeOK
<1>4. \A c \in Cluster : StepOK(c)
    BY DEF Init, StepOK, NoRun
<1> QED BY <1>1, <1>2, <1>3, <1>4 DEF SharedInv, Types

\* The invariant holds throughout.
LEMMA SharedInvHolds == Spec => []SharedInv
BY SharedStart, SharedNext, PTL DEF Spec

\* Every variable keeps its type, and tfvars.json is valid whenever it is whole,
\* for any number of clusters whose commands overlap, fail and are killed anywhere.
THEOREM SharedTypeCorrect == Spec => []TypeOK
<1>1. SharedInv => TypeOK
    BY DEF SharedInv, Types, StoresTypeOK, ControlTypeOK, HistoryTypeOK, TypeOK, Valid
<1> QED BY <1>1, SharedInvHolds, PTL

-----------------------------------------------------------------------------
(* Clusters are kept apart. *)

\* What one step of a cluster's operator may do to the Terraform state and the
\* machines no state knows.
LEMMA CloudOfStep ==
    ASSUME SharedInv, NEW c \in Cluster, ClusterStep(c)
    PROVE  \/ UNCHANGED cloud
           \/ /\ UNCHANGED <<state, orphans>>
              /\ pc[c] = "workspace"
           \/ /\ UNCHANGED <<workspace, orphans>>
              /\ pc[c] \in {"terraform", "destroy"} /\ pc'[c] # pc[c]
              /\ \A d \in Cluster \ {c} : state'[d] = state[d]
              /\ pc'[c] = "workspaceDestroy" => state'[c] = {}
           \/ /\ pc[c] = "workspaceDestroy" /\ workspace' = FALSE /\ pc'[c] = "idle"
              /\ orphans' = [d \in Cluster |-> orphans[d] \cup state[d]]
              /\ state' = [d \in Cluster |-> {}]
<1>1. StoresTypeOK /\ ControlTypeOK
    BY DEF SharedInv, Types
<1>2. CASE TerraformApply(c)
  <2>1. PICK S \in SUBSET Machine : state' = Applied(c, S)
      BY <1>1, <1>2 DEF TerraformApply, Applied, StoresTypeOK, Machines
  <2>2. pc'[c] \in {"readInfra", "idle"} /\ pc[c] = "terraform"
      BY <1>1, <1>2 DEF TerraformApply, ControlTypeOK, Goto, Return
  <2> QED BY <1>1, <1>2, <2>1, <2>2, AppliedType DEF TerraformApply
<1>3. CASE TerraformDestroy(c)
  <2>1. \A S : [state EXCEPT ![c] = S][c] = S
      BY <1>1 DEF StoresTypeOK, Machines
  <2>2. \A S : \A d \in Cluster \ {c} : [state EXCEPT ![c] = S][d] = state[d]
      BY <1>1 DEF StoresTypeOK, Machines
  <2>3. PICK S : state' = [state EXCEPT ![c] = S] /\ (pc'[c] = "workspaceDestroy" => S = {})
      BY <1>1, <1>3 DEF TerraformDestroy, AfterFailedDestroy, ControlTypeOK, Return
  <2>4. pc'[c] \in {"workspaceDestroy", "idle"} /\ pc[c] = "destroy"
      BY <1>1, <1>3 DEF TerraformDestroy, AfterFailedDestroy, ControlTypeOK, Goto, Return
  <2> QED BY <1>3, <2>1, <2>2, <2>3, <2>4 DEF TerraformDestroy
<1>4. CASE WorkspaceDestroy(c)
    BY <1>1, <1>4, ControlStep DEF WorkspaceDestroy, Fail
<1>5. CASE WorkspaceApply(c)
    BY <1>5 DEF WorkspaceApply, Fail
<1>6. CASE UNCHANGED cloud
    BY <1>6
<1> QED BY <1>2, <1>3, <1>4, <1>5, <1>6
        DEF ClusterStep, Start, Kill, PlanNoDiff, Configure, AlreadyExists, WriteTFVars,
            FillTFVars, TerraformCanNotRun, ReadInfra, WriteInfra, FillInfra, Fail, cloud

\* A command leaves the Terraform state of other clusters alone, whatever they do at
\* the same time and whatever tfvars.json says, unless it deletes the workspace.
THEOREM ClustersKeptApart == Spec => ClustersApart
<1>1. SharedInv /\ [Next]_vars =>
          [\A c \in Cluster : state'[c] # state[c] /\ workspace' => pc'[c] # pc[c]]_vars
  <2> SUFFICES ASSUME SharedInv, NEW d \in Cluster, ClusterStep(d),
                      NEW c \in Cluster, state'[c] # state[c], workspace'
               PROVE  pc'[c] # pc[c]
      BY DEF Next
  <2> QED BY CloudOfStep DEF cloud
<1> QED BY <1>1, SharedInvHolds, PTL DEF Spec, ClustersApart

\* Destroy reaches the workspace only with all machines of its cluster gone, and they
\* stay gone until it deletes it.
NothingLeft == \A c \in Cluster : pc[c] = "workspaceDestroy" => state[c] = {}

\* A step that does not destroy does not get there.
LEMMA NothingLeftNext == SharedInv /\ NothingLeft /\ [Next]_vars => NothingLeft'
<1> SUFFICES ASSUME SharedInv, NothingLeft, [Next]_vars PROVE NothingLeft'
    OBVIOUS
<1>1. CASE UNCHANGED vars
    BY <1>1 DEF NothingLeft, vars, cloud, control
<1>2. ASSUME NEW c \in Cluster, ClusterStep(c) PROVE NothingLeft'
  <2>1. ASSUME NEW d \in Cluster \ {c}, pc'[d] = "workspaceDestroy" PROVE state'[d] = {}
    <3>1. pc[d] = "workspaceDestroy" /\ state[d] = {}
        BY <1>2, <2>1, FrameOfStep DEF SharedInv, Types, NothingLeft
    <3> QED BY <1>2, <3>1, CloudOfStep DEF cloud
  <2>2. ASSUME pc'[c] = "workspaceDestroy" PROVE state'[c] = {}
    <3>1. TerraformDestroy(c) \/ pc[c] = "workspaceDestroy"
      <4>1. \A command \in Commands : FirstStep(command) # "workspaceDestroy"
          BY DEF Commands, FirstStep
      <4>2. ~Start(c)
          BY <2>2, <4>1 DEF Start, SharedInv, Types, ControlTypeOK
      <4>3. \A step : Goto(c, step) => step = "workspaceDestroy"
          BY <2>2, ControlStep DEF SharedInv, Types
      <4>4. \A step, r : GotoWith(c, step, r) => step = "workspaceDestroy"
          BY <2>2, ControlStep DEF SharedInv, Types
      <4>5. \A res : ~Return(c, res)
          BY <2>2, ControlStep DEF SharedInv, Types
      <4>6. ~FillTFVars(c)
          BY <2>2 DEF FillTFVars, SharedInv, Types, ControlTypeOK
      <4> QED BY <1>2, <4>2, <4>3, <4>4, <4>5, <4>6
           DEF ClusterStep, Kill, WorkspaceApply, PlanNoDiff, Configure, AlreadyExists,
               WriteTFVars, TerraformApply, TerraformCanNotRun, ReadInfra, WriteInfra,
               FillInfra, WorkspaceDestroy, Fail
    <3>2. CASE TerraformDestroy(c)
        BY <2>2, <3>2 DEF TerraformDestroy, AfterFailedDestroy, Return, SharedInv, Types,
                          ControlTypeOK, StoresTypeOK, Machines
    <3>3. CASE pc[c] = "workspaceDestroy"
        BY <1>2, <2>2, <3>3, CloudOfStep DEF NothingLeft, cloud
    <3> QED BY <3>1, <3>2, <3>3
  <2> QED BY <2>1, <2>2 DEF NothingLeft
<1> QED BY <1>1, <1>2 DEF Next

\* Machines only become unmanaged by the hand of another cluster's operator.
THEOREM OwnMachinesStayManaged == Spec => OwnMachinesManaged
<1>1. Init => NothingLeft
    BY DEF Init, NothingLeft
<1>2. SharedInv /\ NothingLeft /\ [Next]_vars =>
          [\A c \in Cluster : orphans'[c] # orphans[c] => pc'[c] = pc[c]]_vars
  <2> SUFFICES ASSUME SharedInv, NothingLeft, NEW d \in Cluster, ClusterStep(d),
                      NEW c \in Cluster, orphans'[c] # orphans[c]
               PROVE  pc'[c] = pc[c]
      BY DEF Next
  <2>1. pc[d] = "workspaceDestroy" /\ orphans'[c] = orphans[c] \cup state[c]
      BY CloudOfStep DEF cloud
  <2>2. c # d
      BY <2>1 DEF NothingLeft
  <2> QED BY <2>2, FrameOfStep DEF SharedInv, Types
<1> QED BY <1>1, <1>2, NothingLeftNext, SharedInvHolds, PTL DEF Spec, OwnMachinesManaged

-----------------------------------------------------------------------------
(* Without overlap. *)

Active(c) == pc[c] # "idle"

\* The snapshot of a command is what the clusters wrote, but for its own change.
Snapshot(c) ==
    /\ pc[c] \in {"workspace", "plan", "configure", "writeTFVars", "fillTFVars"} =>
           \A d \in Cluster \ {c} : run[c].machines[d] = asked[d]
    /\ pc[c] \in {"workspace", "plan", "configure"} => run[c].machines[c] = asked[c]

\* Once the plan was empty, what will be applied holds all that exists.
Adding(c) ==
    run[c].command = "add" =>
        /\ pc[c] # "workspace"
        /\ pc[c] \in {"configure", "writeTFVars", "fillTFVars"} => state[c] \subseteq run[c].machines[c]
        /\ pc[c] = "terraform" /\ tfvars # Broken => state[c] \subseteq tfvars[c]

SoloInv ==
    ~overlapped =>
        /\ \A c, d \in Cluster : Active(c) /\ Active(d) => c = d
        /\ tfvars # Broken => tfvars = asked
        /\ \A c \in Cluster : Snapshot(c) /\ Adding(c)

\* As long as commands do not overlap, no other cluster has a command under way
\* before or after a step.
LEMMA OthersIdle ==
    ASSUME SharedInv, SoloInv, NEW c \in Cluster, ClusterStep(c), ~overlapped'
    PROVE  /\ ~overlapped
           /\ \A d \in Cluster \ {c} : pc[d] = "idle" /\ pc'[d] = "idle"
<1>1. ~overlapped
    BY DEF ClusterStep, Start, Kill, WorkspaceApply, PlanNoDiff, Configure, AlreadyExists,
           WriteTFVars, FillTFVars, TerraformApply, TerraformCanNotRun, ReadInfra, WriteInfra,
           FillInfra, TerraformDestroy, WorkspaceDestroy, AfterFailedDestroy, Goto, GotoWith,
           Return, Fail, history
<1>2. \A d \in Cluster \ {c} : pc[d] = "idle"
  <2>1. CASE Start(c)
      BY <2>1 DEF Start
  <2>2. CASE Active(c)
      BY <1>1, <2>2 DEF SoloInv, Active
  <2> QED BY <2>1, <2>2
        DEF Active, ClusterStep, Kill, WorkspaceApply, PlanNoDiff, Configure, AlreadyExists,
            WriteTFVars, FillTFVars, TerraformApply, TerraformCanNotRun, ReadInfra, WriteInfra,
            FillInfra, TerraformDestroy, WorkspaceDestroy
<1>3. \A d \in Cluster \ {c} : pc'[d] = pc[d]
    BY FrameOfStep DEF SharedInv, Types
<1> QED BY <1>1, <1>2, <1>3

\* A command that starts has read what was written.
LEMMA StartIsSolo ==
    ASSUME SharedInv, SoloInv, NEW c \in Cluster, Start(c), ~overlapped
    PROVE  Snapshot(c)' /\ Adding(c)' /\ (tfvars' # Broken => tfvars' = asked')
<1>1. PICK m \in ReadTFVars, command \in Commands, target \in Machine :
          /\ pc' = [pc EXCEPT ![c] = FirstStep(command)]
          /\ run' = [run EXCEPT ![c] = [NoRun EXCEPT !.command = command,
                                                     !.machine = target, !.machines = m]]
    BY DEF Start
<1>2. m = asked /\ m = tfvars
    BY <1>1 DEF ReadTFVars, SoloInv
<1>3. UNCHANGED <<asked, tfvars>>
    BY DEF Start, files
<1>4. run'[c].machines = m /\ run'[c].command = command /\ pc'[c] = FirstStep(command)
    BY <1>1 DEF SharedInv, Types, ControlTypeOK, NoRun
<1>5. FirstStep(command) \in {"workspace", "writeTFVars", "plan", "destroy"}
    BY <1>1 DEF Commands, FirstStep
<1>6. FirstStep(command) \in {"workspace", "writeTFVars"} => command # "add"
    BY <1>1 DEF Commands, FirstStep
<1>7. Snapshot(c)'
    BY <1>2, <1>3, <1>4 DEF Snapshot
<1>8. Adding(c)'
    BY <1>4, <1>5, <1>6 DEF Adding
<1> QED BY <1>2, <1>3, <1>7, <1>8

\* The command under way takes both over to tfvars.json.
LEMMA StepIsSolo ==
    ASSUME SharedInv, SoloInv, NEW c \in Cluster, ClusterStep(c), ~Start(c), ~overlapped
    PROVE  Snapshot(c)' /\ Adding(c)' /\ (tfvars' # Broken => tfvars' = asked')
<1>1. /\ ControlTypeOK /\ run[c] \in Runs /\ run[c].machines \in Machines /\ asked \in Machines
      /\ Snapshot(c) /\ Adding(c) /\ (tfvars # Broken => tfvars = asked)
    BY Values DEF SharedInv, Types, ControlTypeOK, HistoryTypeOK, SoloInv
<1>2. CASE PlanNoDiff(c) /\ ~Fail(c)
  <2>1. /\ pc[c] = "plan" /\ tfvars # Broken /\ state[c] \subseteq tfvars[c]
        /\ Goto(c, "configure") /\ UNCHANGED <<files, cloud>>
      BY <1>2 DEF PlanNoDiff, NoDiff
  <2>2. pc'[c] = "configure" /\ run'[c] = run[c] /\ UNCHANGED <<tfvars, state, asked>>
      BY <1>1, <2>1, ControlStep DEF Goto, history, files, cloud
  <2> QED BY <1>1, <2>1, <2>2 DEF Snapshot, Adding
<1>3. CASE Configure(c)
  <2>1. PICK S : /\ GotoWith(c, "writeTFVars", [run[c] EXCEPT !.machines[c] = S])
                 /\ run[c].command = "add" => run[c].machines[c] \subseteq S
      BY <1>3 DEF Configure
  <2>2. /\ pc[c] = "configure" /\ pc'[c] = "writeTFVars" /\ UNCHANGED <<tfvars, state, asked>>
        /\ run'[c] = [run[c] EXCEPT !.machines[c] = S]
      BY <1>1, <1>3, <2>1, ControlStep DEF Configure, GotoWith, history, files, cloud
  <2>3. /\ run'[c].command = run[c].command /\ run'[c].machines[c] = S
        /\ \A d \in Cluster \ {c} : run'[c].machines[d] = run[c].machines[d]
      BY <1>1, <2>2 DEF Runs, Machines
  <2> QED BY <1>1, <2>1, <2>2, <2>3 DEF Snapshot, Adding
<1>4. CASE (WorkspaceApply(c) \/ WriteTFVars(c)) /\ ~Fail(c)
  <2>1. /\ \/ pc[c] = "workspace" /\ Goto(c, "writeTFVars") /\ UNCHANGED tfvars
           \/ pc[c] = "writeTFVars" /\ Goto(c, "fillTFVars") /\ tfvars' = Broken
        /\ UNCHANGED state
      BY <1>4 DEF WorkspaceApply, WriteTFVars, files, cloud
  <2>2. run'[c] = run[c] /\ UNCHANGED asked /\ pc'[c] \in {"writeTFVars", "fillTFVars"}
      BY <1>1, <2>1, ControlStep DEF Goto, history
  <2> QED BY <1>1, <2>1, <2>2 DEF Snapshot, Adding
<1>5. CASE FillTFVars(c)
  <2>1. /\ tfvars' = run[c].machines /\ pc[c] = "fillTFVars" /\ pc'[c] = "terraform"
        /\ asked' = [asked EXCEPT ![c] = run[c].machines[c]] /\ UNCHANGED <<state, run>>
      BY <1>1, <1>5 DEF FillTFVars, cloud, ControlTypeOK
  <2>2. tfvars' = asked'
    <3>1. \A d \in Cluster : run[c].machines[d] = asked'[d]
        BY <1>1, <2>1 DEF Snapshot, Machines
    <3> QED BY <1>1, <2>1, <3>1 DEF Machines
  <2>3. Adding(c)'
      BY <1>1, <2>1 DEF Adding
  <2>4. Snapshot(c)'
      BY <2>1 DEF Snapshot
  <2> QED BY <2>2, <2>3, <2>4
<1>6. CASE /\ pc'[c] \in {"idle", "readInfra", "writeInfra", "fillInfra", "workspaceDestroy"}
           /\ UNCHANGED <<tfvars, asked>>
    BY <1>1, <1>6 DEF Snapshot, Adding
<1>7. \/ pc'[c] \in {"idle", "readInfra", "writeInfra", "fillInfra", "workspaceDestroy"}
      \/ PlanNoDiff(c) /\ ~Fail(c)
      \/ Configure(c)
      \/ (WorkspaceApply(c) \/ WriteTFVars(c)) /\ ~Fail(c)
      \/ FillTFVars(c)
  <2>1. \A res : Return(c, res) => pc'[c] = "idle"
      BY <1>1, ControlStep
  <2>2. \A step : Goto(c, step) => pc'[c] = step
      BY <1>1, ControlStep
  <2>3. \A step, r : GotoWith(c, step, r) => pc'[c] = step
      BY <1>1, ControlStep
  <2>4. Fail(c) => pc'[c] = "idle"
      BY <2>1 DEF Fail
  <2> QED BY <2>1, <2>2, <2>3, <2>4
        DEF ClusterStep, Kill, AlreadyExists, TerraformApply, TerraformCanNotRun,
            ReadInfra, WriteInfra, FillInfra, TerraformDestroy, AfterFailedDestroy,
            WorkspaceDestroy
<1>8. UNCHANGED <<tfvars, asked>> \/ (WriteTFVars(c) /\ ~Fail(c)) \/ FillTFVars(c)
  <2>1. asked' = asked \/ FillTFVars(c)
      BY DEF ClusterStep, Kill, WorkspaceApply, PlanNoDiff, Configure, AlreadyExists,
             WriteTFVars, TerraformApply, TerraformCanNotRun, ReadInfra, WriteInfra,
             FillInfra, TerraformDestroy, WorkspaceDestroy, AfterFailedDestroy, Goto,
             GotoWith, Return, Fail, history
  <2>2. tfvars' = tfvars \/ WriteTFVars(c) \/ FillTFVars(c)
      BY DEF ClusterStep, Kill, WorkspaceApply, PlanNoDiff, Configure, AlreadyExists,
             TerraformApply, TerraformCanNotRun, ReadInfra, WriteInfra, FillInfra,
             TerraformDestroy, WorkspaceDestroy, Fail, files
  <2>3. Fail(c) => UNCHANGED <<tfvars, asked>>
      BY DEF Fail, Return, files, history
  <2> QED BY <2>1, <2>2, <2>3
<1> QED BY <1>2, <1>3, <1>4, <1>5, <1>6, <1>7, <1>8

\* Commands that do not overlap work on what the one before has written.
LEMMA SoloNext == SharedInv /\ SoloInv /\ [Next]_vars => SoloInv'
<1> SUFFICES ASSUME SharedInv, SoloInv, [Next]_vars, ~overlapped' PROVE SoloInv'
    BY DEF SoloInv
<1>1. ASSUME NEW c \in Cluster, ClusterStep(c) PROVE SoloInv'
  <2>1. /\ ~overlapped
        /\ \A d \in Cluster \ {c} : pc[d] = "idle" /\ pc'[d] = "idle"
      BY <1>1, OthersIdle
  <2>2. Snapshot(c)' /\ Adding(c)' /\ (tfvars' # Broken => tfvars' = asked')
      BY <1>1, <2>1, StartIsSolo, StepIsSolo
  <2>3. \A d \in Cluster \ {c} : Snapshot(d)' /\ Adding(d)'
      BY <2>1 DEF Snapshot, Adding
  <2> QED BY <2>1, <2>2, <2>3 DEF SoloInv, Active
<1>2. CASE UNCHANGED vars
    BY <1>2 DEF vars, files, cloud, control, history, SoloInv, Active, Snapshot, Adding
<1> QED BY <1>1, <1>2 DEF Next

\* It holds after ck8s init.
LEMMA SoloStart == Init => SoloInv
BY DEF Init, SoloInv, Active, Snapshot, Adding, NoRun

\* Both invariants hold throughout.
LEMMA SoloInvHolds == Spec => [](SharedInv /\ SoloInv)
BY SharedStart, SharedNext, SoloStart, SoloNext, PTL DEF Spec

\* Without overlap tfvars.json holds what each cluster's commands wrote last, whatever
\* was killed or failed in between.
THEOREM TFVarsKept == Spec => []TFVarsAsWritten
<1>1. SoloInv => TFVarsAsWritten
    BY DEF SoloInv, TFVarsAsWritten
<1> QED BY <1>1, SoloInvHolds, PTL

\* Without overlap adding a machine destroys none, also after a remove that failed.
THEOREM AddKeepsMachines == Spec => AddDestroysNothing
<1>1. SharedInv /\ SoloInv /\ [Next]_vars =>
          [\A c \in Cluster : ~overlapped' /\ run[c].command = "add" => state[c] \subseteq state'[c]]_vars
  <2> SUFFICES ASSUME SharedInv, SoloInv, NEW d \in Cluster, ClusterStep(d),
                      NEW c \in Cluster, ~overlapped', run[c].command = "add"
               PROVE  state[c] \subseteq state'[c]
      BY DEF Next
  <2>1. CASE c # d
    <3>1. pc[c] = "idle"
        BY <2>1, OthersIdle
    <3>2. run[c].command = "none"
        BY <3>1 DEF SharedInv, StepOK
    <3> QED BY <3>2
  <2>2. CASE c = d
    <3>1. CASE TerraformApply(c)
      <4>1. tfvars # Broken /\ pc[c] = "terraform"
          BY <3>1 DEF TerraformApply
      <4>2. state[c] \subseteq tfvars[c]
          BY <4>1, OthersIdle DEF SoloInv, Adding
      <4>3. PICK S : state' = Applied(c, S) /\ state[c] \cap tfvars[c] \subseteq S
          BY <3>1 DEF TerraformApply
      <4>4. state'[c] = S
          BY <4>3 DEF Applied, SharedInv, Types, StoresTypeOK, Machines
      <4> QED BY <4>2, <4>3, <4>4
    <3>2. CASE ~TerraformApply(c)
      <4>1. pc[c] \notin {"destroy", "workspaceDestroy"}
          BY DEF SharedInv, StepOK
      <4> QED BY <2>2, <3>2, <4>1
           DEF ClusterStep, Start, Kill, WorkspaceApply, PlanNoDiff, Configure, AlreadyExists,
               WriteTFVars, FillTFVars, TerraformCanNotRun, ReadInfra, WriteInfra, FillInfra,
               TerraformDestroy, WorkspaceDestroy, Fail, cloud
    <3> QED BY <3>1, <3>2
  <2> QED BY <2>1, <2>2
<1> QED BY <1>1, SoloInvHolds, PTL DEF Spec, AddDestroysNothing

-----------------------------------------------------------------------------
(* infra.json. *)

NoOrphans == \A d \in Cluster : orphans[d] = {}

\* What infra.json, or the copy of it a command holds, may say of a cluster.
TrueOf(f, c) == f[c] \in {state[c], Null}

InfraInv ==
    ~overlapped /\ NoOrphans =>
        /\ infra # Broken =>
               \A c \in Cluster : pc[c] = "idle" /\ result[c] = "ok" => TrueOf(infra, c)
        /\ \A c \in Cluster : pc[c] \in {"writeInfra", "fillInfra"} =>
               /\ run[c].output = state[c]
               /\ \A d \in Cluster \ {c} : result[d] = "ok" => TrueOf(run[c].infra, d)

\* Only a command that has written infra.json ends well.
LEMMA OnlyInfraEndsWell ==
    ASSUME SharedInv, NEW c \in Cluster, ClusterStep(c), pc'[c] = "idle", result'[c] = "ok"
    PROVE  FillInfra(c)
<1>1. ControlTypeOK
    BY DEF SharedInv, Types
<1>2. /\ \A step : Goto(c, step) => step = "idle"
      /\ \A step, r : GotoWith(c, step, r) => step = "idle"
      /\ \A res : Return(c, res) => res = "ok"
    BY <1>1, ControlStep
<1>3. \A command \in Commands : FirstStep(command) # "idle"
    BY DEF Commands, FirstStep
<1>4. ~Start(c)
    BY <1>1, <1>3 DEF Start, ControlTypeOK
<1>5. ~FillTFVars(c)
    BY <1>1 DEF FillTFVars, ControlTypeOK
<1> QED BY <1>2, <1>4, <1>5
        DEF ClusterStep, Kill, WorkspaceApply, PlanNoDiff, Configure, AlreadyExists, WriteTFVars,
            TerraformApply, TerraformCanNotRun, ReadInfra, WriteInfra, TerraformDestroy,
            WorkspaceDestroy, AfterFailedDestroy, Fail

\* Who holds a copy of infra.json, and who changes the file.
LEMMA InfraOfStep ==
    ASSUME SharedInv, NEW c \in Cluster, ClusterStep(c)
    PROVE  /\ \/ UNCHANGED infra \/ infra' = Broken
              \/ FillInfra(c)
           /\ pc'[c] \in {"writeInfra", "fillInfra"} =>
                  \/ ReadInfra(c) /\ pc'[c] = "writeInfra"
                  \/ pc[c] = "writeInfra" /\ run'[c] = run[c] /\ UNCHANGED <<state, orphans>>
<1>1. ControlTypeOK
    BY DEF SharedInv, Types
<1>2. /\ \A step : Goto(c, step) => pc'[c] = step /\ run'[c] = run[c]
      /\ \A step, r : GotoWith(c, step, r) => pc'[c] = step
      /\ \A res : Return(c, res) => pc'[c] = "idle"
    BY <1>1, ControlStep
<1>3. UNCHANGED infra \/ infra' = Broken \/ FillInfra(c)
    BY DEF ClusterStep, Start, Kill, WorkspaceApply, PlanNoDiff, Configure, AlreadyExists,
           WriteTFVars, FillTFVars, TerraformApply, TerraformCanNotRun, ReadInfra, WriteInfra,
           TerraformDestroy, WorkspaceDestroy, Fail, files
<1>4. ASSUME pc'[c] \in {"writeInfra", "fillInfra"} PROVE ReadInfra(c) \/ WriteInfra(c)
  <2>1. \A command \in Commands : FirstStep(command) \notin {"writeInfra", "fillInfra"}
      BY DEF Commands, FirstStep
  <2>2. ~Start(c)
      BY <1>1, <1>4, <2>1 DEF Start, ControlTypeOK
  <2>3. ~FillTFVars(c)
      BY <1>1, <1>4 DEF FillTFVars, ControlTypeOK
  <2> QED BY <1>2, <1>4, <2>2, <2>3
          DEF ClusterStep, Kill, WorkspaceApply, PlanNoDiff, Configure, AlreadyExists, WriteTFVars,
              TerraformApply, TerraformCanNotRun, FillInfra, TerraformDestroy,
              WorkspaceDestroy, AfterFailedDestroy, Fail
<1>5. WriteInfra(c) => pc[c] = "writeInfra" /\ run'[c] = run[c] /\ UNCHANGED <<state, orphans>>
    BY <1>2 DEF WriteInfra, cloud
<1>6. ReadInfra(c) => pc'[c] \in {"writeInfra", "idle"}
    BY <1>2 DEF ReadInfra, Fail
<1> QED BY <1>3, <1>4, <1>5, <1>6

\* A command that does not overlap with others writes what it has read of them.
LEMMA InfraNext == SharedInv /\ SoloInv /\ InfraInv /\ [Next]_vars => InfraInv'
<1> SUFFICES ASSUME SharedInv, SoloInv, InfraInv, [Next]_vars, ~overlapped', NoOrphans'
             PROVE  InfraInv'
    BY DEF InfraInv
<1>1. ASSUME NEW c \in Cluster, ClusterStep(c) PROVE InfraInv'
  <2>t. StoresTypeOK /\ ControlTypeOK /\ run[c] \in Runs /\ run[c].infra \in Infra
      BY Values DEF SharedInv, Types, ControlTypeOK
  <2>1. /\ ~overlapped
        /\ \A d \in Cluster \ {c} : pc[d] = "idle" /\ pc'[d] = "idle"
      BY <1>1, OthersIdle
  <2>2. \A d \in Cluster \ {c} : result'[d] = result[d]
      BY <1>1, FrameOfStep DEF SharedInv, Types
  <2>3. NoOrphans /\ \A d \in Cluster \ {c} : state'[d] = state[d]
    <3>1. CASE pc[c] = "workspaceDestroy" /\ orphans' = [d \in Cluster |-> orphans[d] \cup state[d]]
               /\ state' = [d \in Cluster |-> {}]
        BY <3>1 DEF NoOrphans
    <3>2. CASE UNCHANGED orphans /\ \A d \in Cluster \ {c} : state'[d] = state[d]
        BY <3>2 DEF NoOrphans
    <3> QED BY <1>1, <3>1, <3>2, CloudOfStep DEF cloud
  <2>4. /\ infra # Broken => \A d \in Cluster \ {c} : result[d] = "ok" => TrueOf(infra, d)
        /\ pc[c] \in {"writeInfra", "fillInfra"} =>
               /\ run[c].output = state[c]
               /\ \A d \in Cluster \ {c} : result[d] = "ok" => TrueOf(run[c].infra, d)
      BY <2>1, <2>3 DEF InfraInv
  <2>5. ASSUME infra' # Broken, NEW d \in Cluster, pc'[d] = "idle", result'[d] = "ok"
        PROVE  TrueOf(infra, d)'
    <3>1. CASE FillInfra(c)
      <4>1. /\ infra' = [run[c].infra EXCEPT ![c] = run[c].output]
            /\ pc[c] = "fillInfra" /\ UNCHANGED state
          BY <3>1 DEF FillInfra, UpdatedValues, cloud
      <4>2. CASE d = c
          BY <2>t, <2>4, <4>1, <4>2 DEF TrueOf, Infra
      <4>3. CASE d # c
          BY <2>t, <2>2, <2>4, <2>5, <4>1, <4>3 DEF TrueOf, Infra
      <4> QED BY <4>2, <4>3
    <3>2. CASE ~FillInfra(c)
      <4>1. d # c
          BY <1>1, <2>5, <3>2, OnlyInfraEndsWell
      <4>2. infra' = infra
          BY <1>1, <2>5, <3>2, InfraOfStep
      <4> QED BY <2>2, <2>3, <2>4, <2>5, <4>1, <4>2 DEF TrueOf
    <3> QED BY <3>1, <3>2
  <2>6. ASSUME pc'[c] \in {"writeInfra", "fillInfra"}
        PROVE  /\ run'[c].output = state'[c]
               /\ \A d \in Cluster \ {c} : result'[d] = "ok" => TrueOf(run[c].infra, d)'
    <3>1. CASE ReadInfra(c) /\ pc'[c] = "writeInfra"
      <4>1. /\ GotoWith(c, "writeInfra", [run[c] EXCEPT !.output = state[c],
                               !.infra = IF infra = Broken THEN NoInfra ELSE infra])
            /\ UNCHANGED state
          BY <2>t, <3>1, ControlStep DEF ReadInfra, Fail, cloud
      <4>2. /\ run'[c].output = state[c]
            /\ run'[c].infra = IF infra = Broken THEN NoInfra ELSE infra
        <5>1. run'[c] = [run[c] EXCEPT !.output = state[c],
                               !.infra = IF infra = Broken THEN NoInfra ELSE infra]
            BY <2>t, <4>1, ControlStep
        <5> QED BY <2>t, <5>1 DEF Runs
      <4> QED BY <2>2, <2>4, <4>1, <4>2 DEF TrueOf, NoInfra
    <3>2. CASE pc[c] = "writeInfra" /\ run'[c] = run[c] /\ UNCHANGED <<state, orphans>>
        BY <2>2, <2>4, <3>2 DEF TrueOf
    <3> QED BY <1>1, <2>6, <3>1, <3>2, InfraOfStep
  <2> QED BY <2>1, <2>5, <2>6 DEF InfraInv
<1>2. CASE UNCHANGED vars
    BY <1>2 DEF vars, files, cloud, control, history, InfraInv, NoOrphans, TrueOf
<1> QED BY <1>1, <1>2 DEF Next

\* Without overlap, and unless a workspace was deleted under machines, infra.json is
\* true of every cluster whose last command succeeded, or says nothing of it.
THEOREM InfraStaysTrue == Spec => []InfraTrue
<1>1. Init => InfraInv
    BY DEF Init, InfraInv
<1>2. InfraInv => InfraTrue
    BY DEF InfraInv, InfraTrue, NoOrphans, TrueOf
<1> QED BY <1>1, <1>2, InfraNext, SoloInvHolds, PTL DEF Spec

=============================================================================
