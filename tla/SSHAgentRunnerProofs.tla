-------------------------- MODULE SSHAgentRunnerProofs --------------------------
(***************************************************************************)
(* Theorems about SSHAgentRunner for every number of commands and signals. *)
(* The agent runner is a StandardRunner whose commands are of a certain    *)
(* kind, so what StandardRunnerProofs shows holds here too.                *)
(***************************************************************************)
EXTENDS SSHAgentRunner, StandardRunnerProofs

\* run() of the current command is under way.
Busy == main \in {"read", "register", "wait", "close", "check"}

\* The child has done its work.
Done == child \in {"zero", "none"}

CallTypeOK ==
    /\ role \in Roles
    /\ agent \in 0..MaxRuns
    /\ failed \in BOOLEAN
    /\ agents \subseteq Run
    /\ keyed \subseteq Run
    /\ killer \in [Run -> 0..MaxRuns]
    /\ role \in {"addKey", "playbook", "kill"} <=> agent # 0

\* A command runs as long as the call goes on.  No command here has an exit code
\* handler, and run() waits for the child's exit.
ChildOK ==
    /\ Busy => role # "over"
    /\ child = "running" => Busy \/ main = "dead"
    /\ child # "handled"
    /\ main \in {"close", "check"} => child \in ExitCodes
    /\ child # "none" \/ Busy => current \in Run

\* A command has an outcome only when it is over.
Finished == \A r \in Run : outcome[r] # "none" => r < current \/ (r = current /\ ~Busy)

\* A key is in the agent once ssh-add has done its work, and stays there.
KeyAdded ==
    /\ role = "addKey" /\ Busy /\ Done => agent \in agents \cap keyed
    /\ role = "playbook" => agent \in agents \cap keyed

\* The command that is run as a kill is known as the agent's, and takes it away.
Killing ==
    role = "kill" /\ Busy => killer[agent] = current /\ (Done => agent \notin agents)

\* LeakIsReported, with the run of ssh-agent under way.
Accounted(a) ==
    \/ role = "start" /\ current = a /\ main \in {"read", "register", "wait", "close", "check", "dead"}
    \/ agent = a
    \/ outcome[a] = "error"
    \/ killer[a] # 0 /\ outcome[killer[a]] = "error"

AgentInv ==
    /\ CallTypeOK /\ ChildOK /\ Finished /\ KeyAdded /\ Killing
    /\ \A a \in agents : Accounted(a)

Inv == RunnerInv /\ AgentInv

\* Every step of the agent runner is a step of the runner it uses.
LEMMA AgentStepIsRunnerStep == [AgentNext]_allVars => [Next]_vars
BY DEF AgentNext, AgentMainStep, AgentChildStep, StartCommand, StartCommandFails, ParseOutput,
       CheckCommand, RunnerGoesOn, CommandExits, CommandDies, CommandWrites, SignalSent,
       AgentGoroutineStep, AllEnded, allVars, Next, MainStep, ChildStep

\* The agent runner uses the runner as it is.
THEOREM AgentRunnerIsRunner == AgentSpec => Spec
<1>1. AgentInit => Init
    BY DEF AgentInit
<1> QED BY <1>1, AgentStepIsRunnerStep, PTL DEF AgentSpec, Spec

\* The invariant holds before the first command.
LEMMA AgentStart == AgentInit => Inv
<1> SUFFICES ASSUME AgentInit PROVE AgentInv
    BY RunnerStart DEF AgentInit, Inv
<1>1. role \in {"over", "other", "start"}
    BY DEF AgentInit, Between
<1>2. CallTypeOK
  <2>1. agent = 0 /\ 0 \in 0..MaxRuns
      BY MaxRunsAssumption DEF AgentInit
  <2>2. killer \in [Run -> 0..MaxRuns]
      BY <2>1 DEF AgentInit
  <2>3. failed = FALSE /\ agents = {} /\ keyed = {}
      BY DEF AgentInit
  <2> QED BY <1>1, <2>1, <2>2, <2>3 DEF CallTypeOK, Roles
<1> QED BY <1>1, <1>2
        DEF AgentInit, Init, AgentInv, ChildOK, Finished, KeyAdded, Killing, Busy

-----------------------------------------------------------------------------
(* Steps of the runner that neither start nor end a command, nor its child. *)

\* They change nothing of the call, and move main within a command or kill the process.
Quiet ==
    /\ UNCHANGED <<callVars, agentVars, current, outcome, child>>
    /\ \/ main' = main
       \/ main' \in {"register", "wait", "close", "check"} /\ Busy
       \/ main' = "dead"
    /\ main' \in {"close", "check"} => main \in {"close", "check"} \/ child \in ExitCodes

LEMMA QuietKeepsInv == AgentInv /\ Quiet => AgentInv'
<1> SUFFICES ASSUME AgentInv, Quiet PROVE AgentInv'
    OBVIOUS
<1> USE DEF Quiet, AgentInv, callVars, agentVars
<1>1. CallTypeOK'
    BY DEF CallTypeOK
<1>2. Busy' => Busy
    BY DEF Busy
<1>3. ChildOK'
    BY <1>2 DEF ChildOK, Busy
<1>4. Finished'
    BY <1>2 DEF Finished
<1>5. KeyAdded' /\ Killing'
    BY <1>2 DEF KeyAdded, Killing, Done
<1>6. ASSUME NEW a \in agents' PROVE Accounted(a)'
    BY <1>6 DEF Accounted, Busy
<1> QED BY <1>1, <1>3, <1>4, <1>5, <1>6

\* The steps of run() between its start and its end, the output of the child, the
\* signals and the goroutines are of that kind.
LEMMA QuietSteps ==
    ASSUME AgentInv,
           ParseOutput \/ RunnerGoesOn \/ CommandWrites \/ SignalSent \/ AllEnded
               \/ (\E r \in Run : AgentGoroutineStep(r)) \/ UNCHANGED allVars
    PROVE  Quiet
<1> USE DEF Quiet, Busy, callVars, agentVars
<1>1. CASE ParseOutput
    BY <1>1 DEF ParseOutput, OutputHandled, childVars
<1>2. CASE RunnerGoesOn
    BY <1>2 DEF RunnerGoesOn, Read, Register, Wait, Close, childVars
<1>3. CASE CommandWrites
    BY <1>3 DEF CommandWrites, ChildWrites, mainVars
<1>4. CASE SignalSent
    BY <1>4 DEF SignalSent, Signal, childVars
<1>5. CASE \E r \in Run : AgentGoroutineStep(r)
    BY <1>5 DEF AgentGoroutineStep, GoroutineStep, Receive, ReadCaught, Forward,
                mainVars, childVars
<1>6. CASE AllEnded \/ UNCHANGED allVars
    BY <1>6 DEF AllEnded, allVars, vars, mainVars, childVars
<1> QED BY <1>1, <1>2, <1>3, <1>4, <1>5, <1>6

-----------------------------------------------------------------------------
(* A command starts. *)

\* The kill of an agent is recorded under the number of its command.
LEMMA KillerType ==
    ASSUME CallTypeOK, NEW r \in Run, KillerIs(r)
    PROVE  /\ killer' \in [Run -> 0..MaxRuns]
           /\ role = "kill" => agent \in Run /\ killer'[agent] = r
           /\ \A a \in Run : role # "kill" \/ a # agent => killer'[a] = killer[a]
<1>1. r \in 0..MaxRuns /\ Run = 1..MaxRuns
    BY MaxRunsAssumption DEF Run
<1>2. CASE role = "kill"
  <2>1. agent \in Run
      BY <1>1, <1>2, MaxRunsAssumption DEF CallTypeOK
  <2> QED BY <1>1, <1>2, <2>1 DEF CallTypeOK, KillerIs
<1>3. CASE role # "kill"
    BY <1>3 DEF CallTypeOK, KillerIs
<1> QED BY <1>2, <1>3

\* The new command has no outcome yet, and nothing of the last one is forgotten.
LEMMA StartKeepsInv == Inv /\ StartCommand => AgentInv'
<1> SUFFICES ASSUME RunnerInv, AgentInv, StartCommand PROVE AgentInv'
    BY DEF Inv
<1> USE DEF AgentInv, callVars
<1>1. /\ current \in 0..MaxRuns /\ current' = current + 1 /\ current' \in Run
      /\ main = "next" /\ main' \in {"read", "register"} /\ child' = "running"
      /\ UNCHANGED <<outcome, role, agent, failed, agents, keyed>>
      /\ KillerIs(current')
    BY MaxRunsAssumption
       DEF StartCommand, Start, RunnerInv, MainTypeOK, Run
<1>2. CallTypeOK'
    BY <1>1, KillerType DEF CallTypeOK
<1>3. ChildOK'
    BY <1>1 DEF ChildOK, StartCommand, Busy
<1>4. Finished'
    BY <1>1, MaxRunsAssumption DEF Finished, Run
<1>5. KeyAdded' /\ Killing'
    BY <1>1, KillerType DEF KeyAdded, Killing, Done
<1>6. ASSUME NEW a \in agents' PROVE Accounted(a)'
  <2>1. a \in agents /\ a \in Run /\ Accounted(a)
      BY <1>1 DEF CallTypeOK
  <2>2. CASE agent = a \/ outcome[a] = "error"
      BY <1>1, <2>2 DEF Accounted
  <2>3. CASE agent # a /\ killer[a] # 0 /\ outcome[killer[a]] = "error"
      BY <1>1, <2>1, <2>3, KillerType DEF Accounted
  <2> QED BY <1>1, <2>1, <2>2, <2>3 DEF Accounted
<1> QED BY <1>2, <1>3, <1>4, <1>5, <1>6

-----------------------------------------------------------------------------
(* A command returns. *)

\* What comes after a command, by its role.
LEMMA NextRole ==
    ASSUME CallTypeOK, NEW r, NEW stop,
           outcome'[r] \in {"ok", "error"}, role # "over", CommandReturned(r, stop)
    PROVE  /\ role' \in Roles /\ failed' \in BOOLEAN
           /\ role = "start" =>
                IF outcome'[r] = "ok" THEN role' = "addKey" /\ agent' = r
                                      ELSE role' = "over" /\ agent' = agent
           /\ role = "addKey" =>
                role' = (IF outcome'[r] = "ok" THEN "playbook" ELSE "kill") /\ agent' = agent
           /\ role = "playbook" => role' = "kill" /\ agent' = agent
           /\ role = "kill" => role' \in {"over", "other", "start"} /\ agent' = 0
           /\ role = "other" => role' \in {"over", "other", "start"} /\ agent' = agent
<1>1. \A n : Between(n) \subseteq {"over", "other", "start"}
    BY DEF Between
<1>2. role \in {"other", "start", "addKey", "playbook", "kill"}
    BY DEF CallTypeOK, Roles
<1>3. role' \in AfterCommand(outcome'[r])
    BY DEF CommandReturned
<1>4. failed' \in BOOLEAN
    BY DEF CommandReturned, CallTypeOK
<1>5. agent' = IF role' = "addKey" THEN r ELSE IF role = "kill" THEN 0 ELSE agent
    BY DEF CommandReturned
<1>6. CASE role = "start"
    BY <1>3, <1>4, <1>5, <1>6 DEF AfterCommand, Roles
<1>7. CASE role = "addKey"
    BY <1>3, <1>4, <1>5, <1>7 DEF AfterCommand, Roles
<1>8. CASE role = "playbook"
    BY <1>3, <1>4, <1>5, <1>8 DEF AfterCommand, Roles
<1>9. CASE role = "kill"
  <2>1. role' \in {"over", "other", "start"}
      BY <1>1, <1>3, <1>9 DEF AfterCommand
  <2> QED BY <1>4, <1>5, <1>9, <2>1 DEF Roles
<1>10. CASE role = "other"
  <2>1. role' \in {"over", "other", "start"}
      BY <1>1, <1>3, <1>10 DEF AfterCommand
  <2> QED BY <1>4, <1>5, <1>10, <2>1 DEF Roles
<1> QED BY <1>2, <1>6, <1>7, <1>8, <1>9, <1>10

\* A command that ended well has done its work, and one that did not has told so.
LEMMA ReturnKeepsInv ==
    ASSUME AgentInv, NEW r \in Run, NEW stop, role # "over", CommandReturned(r, stop),
           NEW x \in {"ok", "error"}, Returns(r, x, stop), outcome \in [Run -> {"none", "ok", "error"}],
           current' = r, r >= current, current \in 0..MaxRuns, outcome[r] = "none",
           main # "dead", Busy => current = r, child # "running",
           killer' \in [Run -> 0..MaxRuns], role = "kill" => killer'[agent] = r,
           \A a \in Run : role # "kill" \/ a # agent => killer'[a] = killer[a],
           UNCHANGED <<agents, keyed, child>>,
           role = "addKey" /\ x = "ok" => agent \in agents \cap keyed,
           role = "kill" /\ x = "ok" => agent \notin agents
    PROVE  AgentInv'
<1> USE DEF AgentInv
<1>n. Run = 1..MaxRuns /\ MaxRuns \in Nat /\ r \in 0..MaxRuns /\ r # 0
    BY MaxRunsAssumption DEF Run
<1>1. /\ outcome'[r] = x /\ main' \in {"next", "done"} /\ ~Busy'
      /\ \A q \in Run : q # r => outcome'[q] = outcome[q]
    BY DEF Returns, Busy
<1>2. role \in Roles \ {"over"}
    BY DEF CallTypeOK
<1>3. CallTypeOK'
  <2>1. role' \in Roles /\ failed' \in BOOLEAN
      BY <1>1, NextRole
  <2>2. agent' \in 0..MaxRuns /\ (role' \in {"addKey", "playbook", "kill"} <=> agent' # 0)
    <3>1. CASE role \in {"start", "other"}
      <4>1. agent = 0
          BY <3>1 DEF CallTypeOK
      <4> QED BY <1>n, <1>1, <3>1, <4>1, NextRole
    <3>2. CASE role \in {"addKey", "playbook"}
      <4>1. agent # 0 /\ agent \in 0..MaxRuns
          BY <3>2 DEF CallTypeOK
      <4> QED BY <1>1, <3>2, <4>1, NextRole
    <3>3. CASE role = "kill"
        BY <1>n, <1>1, <3>3, NextRole
    <3> QED BY <1>2, <3>1, <3>2, <3>3 DEF Roles
  <2>3. agents' \subseteq Run /\ keyed' \subseteq Run
      BY DEF CallTypeOK
  <2> QED BY <2>1, <2>2, <2>3 DEF CallTypeOK
<1>4. ChildOK'
    BY <1>1 DEF ChildOK, Busy
<1>5. Finished'
    BY <1>n, <1>1 DEF Finished, Busy
<1>6. KeyAdded' /\ Killing'
    BY <1>1, <1>2, NextRole DEF KeyAdded, Killing, Roles
<1>7. ASSUME NEW a \in agents' PROVE Accounted(a)'
  <2>1. a \in agents /\ a \in Run /\ Accounted(a)
      BY DEF CallTypeOK
  <2>2. \A q \in Run : outcome[q] = "error" => outcome'[q] = "error"
      BY <1>1
  <2>3. CASE role = "start" /\ current = a /\ Busy
      BY <1>1, <2>3, NextRole DEF Accounted
  <2>4. CASE agent = a /\ role = "kill"
      BY <1>n, <1>1, <2>1, <2>4 DEF Accounted
  <2>5. CASE agent = a /\ role # "kill"
    <3>1. role \in {"addKey", "playbook"}
        BY <1>n, <1>2, <2>1, <2>5 DEF CallTypeOK, Roles
    <3> QED BY <1>1, <2>5, <3>1, NextRole DEF Accounted
  <2>6. CASE outcome[a] = "error"
      BY <2>1, <2>2, <2>6 DEF Accounted
  <2>7. CASE agent # a /\ killer[a] # 0 /\ outcome[killer[a]] = "error"
    <3>1. killer[a] \in Run /\ killer'[a] = killer[a]
        BY <1>n, <2>1, <2>7 DEF CallTypeOK
    <3> QED BY <2>2, <2>7, <3>1 DEF Accounted
  <2> QED BY <2>1, <2>3, <2>4, <2>5, <2>6, <2>7 DEF Accounted, Busy
<1> QED BY <1>3, <1>4, <1>5, <1>6, <1>7

\* A command that can not be started ends with an error.
LEMMA StartFailsKeepsInv == Inv /\ StartCommandFails => AgentInv'
<1> SUFFICES ASSUME RunnerInv, AgentInv, StartCommandFails PROVE AgentInv'
    BY DEF Inv
<1>1. PICK stop \in BOOLEAN : StartFails(stop) /\ CommandReturned(current', stop)
    BY DEF StartCommandFails
<1>2. /\ main = "next" /\ current \in 0..MaxRuns /\ current' = current + 1 /\ current' \in Run
      /\ Returns(current', "error", stop) /\ child' = child
      /\ outcome \in [Run -> {"none", "ok", "error"}]
    BY <1>1, MaxRunsAssumption DEF StartFails, RunnerInv, MainTypeOK, Run, childVars
<1>3. outcome[current'] = "none" /\ current' >= current
    BY <1>2 DEF AgentInv, Finished
<1>4. KillerIs(current') /\ UNCHANGED <<agents, keyed>> /\ role # "over"
    BY DEF StartCommandFails
<1>5. CallTypeOK
    BY DEF AgentInv
<1>6. ~Busy /\ child # "running" /\ main # "dead"
    BY <1>2 DEF Busy, AgentInv, ChildOK
<1>7. /\ killer' \in [Run -> 0..MaxRuns]
      /\ role = "kill" => killer'[agent] = current'
      /\ \A a \in Run : role # "kill" \/ a # agent => killer'[a] = killer[a]
    BY <1>2, <1>4, <1>5, KillerType
<1> QED BY <1>1, <1>2, <1>3, <1>4, <1>6, <1>7, ReturnKeepsInv

\* run() only ends well when the child did.
LEMMA CheckKeepsInv == Inv /\ CheckCommand => AgentInv'
<1> SUFFICES ASSUME RunnerInv, AgentInv, CheckCommand PROVE AgentInv'
    BY DEF Inv
<1>1. PICK stop \in BOOLEAN : Check(stop) /\ CommandReturned(current, stop)
    BY DEF CheckCommand
<1>2. PICK x \in {"ok", "error"} :
          /\ Returns(current, x, stop)
          /\ x = "ok" => child # "unhandled"
    BY <1>1 DEF Check, WaitErrorKept
<1>3. /\ main = "check" /\ current \in 0..MaxRuns /\ current' = current /\ current \in Run
      /\ child' = child /\ outcome \in [Run -> {"none", "ok", "error"}] /\ Busy
    BY <1>1 DEF Check, RunnerInv, MainTypeOK, childVars, Busy
<1>4. x = "ok" => Done
    BY <1>2, <1>3 DEF AgentInv, ChildOK, ExitCodes, Done
<1>5. outcome[current] = "none" /\ current >= current
    BY <1>3 DEF AgentInv, Finished
<1>6. UNCHANGED agentVars
    BY DEF CheckCommand
<1>7. role # "over" /\ child # "running" /\ main # "dead"
    BY <1>3 DEF AgentInv, ChildOK, ExitCodes
<1>8. /\ killer' \in [Run -> 0..MaxRuns]
      /\ role = "kill" => killer'[agent] = current
      /\ \A a \in Run : role # "kill" \/ a # agent => killer'[a] = killer[a]
    BY <1>3, <1>6 DEF AgentInv, CallTypeOK, Killing, agentVars
<1>9. /\ role = "addKey" /\ x = "ok" => agent \in agents \cap keyed
      /\ role = "kill" /\ x = "ok" => agent \notin agents
    BY <1>3, <1>4 DEF AgentInv, KeyAdded, Killing
<1>10. UNCHANGED <<agents, keyed>>
    BY <1>6 DEF agentVars
<1> QED BY <1>1, <1>2, <1>3, <1>5, <1>7, <1>8, <1>9, <1>10, ReturnKeepsInv

-----------------------------------------------------------------------------
(* The child ends. *)

\* What the child has done is what its command was for.
LEMMA ChildKeepsInv == Inv /\ (CommandExits \/ CommandDies) => AgentInv'
<1> SUFFICES ASSUME RunnerInv, AgentInv, CommandExits \/ CommandDies PROVE AgentInv'
    BY DEF Inv
<1> USE DEF AgentInv
<1>1. /\ child = "running" /\ child' \in {"zero", "unhandled", "none"}
      /\ current \in Run
      /\ UNCHANGED <<main, current, outcome, role, agent, failed, killer>>
    BY DEF CommandExits, CommandDies, ChildExits, ChildDies, AgentEffect, mainVars,
           callVars, ExitCodes, ChildOK
<1>2. PICK e \in ExitCodes : AgentEffect(e) /\ (child' \in {"zero", "none"} => e \in {"zero", "none"})
    BY DEF CommandExits, CommandDies, ChildExits, ExitCodes
<1>3. /\ role \notin {"start", "kill"} => agents' = agents
      /\ role = "start" => agents' \in {agents, agents \cup {current}}
      /\ role = "kill" => agents' \in {agents, agents \ {agent}}
      /\ role = "kill" /\ Done' => agents' = agents \ {agent}
    BY <1>2 DEF AgentEffect, Done
<1>4. /\ role # "addKey" => keyed' = keyed
      /\ role = "addKey" => keyed' \in {keyed, keyed \cup {agent}}
      /\ role = "addKey" /\ Done' => agent \in agents /\ keyed' = keyed \cup {agent}
    BY <1>2 DEF AgentEffect, Done
<1>5. Busy' <=> Busy
    BY <1>1 DEF Busy
<1>6. CallTypeOK'
  <2>1. agents' \subseteq Run
      BY <1>1, <1>3 DEF CallTypeOK
  <2>2. role = "addKey" => agent \in Run
      BY MaxRunsAssumption DEF CallTypeOK, Run
  <2>3. keyed' \subseteq Run
      BY <1>4, <2>2 DEF CallTypeOK
  <2> QED BY <1>1, <2>1, <2>3 DEF CallTypeOK
<1>7. ChildOK'
    BY <1>1, <1>5 DEF ChildOK, ExitCodes
<1>8. Finished'
    BY <1>1, <1>5 DEF Finished
<1>9. KeyAdded' /\ Killing'
    BY <1>1, <1>3, <1>4, <1>5 DEF KeyAdded, Killing
<1>10. ASSUME NEW a \in agents' PROVE Accounted(a)'
  <2>1. CASE a \in agents
      BY <1>1, <2>1 DEF Accounted
  <2>2. CASE a \notin agents
    <3>1. role = "start" /\ a = current
        BY <1>3, <1>10, <2>2
    <3>2. main \in {"read", "register", "wait", "close", "check", "dead"}
        BY <1>1 DEF ChildOK, Busy
    <3> QED BY <1>1, <3>1, <3>2 DEF Accounted
  <2> QED BY <2>1, <2>2
<1> QED BY <1>6, <1>7, <1>8, <1>9, <1>10

-----------------------------------------------------------------------------

\* Every step of the agent runner keeps the invariant.
LEMMA AgentStep == Inv /\ [AgentNext]_allVars => Inv'
<1> SUFFICES ASSUME Inv, [AgentNext]_allVars PROVE Inv'
    OBVIOUS
<1>1. RunnerInv'
    BY AgentStepIsRunnerStep, RunnerNext DEF Inv
<1>2. CASE StartCommand \/ StartCommandFails \/ CheckCommand
    BY <1>1, <1>2, StartKeepsInv, StartFailsKeepsInv, CheckKeepsInv DEF Inv
<1>3. CASE CommandExits \/ CommandDies
    BY <1>1, <1>3, ChildKeepsInv DEF Inv
<1>4. CASE ParseOutput \/ RunnerGoesOn \/ CommandWrites \/ SignalSent \/ AllEnded
               \/ (\E r \in Run : AgentGoroutineStep(r)) \/ UNCHANGED allVars
    BY <1>1, <1>4, QuietSteps, QuietKeepsInv DEF Inv
<1> QED BY <1>2, <1>3, <1>4 DEF AgentNext, AgentMainStep, AgentChildStep

\* The invariant holds whatever fails and whenever signals come.
LEMMA AgentInvHolds == AgentSpec => []Inv
BY AgentStart, AgentStep, PTL DEF AgentSpec

\* Every variable keeps its type, those of the runner included.
THEOREM AgentTypeCorrect == AgentSpec => []AgentTypeOK
<1>1. Inv => AgentTypeOK
    BY InvImpliesTypeOK DEF Inv, AgentInv, CallTypeOK, AgentTypeOK
<1> QED BY <1>1, AgentInvHolds, PTL

\* Whenever a playbook runs, the agent it was given lives and holds the key.
THEOREM PlaybooksHaveKeys == AgentSpec => []PlaybookHasKey
<1>1. Inv => PlaybookHasKey
    BY DEF Inv, AgentInv, KeyAdded, PlaybookHasKey
<1> QED BY <1>1, AgentInvHolds, PTL

\* An agent that stays behind has an error to show for it: that of ssh-agent or that
\* of its kill.
THEOREM LeaksAreReported == AgentSpec => []LeakIsReported
<1>1. Inv => LeakIsReported
  <2> SUFFICES ASSUME Inv, NEW a \in agents
               PROVE  \/ role = "start" /\ current = a
                      \/ agent = a /\ role # "over"
                      \/ outcome[a] = "error"
                      \/ killer[a] # 0 /\ outcome[killer[a]] = "error"
      BY DEF LeakIsReported
  <2>1. Accounted(a)
      BY DEF Inv, AgentInv
  <2>2. agent = a => role # "over"
      BY MaxRunsAssumption DEF Inv, AgentInv, CallTypeOK, Run
  <2> QED BY <2>1, <2>2 DEF Accounted
<1> QED BY <1>1, AgentInvHolds, PTL

\* No command of the agent runner ends well after a signal was forwarded: the next
\* one is refused even if the error of kill was only logged.
THEOREM AgentSignalsStop == AgentSpec => NoSuccessAfterForward
BY AgentRunnerIsRunner, SignalsStopCommands

=============================================================================
