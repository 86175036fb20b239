----------------------------- MODULE SSHAgentRunner -----------------------------
(***************************************************************************)
(* runner/sshagent.go over the local runner of runner/standard.go.  Every  *)
(* playbook of runner/ansible.go is wrapped in four commands of the same   *)
(* StandardRunner: ssh-agent, which leaves an agent behind and prints its  *)
(* pid, ssh-add under sops, the playbook, and kill.  Before and between    *)
(* them the client runs other commands, and it gives up on an error.       *)
(*                                                                         *)
(* An agent outlives the command that started it, the call it was started  *)
(* for and the process, unless it is killed.                               *)
(***************************************************************************)
EXTENDS StandardRunner

VARIABLES
    role,             \* what the next command, or the one that runs, is for
    agent,            \* the run of ssh-agent of the call under way, 0 outside one
    failed,           \* ssh-add or the playbook of this call has failed
    agents,           \* runs of ssh-agent whose agent lives
    keyed,            \* those whose agent has the private key
    killer            \* per run of ssh-agent: the run of its kill, 0 if none

callVars == <<role, agent, failed>>
agentVars == <<agents, keyed, killer>>
allVars == <<vars, callVars, agentVars>>

Roles == {"other", "start", "addKey", "playbook", "kill", "over"}

AgentTypeOK ==
    /\ TypeOK
    /\ role \in Roles
    /\ agent \in 0..MaxRuns
    /\ failed \in BOOLEAN
    /\ agents \subseteq Run
    /\ keyed \subseteq Run
    /\ killer \in [Run -> 0..MaxRuns]

\* The bound on commands leaves room for a whole call.
Between(n) ==
    {"over"} \cup (IF n < MaxRuns THEN {"other"} ELSE {})
             \cup (IF n + 4 <= MaxRuns THEN {"start"} ELSE {})

AgentInit ==
    /\ Init
    /\ role \in Between(0)
    /\ agent = 0 /\ failed = FALSE
    /\ agents = {} /\ keyed = {}
    /\ killer = [r \in Run |-> 0]

-----------------------------------------------------------------------------
(* withSSHAgent. *)

\* Mutant of AfterCommand: the kill is deferred after the key has been added.
DeferredLate(res) ==
    CASE role = "start" -> IF res = "ok" THEN {"addKey"} ELSE {"over"}
      [] role = "addKey" -> IF res = "ok" THEN {"playbook"} ELSE {"over"}
      [] role = "playbook" -> {"kill"}
      [] role = "kill" -> IF failed THEN {"over"} ELSE Between(current')
      [] role = "other" -> IF res = "ok" THEN Between(current') ELSE {"over"}

\* Mutant of AfterCommand: the error of ssh-add is logged like that of kill.
KeyErrorLogged(res) ==
    CASE role = "start" -> IF res = "ok" THEN {"addKey"} ELSE {"over"}
      [] role = "addKey" -> {"playbook"}
      [] role = "playbook" -> {"kill"}
      [] role = "kill" -> IF failed THEN {"over"} ELSE Between(current')
      [] role = "other" -> IF res = "ok" THEN Between(current') ELSE {"over"}

\* What follows a command.  Once Start has returned without an error the kill is
\* deferred, and its own error is only logged; any other error ends the process.
AfterCommand(res) ==
    CASE role = "start" -> IF res = "ok" THEN {"addKey"} ELSE {"over"}
      [] role = "addKey" -> IF res = "ok" THEN {"playbook"} ELSE {"kill"}
      [] role = "playbook" -> {"kill"}
      [] role = "kill" -> IF failed THEN {"over"} ELSE Between(current')
      [] role = "other" -> IF res = "ok" THEN Between(current') ELSE {"over"}

\* run() of the command with number r has returned.
CommandReturned(r, stop) ==
    /\ role' \in AfterCommand(outcome'[r])
    /\ stop = (role' = "over")
    /\ failed' = (role \in {"addKey", "playbook"} /\ (failed \/ outcome'[r] = "error"))
    /\ agent' = IF role' = "addKey" THEN r ELSE IF role = "kill" THEN 0 ELSE agent

\* The command with number r is the kill of the agent.
KillerIs(r) == killer' = IF role = "kill" THEN [killer EXCEPT ![agent] = r] ELSE killer

\* Only ssh-agent has an OutputHandler: SSHAgent.Start parses its stdout.
StartCommand ==
    /\ role # "over"
    /\ Start
    /\ reading' = IF role = "start" THEN ReadOrder("stdout") ELSE <<>>
    /\ KillerIs(current')
    /\ UNCHANGED <<callVars, agents, keyed>>

StartCommandFails ==
    /\ role # "over"
    /\ \E stop \in BOOLEAN : StartFails(stop) /\ CommandReturned(current', stop)
    /\ KillerIs(current')
    /\ UNCHANGED <<agents, keyed>>

\* Socket and pid are only found in what an agent that lives has printed.
ParseOutput ==
    /\ OutputHandled
    /\ current \notin agents => chained'
    /\ UNCHANGED <<callVars, agentVars>>

CheckCommand ==
    /\ \E stop \in BOOLEAN : Check(stop) /\ CommandReturned(current, stop)
    /\ UNCHANGED agentVars

-----------------------------------------------------------------------------
(* The children.  No command here has an exit code handler. *)

\* What a child that ends with e does to the agents: it has done its work if its
\* status is 0, also when its output could not be copied ("none").
AgentEffect(e) ==
    LET done == e \in {"zero", "none"}
    IN /\ e # "handled"
       /\ CASE role = "start" ->
                 agents' = (IF done THEN agents \cup {current} ELSE agents) /\ UNCHANGED keyed
            [] role = "addKey" ->
                 /\ done => agent \in agents
                 /\ keyed' = (IF done THEN keyed \cup {agent} ELSE keyed) /\ UNCHANGED agents
            [] role = "kill" ->
                 /\ done => agent \in agents
                 /\ agents' = (IF done THEN agents \ {agent} ELSE agents) /\ UNCHANGED keyed
            [] OTHER -> UNCHANGED <<agents, keyed>>
       /\ UNCHANGED <<callVars, killer>>

CommandExits == ChildExits /\ AgentEffect(child')

\* A child that is killed may have done its work before, or not.
CommandDies ==
    /\ ChildDies /\ child' = "unhandled"
    /\ \E e \in {"zero", "unhandled"} : AgentEffect(e)

CommandWrites ==
    /\ \E p \in Pipe : ChildWrites(p)
    /\ UNCHANGED <<callVars, agentVars>>

-----------------------------------------------------------------------------

RunnerGoesOn ==
    /\ Read \/ Register \/ Wait \/ Close
    /\ UNCHANGED <<callVars, agentVars>>

SignalSent == Signal /\ UNCHANGED <<callVars, agentVars>>

AgentGoroutineStep(r) == GoroutineStep(r) /\ UNCHANGED <<callVars, agentVars>>

AgentMainStep == StartCommand \/ StartCommandFails \/ ParseOutput \/ CheckCommand \/ RunnerGoesOn

AgentChildStep == CommandExits \/ CommandWrites

AllEnded ==
    /\ main = "dead" \/ role = "over"
    /\ UNCHANGED allVars

AgentNext ==
    \/ AgentMainStep
    \/ AgentChildStep
    \/ CommandDies
    \/ SignalSent
    \/ \E r \in Run : AgentGoroutineStep(r)
    \/ AllEnded

AgentSpec == AgentInit /\ [][AgentNext]_allVars

\* As in StandardRunner: the scheduler and the kernel let everyone run.
AgentFairSpec ==
    /\ AgentSpec
    /\ WF_allVars(AgentMainStep)
    /\ WF_allVars(AgentChildStep)
    /\ \A r \in Run : WF_allVars(AgentGoroutineStep(r))

-----------------------------------------------------------------------------
(* Properties. *)

\* Whenever a playbook runs, the agent it was given lives and holds the key,
\* whatever signals and failures came before.
PlaybookHasKey ==
    role = "playbook" /\ child = "running" => agent \in agents \cap keyed

\* withSSHAgent leaves no agent behind silently: either ssh-agent itself returned an
\* error, or the kill did.  (Unless the process is killed.)
LeakIsReported ==
    \A a \in agents :
        \/ role = "start" /\ current = a
        \/ agent = a /\ role # "over"
        \/ outcome[a] = "error"
        \/ killer[a] # 0 /\ outcome[killer[a]] = "error"

\* Once Start has returned an agent, its kill comes to an end, whatever becomes of
\* the key and the playbook.
AgentIsKilled == (agent # 0) ~> (agent = 0 \/ main = "dead")

=============================================================================
