-------------------------- MODULE ClusterClientRefinement --------------------------
(***************************************************************************)
(* ClusterClient, with one command at a time, implements MachineChange:    *)
(* whatever fails and wherever a command is killed, machines are created,  *)
(* join, leave and go in that order, and only the machine of the command.  *)
(***************************************************************************)
EXTENDS ClusterClient

\* A machine with the files of a control plane that is still there.
Joins(m) == host[m].cp # NoControlPlane

\* replace has superseded its original once the plan that precedes the removal was
\* found empty.
Superseded(r, step) == r.phase = "remove" /\ step # "plan"

\* The change a client makes; drain changes no machine.
ChangeOf(r, step) ==
    CASE r.command \in {"apply", "terraform apply", "destroy"} ->
             [kind |-> "converge", machine |-> NoMachine, original |-> NoMachine]
      [] r.command \in {"add", "clone"} ->
             [kind |-> "create", machine |-> r.created, original |-> NoMachine]
      [] r.command = "replace" /\ ~Superseded(r, step) ->
             [kind |-> "replace", machine |-> r.created, original |-> r.target]
      [] r.command \in {"remove", "reset"} \/ (r.command = "replace" /\ Superseded(r, step)) ->
             [kind |-> r.phase, machine |-> r.target, original |-> NoMachine]
      [] OTHER -> [kind |-> "none", machine |-> NoMachine, original |-> NoMachine]

\* The client at work; with one command at a time there is at most one.
Active == {p \in Client : pc[p] # "idle"}

Change ==
    IF Active = {} THEN ChangeOf(NoRun, "idle")
    ELSE LET p == CHOOSE q \in Active : TRUE IN ChangeOf(run[p], pc[p])

Abstract == INSTANCE MachineChange WITH
    Node <- K8sNodes(Machine),
    existing <- tfstate,
    joined <- {m \in Machine : Joins(m)},
    change <- Change

\* Every step of a ck8s command is a step of MachineChange, or changes nothing it sees.
ImplementsMachineChange == Abstract!Spec

=============================================================================
