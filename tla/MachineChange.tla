------------------------------ MODULE MachineChange ------------------------------
(***************************************************************************)
(* What the commands of ck8s promise about machines, without files, tools, *)
(* failures or retries (client/cluster.go and cmd/ck8s/k8s.go).  A machine *)
(* is created, joins a control plane, leaves it, and only then goes.  One  *)
(* operator changes the cluster, and each command changes no machine but   *)
(* its own; only apply and destroy act on the cluster as a whole.          *)
(***************************************************************************)
CONSTANTS
    Machine,          \* machine names
    Node,             \* those that join a control plane; load balancers do not
    NoMachine         \* the command has no machine (yet)

VARIABLES
    existing,         \* the machines that exist
    joined,           \* those that belong to a control plane
    change            \* the change under way and the machine it is about

vars == <<existing, joined, change>>

Kinds == {"none", "converge", "create", "replace", "remove", "reset"}

\* The change of one kind, to machine m, in the place of machine o.
Of(kind, m, o) == [kind |-> kind, machine |-> m, original |-> o]

NoChange == Of("none", NoMachine, NoMachine)

TypeOK ==
    /\ existing \subseteq Machine
    /\ joined \subseteq Machine
    /\ change \in [kind: Kinds, machine: Machine \cup {NoMachine},
                   original: Machine \cup {NoMachine}]

Init ==
    /\ existing = {}
    /\ joined = {}
    /\ change = NoChange

Unmoved == UNCHANGED <<existing, joined>>

\* A step of the command under way, which may be its last, whether it ends well or not.
Going == change' \in {change, NoChange}

\* A command starts.  The name of a machine to be created comes later.
Begin ==
    /\ change = NoChange
    /\ \/ change' = Of("converge", NoMachine, NoMachine)
       \/ change' = Of("create", NoMachine, NoMachine)
       \/ \E m \in Machine : change' \in {Of("replace", NoMachine, m), Of("remove", m, NoMachine),
                                         Of("reset", m, NoMachine)}
    /\ Unmoved

\* The machine to be created gets a name that no machine has.
Name ==
    /\ change.kind \in {"create", "replace"} /\ change.machine = NoMachine
    /\ \E m \in Machine \ existing : change' = [change EXCEPT !.machine = m]
    /\ Unmoved

Create ==
    /\ change.kind \in {"create", "replace"} /\ change.machine # NoMachine
    /\ existing' = existing \cup {change.machine}
    /\ Going
    /\ UNCHANGED joined

\* Machines that had not joined, after a failure, may do so along with the new one.
Join ==
    /\ change.kind \in {"converge", "create", "replace"}
    /\ joined \subseteq joined' /\ joined' \subseteq existing
    /\ Going
    /\ UNCHANGED existing

\* The new machine is there and has joined, so the original may go.
Supersede ==
    /\ change.kind = "replace" /\ change.machine \in existing
    /\ change.machine \in Node => change.machine \in joined
    /\ change' = Of("remove", change.original, NoMachine)
    /\ Unmoved

\* All lose their control plane when this was the last machine it ran on.
Leave ==
    /\ change.kind \in {"remove", "reset"}
    /\ joined' \subseteq joined \ {change.machine}
    /\ Going
    /\ UNCHANGED existing

Remove ==
    /\ change.kind = "remove" /\ change.machine \notin joined
    /\ existing' = existing \ {change.machine}
    /\ Going
    /\ UNCHANGED joined

\* apply and destroy: the machines become those of the configuration, or none.
Converge ==
    /\ change.kind = "converge"
    /\ existing' \subseteq Machine
    /\ joined' \subseteq joined \cap existing'
    /\ Going

End ==
    /\ change # NoChange
    /\ change' = NoChange
    /\ Unmoved

Next ==
    \/ Begin \/ Name \/ Create \/ Join \/ Supersede \/ Leave \/ Remove \/ Converge \/ End

Spec == Init /\ [][Next]_vars

-----------------------------------------------------------------------------

\* Only machines that exist have joined: a machine is never taken away, and its
\* name never given to another, while a control plane counts on it.
JoinedExist == joined \subseteq existing

=============================================================================
