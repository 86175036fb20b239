----------------------------- MODULE MachineVersions -----------------------------
(***************************************************************************)
(* api/machine.go, api/image.go and the flavors and images of the cloud    *)
(* providers: which Kubernetes version each machine brings, which machines *)
(* AddMachine and CloneMachine let in, and what upgrade makes of a control *)
(* plane.  A command is one step here: ClusterClient has their order.      *)
(*                                                                         *)
(* A version is written 100 * minor + patch, as in 1812 for v1.18.12; the  *)
(* code never looks at the major version.  An image stands for the version *)
(* of its kubelet; the kubeadm it comes with may be of another version.    *)
(***************************************************************************)
EXTENDS Integers, Sequences

CONSTANTS
    Choice,           \* <<provider, flavor, cluster type>>: what ck8s init was asked for
    NewName,          \* names for machines added later; bounds the model
    Kubeadms,         \* what the kubeadm of each image may be: functions from the version
                      \* of an image's kubelet to that of its kubeadm
    Word              \* number of values of the unsigned integers of version.go

Providers == {"aws", "azure", "citycloud", "exoscale", "safespring"}
Flavors == {"dev", "prod"}
ClusterTypes == {"sc", "wc"}

ASSUME ChoiceAssumption == Choice \subseteq Providers \X Flavors \X ClusterTypes
ASSUME NewNameAssumption ==
    NewName \cap {"master-0", "master-1", "master-2", "worker-ck8s-0", "worker-0", "worker-1",
                  "worker-2", "worker-3", "loadbalancer-0"} = {}
ASSUME WordAssumption == Word \in Nat /\ Word > 100

-----------------------------------------------------------------------------
(* Images. *)

NoKubelet == 0        \* an image without Kubernetes: KubeletVersion is nil
NoImage == -1         \* --image is not given

Minor(v) == v \div 100

\* `ck8s add` takes any word for a node type.
NodeTypes == {"master", "worker", "loadbalancer", "unknown"}

\* Three providers list the same images; AWS only looks at one of its regions.
AWSImages == <<1511>>
AzureImages == <<1614, 1711, 1812>>
CityCloudImages == <<1511, 1512, 1614, 1711, 1812>>
ExoscaleImages == <<1511, 1512, 1614, 1711, 1812>>

SafespringImages(type) ==
    CASE type \in {"master", "worker"} -> <<1511, 1512, 1614, 1711, 1812>>
      [] type = "loadbalancer" -> <<NoKubelet>>
      [] OTHER -> <<>>

MachineImages(provider, type) ==
    CASE provider = "aws" -> AWSImages
      [] provider = "azure" -> AzureImages
      [] provider = "citycloud" -> CityCloudImages
      [] provider = "exoscale" -> ExoscaleImages
      [] provider = "safespring" -> SafespringImages(type)

Named(provider, type) ==
    {MachineImages(provider, type)[i] : i \in DOMAIN MachineImages(provider, type)}

Versions == {1511, 1512, 1614, 1711, 1812, NoKubelet}

ASSUME KubeadmsAssumption == Kubeadms \subseteq [Versions -> Versions]

\* The comment of MachineImages: oldest first, so that the last is LatestImage.
ASSUME ImagesSorted ==
    \A p \in Providers, t \in NodeTypes :
        \A i, j \in DOMAIN MachineImages(p, t) :
            i < j => MachineImages(p, t)[i] < MachineImages(p, t)[j]

\* Subtraction of Go's unsigned integers.
Minus(a, b) == IF a >= b THEN a - b ELSE a - b + Word

\* Mutant of IsSupported: three versions are allowed.
ThreeOlder(server, v) == Minor(server) >= Minor(v) /\ Minus(Minor(server), Minor(v)) <= 3

IsSupported(server, v) ==
    /\ ~(Minor(server) < Minor(v))
    /\ ~(Minus(Minor(server), Minor(v)) > 2)

\* https://kubernetes.io/docs/setup/release/version-skew-policy/, which IsSupported cites.
SkewAllowed(server, v) == Minor(v) \in (Minor(server) - 2)..Minor(server)

-----------------------------------------------------------------------------
(* Flavors: the names of the machines of a new cluster.  The node type is that *)
(* of the factory the flavor builds the machine with.                          *)

MasterNames == {"master-0", "master-1", "master-2"}
WorkerNames == {"worker-ck8s-0", "worker-0", "worker-1", "worker-2", "worker-3"}
BalancerNames == {"loadbalancer-0"}

\* What the production flavors have in common.
Production(cluster) ==
    IF cluster = "sc" THEN MasterNames \cup (WorkerNames \ {"worker-ck8s-0"})
                      ELSE MasterNames \cup (WorkerNames \ {"worker-3"})

AWSFlavor(flavor, cluster) ==
    IF flavor = "prod" THEN Production(cluster) ELSE {"master-0", "worker-0", "worker-1"}

AzureFlavor(flavor, cluster) ==
    CASE flavor = "prod" -> Production(cluster)
      [] flavor = "dev" /\ cluster = "sc" -> {"master-0", "worker-0", "worker-1"}
      [] flavor = "dev" /\ cluster = "wc" -> {"master-0", "worker-0"}

CityCloudFlavor(flavor, cluster) ==
    CASE flavor = "prod" -> Production(cluster)
      [] flavor = "dev" /\ cluster = "sc" -> {"master-0", "worker-0", "worker-1"}
      [] flavor = "dev" /\ cluster = "wc" -> {"master-0", "worker-0"}

ExoscaleFlavor(flavor, cluster) ==
    CASE flavor = "prod" -> Production(cluster)
      [] flavor = "dev" /\ cluster = "sc" -> {"master-0", "worker-0", "worker-1"}
      [] flavor = "dev" /\ cluster = "wc" -> {"master-0", "worker-0"}

SafespringFlavor(flavor, cluster) ==
    BalancerNames \cup
    CASE flavor = "prod" -> Production(cluster)
      [] flavor = "dev" /\ cluster = "sc" -> {"master-0", "worker-0", "worker-1"}
      [] flavor = "dev" /\ cluster = "wc" -> {"master-0", "worker-0"}

FlavorNames(choice) ==
    CASE choice[1] = "aws" -> AWSFlavor(choice[2], choice[3])
      [] choice[1] = "azure" -> AzureFlavor(choice[2], choice[3])
      [] choice[1] = "citycloud" -> CityCloudFlavor(choice[2], choice[3])
      [] choice[1] = "exoscale" -> ExoscaleFlavor(choice[2], choice[3])
      [] choice[1] = "safespring" -> SafespringFlavor(choice[2], choice[3])

Name == MasterNames \cup WorkerNames \cup BalancerNames \cup NewName

\* The types the state of a provider lists: only Safespring's load balancers are machines.
StateTypes(provider) ==
    {"master", "worker"} \cup (IF provider = "safespring" THEN {"loadbalancer"} ELSE {})

VARIABLES
    provider,         \* the cloud provider of the configuration
    kubeadm,          \* the version of kubeadm on each of the images
    machines,         \* the machines of tfvars.json
    nodes,            \* those that have joined the cluster
    server,           \* version of the API server of each master
    configured,       \* kubernetesVersion in the cluster's kubeadm configuration
    result,           \* how the last command ended
    moved             \* history: what upgrades have done to the minor version: "no" change,
                      \* "raised" it, or "lowered" it at least once

vars == <<provider, kubeadm, machines, nodes, server, configured, result, moved>>

NoMachine == [type |-> "none", image |-> NoKubelet]

MachineOf == [type: NodeTypes, image: Versions] \cup {NoMachine}

Kubernetes == {"master", "worker"}

TypeOK ==
    /\ provider \in Providers
    /\ machines \in [Name -> MachineOf]
    /\ \A n \in Name : machines[n] # NoMachine =>
         machines[n].image \in Named(provider, machines[n].type)
    /\ nodes \subseteq {n \in Name : machines[n].type \in Kubernetes}
    /\ server \in [Name -> Versions] /\ configured \in Versions
    /\ result \in {"none", "ok", "error", "panic"}
    /\ kubeadm \in Kubeadms
    /\ moved \in {"no", "raised", "lowered"}

\* A machine of the flavor, built by a release whose latest image was v.
Built(choice, v, n) ==
    CASE n \in FlavorNames(choice) \cap MasterNames -> [type |-> "master", image |-> v]
      [] n \in FlavorNames(choice) \cap WorkerNames -> [type |-> "worker", image |-> v]
      [] n \in FlavorNames(choice) \cap BalancerNames ->
             [type |-> "loadbalancer", image |-> NoKubelet]
      [] OTHER -> NoMachine

\* After ck8s init and a successful apply.
Init ==
    \E choice \in Choice : \E v \in Named(choice[1], "master") :
        /\ provider = choice[1] /\ kubeadm \in Kubeadms
        /\ machines = [n \in Name |-> Built(choice, v, n)]
        /\ nodes = FlavorNames(choice) \ BalancerNames
        /\ server = [n \in Name |-> IF n \in FlavorNames(choice) \cap MasterNames
                                    THEN v ELSE NoKubelet]
        /\ configured = v
        /\ result = "none" /\ moved = "no"

-----------------------------------------------------------------------------
(* Commands. *)

APIServers == {n \in nodes : machines[n].type = "master"}

Ends(res) == result' = res /\ UNCHANGED <<provider, kubeadm>>

Refused(res) == Ends(res) /\ UNCHANGED <<machines, nodes, server, configured, moved>>

\* validateMachine: kubectl asks whichever API server the load balancer picks, and
\* IsSupported panics on an image without a version.
Validated(v) == v # NoKubelet /\ \E m \in APIServers : IsSupported(server[m], v)

Rejected(v) ==
    \/ APIServers = {} /\ Refused("error")
    \/ v # NoKubelet /\ (\E m \in APIServers : ~IsSupported(server[m], v)) /\ Refused("error")
    \/ v = NoKubelet /\ APIServers # {} /\ Refused("panic")

\* Join looks the new machine up in the state; kubeadm join may fail.
Join(n, m) ==
    /\ machines' = [machines EXCEPT ![n] = m]
    /\ \/ /\ m.type \in Kubernetes
          /\ nodes' = nodes \cup {n}
          /\ server' = IF m.type = "master" THEN [server EXCEPT ![n] = configured] ELSE server
          /\ Ends("ok")
       \/ /\ m.type \in StateTypes(provider) \ Kubernetes
          /\ Ends("ok")
          /\ UNCHANGED <<nodes, server>>
       \/ Ends("error") /\ UNCHANGED <<nodes, server>>
    /\ UNCHANGED <<configured, moved>>

Unused(n) == machines[n] = NoMachine

\* Mutant of BuildImages: the image is taken without a look at the provider's list.
NotLookedUp(type, image) == {image}

\* MachineFactory: the latest image, or the one of that name.
BuildImages(type, image) ==
    IF image = NoImage
    THEN {MachineImages(provider, type)[Len(MachineImages(provider, type))]}
    ELSE {image} \cap Named(provider, type)

\* AddMachine.  LatestImage panics without images.
AddMachine(n, type, image) ==
    /\ Unused(n)
    /\ \/ /\ Named(provider, type) # {}
          /\ \E v \in BuildImages(type, image) :
               \/ Validated(v) /\ Join(n, [type |-> type, image |-> v])
               \/ Rejected(v)
       \/ Named(provider, type) = {} /\ Refused("panic")
       \/ Named(provider, type) # {} /\ BuildImages(type, image) = {} /\ Refused("error")

\* Mutant of CloneAccepted: a clone is never validated.
CloneUnchecked(image) == TRUE

\* CloneMachine only validates a clone with an image of its own.
CloneAccepted(image) == image = NoImage \/ Validated(image)

CloneMachine(old, n, image) ==
    /\ ~Unused(old) /\ Unused(n)
    /\ LET type == machines[old].type
           known == image = NoImage \/ image \in Named(provider, type)
           clone == IF image = NoImage THEN machines[old]
                    ELSE [type |-> type, image |-> image]
       IN \/ known /\ CloneAccepted(image) /\ Join(n, clone)
          \/ known /\ image # NoImage /\ Rejected(image)
          \/ ~known /\ Refused("error")

\* RemoveNode, also as the end of a replace.
RemoveNode(n) ==
    /\ ~Unused(n) /\ APIServers # {}
    /\ machines' = [machines EXCEPT ![n] = NoMachine]
    /\ nodes' = nodes \ {n}
    /\ server' = [server EXCEPT ![n] = NoKubelet]
    /\ Ends("ok")
    /\ UNCHANGED <<configured, moved>>

Moved(v) ==
    IF moved = "lowered" \/ Minor(v) < Minor(configured) THEN "lowered"
    ELSE IF Minor(v) > Minor(configured) THEN "raised"
    ELSE moved

\* The version is the one kubeadm on the machine tells.  kubeadm upgrade apply moves the
\* control plane by one minor version at most, up or down, and only on a member of it.
Upgrade(n) ==
    /\ ~Unused(n)
    /\ LET v == kubeadm[machines[n].image]
       IN \/ /\ n \in APIServers
             /\ Minor(v) \in (Minor(configured) - 1)..(Minor(configured) + 1)
             /\ server' = [server EXCEPT ![n] = v]
             /\ configured' = v
             /\ moved' = Moved(v)
             /\ Ends("ok")
             /\ UNCHANGED <<machines, nodes>>
          \/ Refused("error")

Next ==
    \/ \E n \in NewName, type \in NodeTypes, image \in Versions \cup {NoImage} :
         AddMachine(n, type, image)
    \/ \E old \in Name, n \in NewName, image \in Versions \cup {NoImage} :
         CloneMachine(old, n, image)
    \/ \E n \in Name : RemoveNode(n) \/ Upgrade(n)

Spec == Init /\ [][Next]_vars

-----------------------------------------------------------------------------
(* Properties. *)

\* Every node keeps to the version skew policy towards every API server, clones that
\* validateMachine never saw included, until an upgrade has moved the control plane to
\* another minor version.
SkewPolicy ==
    moved = "no" => \A n \in nodes, m \in APIServers : SkewAllowed(server[m], machines[n].image)

\* Whatever kubeadm the images bring and in whatever order masters are upgraded while
\* machines are added, cloned, replaced and removed: no kubelet is newer than the version
\* the control plane is configured for, until an upgrade has lowered that.
NodesNotNewer ==
    moved # "lowered" => \A n \in nodes : Minor(machines[n].image) <= Minor(configured)

=============================================================================
