-------------------------- MODULE MachineVersionsProofs --------------------------
(***************************************************************************)
(* Theorems about MachineVersions, for every flavor, number of machines    *)
(* and sequence of commands.                                               *)
(***************************************************************************)
EXTENDS MachineVersions, TLAPS

\* IsSupported is the policy it cites: the order of its two checks keeps the unsigned
\* subtraction from wrapping around.
THEOREM IsSupportedIsPolicy ==
    \A server_, v \in Nat : IsSupported(server_, v) <=> SkewAllowed(server_, v)
<1> SUFFICES ASSUME NEW s \in Nat, NEW v \in Nat
             PROVE  IsSupported(s, v) <=> SkewAllowed(s, v)
    OBVIOUS
<1>1. Minor(s) \in Nat /\ Minor(v) \in Nat
    BY DEF Minor
<1>2. CASE Minor(s) < Minor(v)
    BY <1>1, <1>2 DEF IsSupported, SkewAllowed
<1>3. CASE Minor(s) >= Minor(v)
  <2>1. Minus(Minor(s), Minor(v)) = Minor(s) - Minor(v)
      BY <1>3 DEF Minus
  <2> QED BY <1>1, <1>3, <2>1 DEF IsSupported, SkewAllowed
<1> QED BY <1>1, <1>2, <1>3

-----------------------------------------------------------------------------
(* Images. *)

\* The images of a provider.
LEMMA ImageVersions ==
    \A p \in Providers, t \in NodeTypes : MachineImages(p, t) \in Seq(Versions)
<1> SUFFICES ASSUME NEW p \in Providers, NEW t \in NodeTypes
             PROVE  MachineImages(p, t) \in Seq(Versions)
    OBVIOUS
<1>1. CASE p = "aws"
    BY <1>1 DEF MachineImages, AWSImages, Versions
<1>5. CASE p = "azure"
    BY <1>5 DEF MachineImages, AzureImages, Versions
<1>2. CASE p = "citycloud"
    BY <1>2 DEF MachineImages, CityCloudImages, Versions
<1>3. CASE p = "exoscale"
    BY <1>3 DEF MachineImages, ExoscaleImages, Versions
<1>4. CASE p = "safespring"
  <2>1. CASE t \in {"master", "worker"}
    <3>1. SafespringImages(t) = <<1511, 1512, 1614, 1711, 1812>>
        BY <2>1 DEF SafespringImages
    <3> QED BY <1>4, <3>1 DEF MachineImages, Versions
  <2>2. CASE t = "loadbalancer"
    <3>1. SafespringImages(t) = <<NoKubelet>>
        BY <2>2 DEF SafespringImages
    <3> QED BY <1>4, <3>1 DEF MachineImages, Versions
  <2>3. CASE t = "unknown"
    <3>1. SafespringImages(t) = <<>>
        BY <2>3 DEF SafespringImages
    <3> QED BY <1>4, <3>1 DEF MachineImages
  <2> QED BY <2>1, <2>2, <2>3 DEF NodeTypes
<1> QED BY <1>1, <1>2, <1>3, <1>4, <1>5 DEF Providers

\* What a machine is built with is an image of its provider, and one of those asked for.
LEMMA BuiltImages ==
    ASSUME provider \in Providers, NEW t \in NodeTypes, Named(provider, t) # {}, NEW image,
           NEW v \in BuildImages(t, image)
    PROVE  v \in Named(provider, t) /\ v \in Versions
<1>1. MachineImages(provider, t) \in Seq(Versions)
    BY ImageVersions
<1>2. Len(MachineImages(provider, t)) \in DOMAIN MachineImages(provider, t)
    BY <1>1 DEF Named
<1>3. Named(provider, t) \subseteq Versions
    BY <1>1 DEF Named
<1>4. v \in Named(provider, t)
    BY <1>2 DEF BuildImages, Named
<1> QED BY <1>3, <1>4

-----------------------------------------------------------------------------
(* The inductive invariant. *)

\* Nothing of the cluster is newer than the version it is configured for, until an
\* upgrade has lowered that ...
Ceiling ==
    moved # "lowered" =>
        /\ \A m \in APIServers : Minor(server[m]) <= Minor(configured)
        /\ \A n \in Name : Minor(machines[n].image) <= Minor(configured)

\* ... and until an upgrade has moved it, the control plane is at that minor version
\* and every machine that may become a node, joined or not, is at most two behind.
Window ==
    moved = "no" =>
        /\ \A m \in APIServers : Minor(server[m]) = Minor(configured)
        /\ \A n \in Name : machines[n].type \in Kubernetes =>
             Minor(machines[n].image) \in (Minor(configured) - 2)..Minor(configured)

Inv == TypeOK /\ Ceiling /\ Window

LEMMA VersionNumbers ==
    /\ \A v \in Versions : v \in Nat /\ Minor(v) \in Nat
    /\ NoKubelet \in Versions /\ Minor(NoKubelet) = 0
BY DEF Versions, NoKubelet, Minor

\* What an unused name stands for, and a used one.
LEMMA MachineFacts ==
    ASSUME TypeOK, NEW n \in Name
    PROVE  /\ machines[n].image \in Versions
           /\ machines[n] = NoMachine => machines[n].type = "none" /\ n \notin nodes
           /\ machines[n] # NoMachine => machines[n].type \in NodeTypes
           /\ n \in nodes => machines[n].type \in Kubernetes
<1>1. machines[n] \in MachineOf
    BY DEF TypeOK
<1>2. NoKubelet \in Versions
    BY VersionNumbers
<1>3. CASE machines[n] = NoMachine
  <2>1. machines[n].type = "none" /\ machines[n].image = NoKubelet
      BY <1>3 DEF NoMachine
  <2>2. n \notin nodes
      BY <2>1 DEF TypeOK, Kubernetes
  <2> QED BY <1>2, <1>3, <2>1, <2>2
<1>4. CASE machines[n] # NoMachine
  <2>1. machines[n] \in [type: NodeTypes, image: Versions]
      BY <1>1, <1>4 DEF MachineOf
  <2> QED BY <1>4, <2>1 DEF TypeOK
<1> QED BY <1>3, <1>4

-----------------------------------------------------------------------------
(* Steps. *)

\* A refused command changes nothing but its result.
LEMMA RefusedKeeps ==
    ASSUME Inv, NEW res \in {"error", "panic"}, Refused(res)
    PROVE  Inv'
<1>1. UNCHANGED <<provider, kubeadm, machines, nodes, server, configured, moved>>
    BY DEF Refused, Ends
<1>2. result' \in {"none", "ok", "error", "panic"}
    BY DEF Refused, Ends
<1>3. TypeOK'
    BY <1>1, <1>2 DEF Inv, TypeOK
<1>4. Ceiling' /\ Window'
    BY <1>1 DEF Inv, Ceiling, Window, APIServers
<1> QED BY <1>3, <1>4 DEF Inv

\* validateMachine lets in what the inductive invariant allows.
LEMMA ValidatedFits ==
    ASSUME Inv, NEW v \in Versions, Validated(v)
    PROVE  /\ moved # "lowered" => Minor(v) <= Minor(configured)
           /\ moved = "no" => Minor(v) \in (Minor(configured) - 2)..Minor(configured)
<1>1. PICK m \in APIServers : IsSupported(server[m], v)
    BY DEF Validated
<1>2. m \in Name /\ server[m] \in Versions /\ configured \in Versions
    BY <1>1 DEF Inv, TypeOK, APIServers
<1>3. SkewAllowed(server[m], v)
    BY <1>1, <1>2, VersionNumbers, IsSupportedIsPolicy
<1>4. Minor(v) \in (Minor(server[m]) - 2)..Minor(server[m])
    BY <1>3 DEF SkewAllowed
<1>5. moved # "lowered" => Minor(server[m]) <= Minor(configured)
    BY <1>1 DEF Inv, Ceiling
<1>6. moved = "no" => Minor(server[m]) = Minor(configured)
    BY <1>1 DEF Inv, Window
<1>7. Minor(v) \in Nat /\ Minor(server[m]) \in Nat /\ Minor(configured) \in Nat
    BY <1>2, VersionNumbers
<1> QED BY <1>4, <1>5, <1>6, <1>7

\* A machine that fits joins, whether or not kubeadm join succeeds.
LEMMA JoinKeeps ==
    ASSUME Inv, NEW n \in NewName, Unused(n),
           NEW m \in [type: NodeTypes, image: Versions],
           m.image \in Named(provider, m.type),
           moved # "lowered" => Minor(m.image) <= Minor(configured),
           moved = "no" /\ m.type \in Kubernetes =>
               Minor(m.image) \in (Minor(configured) - 2)..Minor(configured),
           Join(n, m)
    PROVE  Inv'
<1>1. n \in Name /\ machines \in [Name -> MachineOf] /\ server \in [Name -> Versions]
    BY DEF Inv, TypeOK, Name
<1>2. n \notin nodes
    BY <1>1, MachineFacts DEF Unused, Inv
<1>3. /\ machines' = [machines EXCEPT ![n] = m]
      /\ UNCHANGED <<provider, kubeadm, configured, moved>>
    BY DEF Join, Ends
<1>4. result' \in {"ok", "error"}
    BY DEF Join, Ends
<1>5. /\ machines'[n] = m
      /\ \A x \in Name \ {n} : machines'[x] = machines[x]
    BY <1>1, <1>3
<1>6. \/ /\ m.type \in Kubernetes
         /\ nodes' = nodes \cup {n}
         /\ server' = IF m.type = "master" THEN [server EXCEPT ![n] = configured] ELSE server
      \/ UNCHANGED <<nodes, server>>
    BY DEF Join
<1>7. /\ server' \in [Name -> Versions]
      /\ \A x \in Name \ {n} : server'[x] = server[x]
      /\ server'[n] = server[n] \/ server'[n] = configured
  <2>1. configured \in Versions
      BY DEF Inv, TypeOK
  <2> QED BY <1>1, <1>6, <2>1
<1>8. TypeOK'
  <2>1. machines' \in [Name -> MachineOf]
      BY <1>1, <1>3 DEF MachineOf
  <2>2. \A x \in Name : machines'[x] # NoMachine =>
            machines'[x].image \in Named(provider, machines'[x].type)
      BY <1>5 DEF Inv, TypeOK
  <2>3. nodes' \subseteq {x \in Name : machines'[x].type \in Kubernetes}
      BY <1>1, <1>2, <1>5, <1>6 DEF Inv, TypeOK
  <2> QED BY <1>3, <1>4, <1>7, <2>1, <2>2, <2>3 DEF Inv, TypeOK
<1>9. ASSUME NEW x \in APIServers'
      PROVE  \/ x = n /\ server'[x] = configured
             \/ x # n /\ x \in APIServers /\ server'[x] = server[x]
  <2>1. x \in nodes' /\ machines'[x].type = "master"
      BY <1>9 DEF APIServers
  <2>2. CASE x = n
    <3>1. nodes' = nodes \cup {n} /\ m.type = "master"
        BY <1>2, <1>5, <1>6, <2>1, <2>2
    <3>2. server' = [server EXCEPT ![n] = configured]
        BY <1>2, <1>6, <3>1
    <3> QED BY <1>1, <2>2, <3>2
  <2>3. CASE x # n
    <3>1. x \in nodes
        BY <1>6, <2>1, <2>3
    <3>2. x \in Name
        BY <3>1 DEF Inv, TypeOK
    <3>3. x \in APIServers
        BY <1>5, <2>1, <2>3, <3>1, <3>2 DEF APIServers
    <3> QED BY <1>7, <2>3, <3>2, <3>3
  <2> QED BY <2>2, <2>3
<1>10. Ceiling'
  <2> SUFFICES ASSUME moved # "lowered"
               PROVE  /\ \A x \in APIServers' : Minor(server'[x]) <= Minor(configured)
                      /\ \A x \in Name : Minor(machines'[x].image) <= Minor(configured)
      BY <1>3 DEF Ceiling
  <2>1. Minor(configured) \in Nat
      BY VersionNumbers DEF Inv, TypeOK
  <2>2. \A x \in Name : Minor(machines'[x].image) <= Minor(configured)
      BY <1>5 DEF Inv, Ceiling
  <2>3. \A x \in APIServers' : Minor(server'[x]) <= Minor(configured)
      BY <1>9, <2>1 DEF Inv, Ceiling
  <2> QED BY <2>2, <2>3
<1>11. Window'
  <2> SUFFICES ASSUME moved = "no"
               PROVE  /\ \A x \in APIServers' : Minor(server'[x]) = Minor(configured)
                      /\ \A x \in Name : machines'[x].type \in Kubernetes =>
                           Minor(machines'[x].image)
                               \in (Minor(configured) - 2)..Minor(configured)
      BY <1>3 DEF Window
  <2>1. \A x \in APIServers' : Minor(server'[x]) = Minor(configured)
      BY <1>9 DEF Inv, Window
  <2>2. \A x \in Name : machines'[x].type \in Kubernetes =>
            Minor(machines'[x].image) \in (Minor(configured) - 2)..Minor(configured)
      BY <1>5 DEF Inv, Window
  <2> QED BY <2>1, <2>2
<1> QED BY <1>8, <1>10, <1>11 DEF Inv

LEMMA AddMachineKeeps ==
    ASSUME Inv, NEW n \in NewName, NEW type \in NodeTypes,
           NEW image \in Versions \cup {NoImage}, AddMachine(n, type, image)
    PROVE  Inv'
<1>1. CASE /\ Named(provider, type) # {}
           /\ \E v \in BuildImages(type, image) :
                \/ Validated(v) /\ Join(n, [type |-> type, image |-> v])
                \/ Rejected(v)
  <2>1. PICK v \in BuildImages(type, image) :
            \/ Validated(v) /\ Join(n, [type |-> type, image |-> v])
            \/ Rejected(v)
      BY <1>1
  <2>2. v \in Named(provider, type) /\ v \in Versions
      BY <1>1, BuiltImages DEF Inv, TypeOK
  <2>3. CASE Validated(v) /\ Join(n, [type |-> type, image |-> v])
    <3> DEFINE m == [type |-> type, image |-> v]
    <3>1. m \in [type: NodeTypes, image: Versions] /\ m.type = type /\ m.image = v
        BY <2>2
    <3>2. /\ moved # "lowered" => Minor(v) <= Minor(configured)
          /\ moved = "no" => Minor(v) \in (Minor(configured) - 2)..Minor(configured)
        BY <2>2, <2>3, ValidatedFits
    <3>3. Unused(n)
        BY DEF AddMachine
    <3>4. Join(n, m)
        BY <2>3
    <3> HIDE DEF m
    <3> QED BY <2>2, <3>1, <3>2, <3>3, <3>4, JoinKeeps
  <2>4. CASE Rejected(v)
    <3>1. Refused("error") \/ Refused("panic")
        BY <2>4 DEF Rejected
    <3> QED BY <3>1, RefusedKeeps
  <2> QED BY <2>1, <2>3, <2>4
<1>2. CASE Refused("panic") \/ Refused("error")
    BY <1>2, RefusedKeeps
<1> QED BY <1>1, <1>2 DEF AddMachine

LEMMA CloneMachineKeeps ==
    ASSUME Inv, NEW old \in Name, NEW n \in NewName,
           NEW image \in Versions \cup {NoImage}, CloneMachine(old, n, image)
    PROVE  Inv'
<1> DEFINE type == machines[old].type
           clone == IF image = NoImage THEN machines[old]
                    ELSE [type |-> type, image |-> image]
<1>1. /\ machines[old] \in [type: NodeTypes, image: Versions]
      /\ machines[old].image \in Named(provider, type)
    BY DEF CloneMachine, Unused, Inv, TypeOK, MachineOf
<1>2. CASE image = NoImage /\ Join(n, machines[old])
  <2>1. moved # "lowered" => Minor(machines[old].image) <= Minor(configured)
      BY DEF Inv, Ceiling
  <2>2. moved = "no" /\ machines[old].type \in Kubernetes =>
            Minor(machines[old].image) \in (Minor(configured) - 2)..Minor(configured)
      BY DEF Inv, Window
  <2>3. Unused(n)
      BY DEF CloneMachine
  <2> QED BY <1>1, <1>2, <2>1, <2>2, <2>3, JoinKeeps
<1>3. CASE /\ image # NoImage /\ image \in Named(provider, type)
           /\ Validated(image) /\ Join(n, clone)
  <2>1. image \in Versions
      BY <1>3
  <2>2. clone = [type |-> type, image |-> image]
      BY <1>3
  <2>3. /\ clone \in [type: NodeTypes, image: Versions]
        /\ clone.type = type /\ clone.image = image
      BY <1>1, <2>1, <2>2
  <2>4. /\ moved # "lowered" => Minor(image) <= Minor(configured)
        /\ moved = "no" => Minor(image) \in (Minor(configured) - 2)..Minor(configured)
      BY <1>3, <2>1, ValidatedFits
  <2>5. Unused(n)
      BY DEF CloneMachine
  <2>6. Join(n, clone) /\ image \in Named(provider, type)
      BY <1>3
  <2> HIDE DEF clone, type
  <2> QED BY <2>3, <2>4, <2>5, <2>6, JoinKeeps
<1>4. CASE Refused("error") \/ Refused("panic")
    BY <1>4, RefusedKeeps
<1>5. \/ image = NoImage /\ Join(n, machines[old])
      \/ /\ image # NoImage /\ image \in Named(provider, type)
         /\ Validated(image) /\ Join(n, clone)
      \/ Refused("error") \/ Refused("panic")
    BY DEF CloneMachine, CloneAccepted, Rejected
<1> QED BY <1>2, <1>3, <1>4, <1>5

LEMMA RemoveNodeKeeps ==
    ASSUME Inv, NEW n \in Name, RemoveNode(n)
    PROVE  Inv'
<1>1. /\ machines' = [machines EXCEPT ![n] = NoMachine]
      /\ nodes' = nodes \ {n}
      /\ server' = [server EXCEPT ![n] = NoKubelet]
      /\ UNCHANGED <<provider, kubeadm, configured, moved>>
      /\ result' = "ok"
    BY DEF RemoveNode, Ends
<1>2. /\ machines \in [Name -> MachineOf] /\ server \in [Name -> Versions]
      /\ configured \in Versions
    BY DEF Inv, TypeOK
<1>3. /\ machines'[n] = NoMachine /\ server'[n] = NoKubelet
      /\ \A x \in Name \ {n} : machines'[x] = machines[x] /\ server'[x] = server[x]
    BY <1>1, <1>2
<1>4. NoMachine.image = NoKubelet /\ NoMachine.type \notin Kubernetes
    BY DEF NoMachine, Kubernetes
<1>5. TypeOK'
  <2>1. machines' \in [Name -> MachineOf]
      BY <1>1, <1>2 DEF MachineOf
  <2>2. server' \in [Name -> Versions]
      BY <1>1, <1>2, VersionNumbers
  <2>3. \A x \in Name : machines'[x] # NoMachine =>
            machines'[x].image \in Named(provider, machines'[x].type)
      BY <1>3 DEF Inv, TypeOK
  <2>4. nodes' \subseteq {x \in Name : machines'[x].type \in Kubernetes}
      BY <1>1, <1>3 DEF Inv, TypeOK
  <2> QED BY <1>1, <2>1, <2>2, <2>3, <2>4 DEF Inv, TypeOK
<1>6. \A x \in APIServers' : x \in APIServers /\ x \in Name /\ server'[x] = server[x]
  <2>1. \A x \in APIServers' : x \in APIServers /\ x # n /\ x \in Name
      BY <1>1, <1>3 DEF APIServers, Inv, TypeOK
  <2> QED BY <1>3, <2>1
<1>7. Ceiling'
  <2>1. Minor(configured) \in Nat /\ Minor(NoKubelet) = 0
      BY <1>2, VersionNumbers
  <2>2. moved # "lowered" => \A x \in APIServers' : Minor(server'[x]) <= Minor(configured)
      BY <1>6 DEF Inv, Ceiling
  <2>3. moved # "lowered" => \A x \in Name : Minor(machines'[x].image) <= Minor(configured)
      BY <1>3, <1>4, <2>1 DEF Inv, Ceiling
  <2> QED BY <1>1, <2>2, <2>3 DEF Ceiling
<1>8. Window'
  <2>1. moved = "no" => \A x \in APIServers' : Minor(server'[x]) = Minor(configured)
      BY <1>6 DEF Inv, Window
  <2>2. moved = "no" => \A x \in Name : machines'[x].type \in Kubernetes =>
            Minor(machines'[x].image) \in (Minor(configured) - 2)..Minor(configured)
      BY <1>3, <1>4 DEF Inv, Window
  <2> QED BY <1>1, <2>1, <2>2 DEF Window
<1> QED BY <1>5, <1>7, <1>8 DEF Inv

\* A version of kubeadm is a version, and what an upgrade to it makes of the history.
LEMMA MovedFacts ==
    ASSUME Inv, NEW v \in Versions
    PROVE  /\ Moved(v) \in {"no", "raised", "lowered"}
           /\ Moved(v) # "lowered" => moved # "lowered" /\ Minor(v) >= Minor(configured)
           /\ Moved(v) = "no" => moved = "no" /\ Minor(v) = Minor(configured)
<1>1. Minor(v) \in Nat /\ Minor(configured) \in Nat
    BY VersionNumbers DEF Inv, TypeOK
<1> QED BY <1>1 DEF Moved, Inv, TypeOK

LEMMA UpgradeKeeps ==
    ASSUME Inv, NEW n \in Name, Upgrade(n)
    PROVE  Inv'
<1> DEFINE v == kubeadm[machines[n].image]
<1>1. CASE Refused("error")
    BY <1>1, RefusedKeeps
<1>2. CASE /\ n \in APIServers
           /\ server' = [server EXCEPT ![n] = v]
           /\ configured' = v
           /\ moved' = Moved(v)
           /\ Ends("ok")
           /\ UNCHANGED <<machines, nodes>>
  <2>1. v \in Versions /\ configured \in Versions /\ server \in [Name -> Versions]
    <3>1. machines[n].image \in Versions
        BY MachineFacts DEF Inv
    <3>2. kubeadm \in [Versions -> Versions]
        BY KubeadmsAssumption DEF Inv, TypeOK
    <3> QED BY <3>1, <3>2 DEF Inv, TypeOK
  <2>2. UNCHANGED <<machines, nodes, provider, kubeadm>> /\ result' = "ok"
      BY <1>2 DEF Ends
  <2>3. server'[n] = v /\ \A x \in Name \ {n} : server'[x] = server[x]
      BY <1>2, <2>1
  <2>4. Minor(v) \in Nat /\ Minor(configured) \in Nat
      BY <2>1, VersionNumbers
  <2>5. \A x \in APIServers : x \in Name
      BY DEF APIServers, Inv, TypeOK
  <2> HIDE DEF v
  <2>6. TypeOK'
    <3>1. server' \in [Name -> Versions] /\ configured' \in Versions
        BY <1>2, <2>1
    <3>2. moved' \in {"no", "raised", "lowered"}
        BY <1>2, <2>1, MovedFacts
    <3> QED BY <2>2, <3>1, <3>2 DEF Inv, TypeOK
  <2>7. Ceiling'
    <3> SUFFICES ASSUME moved' # "lowered"
                 PROVE  /\ \A x \in APIServers : Minor(server'[x]) <= Minor(v)
                        /\ \A x \in Name : Minor(machines[x].image) <= Minor(v)
        BY <1>2, <2>2 DEF Ceiling, APIServers
    <3>1. moved # "lowered" /\ Minor(v) >= Minor(configured)
        BY <1>2, <2>1, MovedFacts
    <3>2. \A x \in Name : Minor(machines[x].image) \in Nat
        BY MachineFacts, VersionNumbers DEF Inv
    <3>3. \A x \in Name : Minor(server[x]) \in Nat
        BY <2>1, VersionNumbers
    <3>4. \A x \in Name : Minor(machines[x].image) <= Minor(v)
        BY <2>4, <3>1, <3>2 DEF Inv, Ceiling
    <3>5. \A x \in APIServers : Minor(server'[x]) <= Minor(v)
        BY <2>3, <2>4, <2>5, <3>1, <3>3 DEF Inv, Ceiling
    <3> QED BY <3>4, <3>5
  <2>8. Window'
    <3> SUFFICES ASSUME moved' = "no"
                 PROVE  /\ \A x \in APIServers : Minor(server'[x]) = Minor(v)
                        /\ \A x \in Name : machines[x].type \in Kubernetes =>
                             Minor(machines[x].image) \in (Minor(v) - 2)..Minor(v)
        BY <1>2, <2>2 DEF Window, APIServers
    <3>1. moved = "no" /\ Minor(v) = Minor(configured)
        BY <1>2, <2>1, MovedFacts
    <3>2. \A x \in APIServers : Minor(server'[x]) = Minor(v)
        BY <2>3, <2>5, <3>1 DEF Inv, Window
    <3>3. \A x \in Name : machines[x].type \in Kubernetes =>
              Minor(machines[x].image) \in (Minor(v) - 2)..Minor(v)
        BY <3>1 DEF Inv, Window
    <3> QED BY <3>2, <3>3
  <2> QED BY <2>6, <2>7, <2>8 DEF Inv
<1> QED BY <1>1, <1>2 DEF Upgrade

-----------------------------------------------------------------------------
(* The initial states: a new cluster has one version, and masters and workers the *)
(* same images.                                                                   *)

LEMMA MastersAreWorkers ==
    \A p \in Providers : Named(p, "worker") = Named(p, "master")
<1> SUFFICES ASSUME NEW p \in Providers
             PROVE  MachineImages(p, "worker") = MachineImages(p, "master")
    BY DEF Named
<1>1. CASE p \in {"aws", "azure", "citycloud", "exoscale"}
    BY <1>1 DEF MachineImages
<1>2. CASE p = "safespring"
    BY <1>2 DEF MachineImages, SafespringImages
<1> QED BY <1>1, <1>2 DEF Providers

LEMMA FlavorFacts ==
    ASSUME NEW c \in Providers \X Flavors \X ClusterTypes
    PROVE  /\ FlavorNames(c) \subseteq MasterNames \cup WorkerNames \cup BalancerNames
           /\ c[1] # "safespring" => FlavorNames(c) \cap BalancerNames = {}
<1>0. c[1] \in Providers /\ c[2] \in {"dev", "prod"} /\ c[3] \in {"sc", "wc"}
    BY DEF Flavors, ClusterTypes
<1>1. \A f \in {"dev", "prod"}, t \in {"sc", "wc"} :
          Production(t) \subseteq MasterNames \cup WorkerNames
    BY DEF Production
<1>2. \A f \in {"dev", "prod"}, t \in {"sc", "wc"} :
          /\ AWSFlavor(f, t) \subseteq MasterNames \cup WorkerNames
          /\ AzureFlavor(f, t) \subseteq MasterNames \cup WorkerNames
          /\ CityCloudFlavor(f, t) \subseteq MasterNames \cup WorkerNames
          /\ ExoscaleFlavor(f, t) \subseteq MasterNames \cup WorkerNames
          /\ SafespringFlavor(f, t) \subseteq MasterNames \cup WorkerNames \cup BalancerNames
  <2> SUFFICES ASSUME NEW f \in {"dev", "prod"}, NEW t \in {"sc", "wc"}
               PROVE  /\ AWSFlavor(f, t) \subseteq MasterNames \cup WorkerNames
                      /\ AzureFlavor(f, t) \subseteq MasterNames \cup WorkerNames
                      /\ CityCloudFlavor(f, t) \subseteq MasterNames \cup WorkerNames
                      /\ ExoscaleFlavor(f, t) \subseteq MasterNames \cup WorkerNames
                      /\ SafespringFlavor(f, t) \subseteq
                             MasterNames \cup WorkerNames \cup BalancerNames
      OBVIOUS
  <2>0. {"master-0", "worker-0", "worker-1"} \subseteq MasterNames \cup WorkerNames
      BY DEF MasterNames, WorkerNames
  <2>1. AWSFlavor(f, t) \subseteq MasterNames \cup WorkerNames
      BY <1>1, <2>0 DEF AWSFlavor
  <2>2. AzureFlavor(f, t) \subseteq MasterNames \cup WorkerNames
      BY <1>1, <2>0 DEF AzureFlavor
  <2>3. CityCloudFlavor(f, t) \subseteq MasterNames \cup WorkerNames
      BY <1>1, <2>0 DEF CityCloudFlavor
  <2>4. ExoscaleFlavor(f, t) \subseteq MasterNames \cup WorkerNames
      BY <1>1, <2>0 DEF ExoscaleFlavor
  <2>5. SafespringFlavor(f, t) \subseteq MasterNames \cup WorkerNames \cup BalancerNames
      BY <1>1, <2>0 DEF SafespringFlavor
  <2> QED BY <2>1, <2>2, <2>3, <2>4, <2>5
<1>3. (MasterNames \cup WorkerNames) \cap BalancerNames = {}
    BY DEF MasterNames, WorkerNames, BalancerNames
<1>4. CASE c[1] = "safespring"
    BY <1>0, <1>2, <1>4 DEF FlavorNames
<1>5. CASE c[1] # "safespring"
  <2>1. FlavorNames(c) \subseteq MasterNames \cup WorkerNames
      BY <1>0, <1>2, <1>5 DEF FlavorNames, Providers
  <2> QED BY <1>3, <2>1
<1> QED BY <1>4, <1>5

LEMMA BuiltFacts ==
    ASSUME NEW c \in Providers \X Flavors \X ClusterTypes, NEW v \in Named(c[1], "master"),
           NEW n \in Name
    PROVE  \/ /\ n \in FlavorNames(c) \cap MasterNames
              /\ Built(c, v, n) = [type |-> "master", image |-> v]
           \/ /\ n \in FlavorNames(c) \cap WorkerNames /\ n \notin MasterNames
              /\ Built(c, v, n) = [type |-> "worker", image |-> v]
           \/ /\ n \in FlavorNames(c) \cap BalancerNames /\ n \notin MasterNames
              /\ Built(c, v, n) = [type |-> "loadbalancer", image |-> NoKubelet]
           \/ /\ n \notin FlavorNames(c)
              /\ Built(c, v, n) = NoMachine
<1>1. /\ MasterNames \cap WorkerNames = {} /\ MasterNames \cap BalancerNames = {}
      /\ WorkerNames \cap BalancerNames = {}
    BY DEF MasterNames, WorkerNames, BalancerNames
<1>2. FlavorNames(c) \subseteq MasterNames \cup WorkerNames \cup BalancerNames
    BY FlavorFacts
<1> QED BY <1>1, <1>2 DEF Built

LEMMA InitIsGood == Init => Inv
<1> SUFFICES ASSUME Init PROVE Inv
    OBVIOUS
<1>1. PICK c \in Choice : \E v \in Named(c[1], "master") :
          /\ provider = c[1] /\ kubeadm \in Kubeadms
          /\ machines = [n \in Name |-> Built(c, v, n)]
          /\ nodes = FlavorNames(c) \ BalancerNames
          /\ server = [n \in Name |-> IF n \in FlavorNames(c) \cap MasterNames
                                      THEN v ELSE NoKubelet]
          /\ configured = v
          /\ result = "none" /\ moved = "no"
    BY DEF Init
<1>2. PICK v \in Named(c[1], "master") :
          /\ provider = c[1] /\ kubeadm \in Kubeadms
          /\ machines = [n \in Name |-> Built(c, v, n)]
          /\ nodes = FlavorNames(c) \ BalancerNames
          /\ server = [n \in Name |-> IF n \in FlavorNames(c) \cap MasterNames
                                      THEN v ELSE NoKubelet]
          /\ configured = v
          /\ result = "none" /\ moved = "no"
    BY <1>1
<1>3. c \in Providers \X Flavors \X ClusterTypes /\ c[1] \in Providers
    BY ChoiceAssumption
<1>4. v \in Versions
    BY <1>3, ImageVersions DEF Named, NodeTypes
<1>5. /\ Minor(v) \in Nat /\ NoKubelet \in Versions /\ Minor(NoKubelet) = 0
    BY <1>4, VersionNumbers
<1>6. \A n \in Name :
          \/ /\ n \in FlavorNames(c) \cap MasterNames
             /\ machines[n] = [type |-> "master", image |-> v]
          \/ /\ n \in FlavorNames(c) \cap WorkerNames /\ n \notin MasterNames
             /\ machines[n] = [type |-> "worker", image |-> v]
          \/ /\ n \in FlavorNames(c) \cap BalancerNames /\ n \notin MasterNames
             /\ machines[n] = [type |-> "loadbalancer", image |-> NoKubelet]
          \/ n \notin FlavorNames(c) /\ machines[n] = NoMachine
    BY <1>2, <1>3, BuiltFacts
<1>7. TypeOK
  <2>1. machines \in [Name -> MachineOf]
    <3>1. \A n \in Name : machines[n] \in MachineOf
        BY <1>4, <1>5, <1>6 DEF MachineOf, NodeTypes
    <3> QED BY <1>2, <3>1
  <2>2. ASSUME NEW n \in Name, machines[n] # NoMachine
        PROVE  machines[n].image \in Named(provider, machines[n].type)
    <3>1. CASE machines[n] = [type |-> "master", image |-> v]
        BY <1>2, <3>1
    <3>2. CASE machines[n] = [type |-> "worker", image |-> v]
        BY <1>2, <1>3, <3>2, MastersAreWorkers
    <3>3. CASE /\ n \in FlavorNames(c) \cap BalancerNames
               /\ machines[n] = [type |-> "loadbalancer", image |-> NoKubelet]
      <4>1. provider = "safespring"
          BY <1>2, <1>3, <3>3, FlavorFacts
      <4>2. MachineImages(provider, "loadbalancer") = <<NoKubelet>>
          BY <4>1 DEF MachineImages, SafespringImages
      <4>3. 1 \in DOMAIN <<NoKubelet>> /\ <<NoKubelet>>[1] = NoKubelet
          OBVIOUS
      <4>4. NoKubelet \in Named(provider, "loadbalancer")
          BY <4>2, <4>3 DEF Named
      <4> QED BY <3>3, <4>4
    <3> QED BY <1>6, <2>2, <3>1, <3>2, <3>3
  <2>3. nodes \subseteq {n \in Name : machines[n].type \in Kubernetes}
    <3>1. ASSUME NEW n \in nodes
          PROVE  n \in Name /\ machines[n].type \in Kubernetes
      <4>1. n \in FlavorNames(c) /\ n \notin BalancerNames
          BY <1>2
      <4>2. n \in Name
          BY <1>3, <4>1, FlavorFacts DEF Name
      <4> QED BY <1>6, <4>1, <4>2 DEF Kubernetes
    <3> QED BY <3>1
  <2>4. server \in [Name -> Versions]
      BY <1>2, <1>4, <1>5
  <2> QED BY <1>2, <1>3, <1>4, <2>1, <2>2, <2>3, <2>4 DEF TypeOK
<1>8. ASSUME NEW m \in APIServers PROVE server[m] = v
  <2>1. m \in FlavorNames(c) /\ m \in Name /\ machines[m].type = "master"
      BY <1>2, <1>7 DEF APIServers, TypeOK
  <2>2. m \in MasterNames
      BY <1>6, <2>1
  <2> QED BY <1>2, <2>1, <2>2
<1>9. Ceiling
  <2>1. \A n \in Name : machines[n].image = v \/ machines[n].image = NoKubelet
      BY <1>6 DEF NoMachine
  <2>2. \A n \in Name : Minor(machines[n].image) <= Minor(configured)
      BY <1>2, <1>5, <2>1
  <2> QED BY <1>2, <1>5, <1>8, <2>2 DEF Ceiling
<1>10. Window
  <2>1. \A n \in Name : machines[n].type \in Kubernetes => machines[n].image = v
      BY <1>6 DEF Kubernetes, NoMachine
  <2> QED BY <1>2, <1>5, <1>8, <2>1 DEF Window
<1> QED BY <1>7, <1>9, <1>10 DEF Inv

-----------------------------------------------------------------------------
(* The specification. *)

LEMMA NextKeeps == Inv /\ [Next]_vars => Inv'
<1> SUFFICES ASSUME Inv, [Next]_vars PROVE Inv'
    OBVIOUS
<1>1. ASSUME NEW n \in NewName, NEW type \in NodeTypes, NEW image \in Versions \cup {NoImage},
             AddMachine(n, type, image)
      PROVE  Inv'
    BY <1>1, AddMachineKeeps
<1>2. ASSUME NEW old \in Name, NEW n \in NewName, NEW image \in Versions \cup {NoImage},
             CloneMachine(old, n, image)
      PROVE  Inv'
    BY <1>2, CloneMachineKeeps
<1>3. ASSUME NEW n \in Name, RemoveNode(n) PROVE Inv'
    BY <1>3, RemoveNodeKeeps
<1>4. ASSUME NEW n \in Name, Upgrade(n) PROVE Inv'
    BY <1>4, UpgradeKeeps
<1>5. CASE UNCHANGED vars
    BY <1>5 DEF vars, Inv, TypeOK, Ceiling, Window, APIServers
<1> QED BY <1>1, <1>2, <1>3, <1>4, <1>5 DEF Next

LEMMA InvHolds == Spec => []Inv
BY InitIsGood, NextKeeps, PTL DEF Spec

\* The machines of the configuration are of its provider, and nodes are machines that
\* kubeadm can join.
THEOREM VersionsTypeCorrect == Spec => []TypeOK
<1>1. Inv => TypeOK
    BY DEF Inv
<1> QED BY <1>1, InvHolds, PTL

\* validateMachine keeps the version skew policy on every path to a node, the clones it
\* does not see included, until an upgrade moves the control plane to another minor
\* version, whatever kubeadm the images bring.
THEOREM SkewPolicyHolds == Spec => []SkewPolicy
<1>1. ASSUME Inv, moved = "no", NEW n \in nodes, NEW m \in APIServers
      PROVE  SkewAllowed(server[m], machines[n].image)
  <2>1. n \in Name /\ machines[n].type \in Kubernetes
      BY <1>1 DEF Inv, TypeOK
  <2>2. Minor(server[m]) = Minor(configured)
      BY <1>1 DEF Inv, Window
  <2>3. Minor(machines[n].image) \in (Minor(configured) - 2)..Minor(configured)
      BY <1>1, <2>1 DEF Inv, Window
  <2> QED BY <2>2, <2>3 DEF SkewAllowed
<1>2. Inv => SkewPolicy
    BY <1>1 DEF SkewPolicy
<1> QED BY <1>2, InvHolds, PTL

\* No sequence of commands, upgrades to a newer kubeadm included, brings in a kubelet
\* newer than the version the control plane is configured for, until an upgrade lowers it.
THEOREM NeverNewer == Spec => []NodesNotNewer
<1>1. Inv => NodesNotNewer
    BY DEF Inv, TypeOK, Ceiling, NodesNotNewer
<1> QED BY <1>1, InvHolds, PTL

=============================================================================
