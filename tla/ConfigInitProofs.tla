---------------------------- MODULE ConfigInitProofs ----------------------------
(***************************************************************************)
(* Theorems about ConfigInit for every set of processes, every number of   *)
(* runs, and with or without failing tools, failing writes and kills.      *)
(***************************************************************************)
EXTENDS ConfigInit, TLAPS

\* Which part and which files the twelve positions stand for.
LEMMA Positions ==
    ASSUME NEW n \in Position
    PROVE  /\ FileAt(n) \in File
           /\ PartAt(n) = "key" => <<FileAt(n), PublicAt(n)>> \in KeyPairs
           /\ PublicAt(n) \in {"service public", "workload public"}
           /\ PartAt(n) # "key" => FileAt(n) \in {"sops", "backend", "config", "secrets", "tfvars"}
<1>1. \/ n = 1 \/ n = 2 \/ n = 3 \/ n = 4 \/ n = 5 \/ n = 6
      \/ n = 7 \/ n = 8 \/ n = 9 \/ n = 10 \/ n = 11 \/ n = 12
    BY DEF Position
<1>2. \A k \in 1..6 : Parts[k] = IF k = 1 THEN "sops" ELSE IF k = 2 THEN "key"
                                 ELSE IF k = 3 THEN "backend" ELSE IF k = 4 THEN "config"
                                 ELSE IF k = 5 THEN "secrets" ELSE "tfvars"
    BY DEF Parts
<1>3. Cluster[1] = "service" /\ Cluster[2] = "workload"
    BY DEF Cluster
<1>4. PartAt(n) = IF n \in {1, 7} THEN "sops" ELSE IF n \in {2, 8} THEN "key"
                  ELSE IF n \in {3, 9} THEN "backend" ELSE IF n \in {4, 10} THEN "config"
                  ELSE IF n \in {5, 11} THEN "secrets" ELSE "tfvars"
    BY <1>1, <1>2 DEF PartAt
<1>5. ClusterAt(n) = IF n <= 6 THEN "service" ELSE "workload"
    BY <1>1, <1>3 DEF ClusterAt
<1>6. PublicAt(n) = IF n <= 6 THEN "service public" ELSE "workload public"
    BY <1>5 DEF PublicAt
<1>7. PartAt(n) # "key" => FileAt(n) = PartAt(n)
    BY DEF FileAt
<1>8. PartAt(n) = "key" => FileAt(n) = PrivateAt(n)
    BY DEF FileAt
<1>9. PrivateAt(n) = IF n <= 6 THEN "service private" ELSE "workload private"
    BY <1>5 DEF PrivateAt
<1>10. PartAt(n) # "key" => FileAt(n) \in {"sops", "backend", "config", "secrets", "tfvars"}
    BY <1>4, <1>7
<1>11. PartAt(n) = "key" => <<FileAt(n), PublicAt(n)>> \in KeyPairs
    BY <1>1, <1>4, <1>6, <1>8, <1>9 DEF KeyPairs
<1>12. FileAt(n) \in File
    BY <1>1, <1>4, <1>8, <1>9, <1>10 DEF File
<1> QED BY <1>6, <1>10, <1>11, <1>12

\* A private key is no public key, a public key has one private key, and neither is
\* one of the files that both clusters share.
LEMMA KeyFiles ==
    /\ \A c, d \in KeyPairs :
           /\ c[1] # d[2]
           /\ c[1] = d[1] \/ c[2] = d[2] => c = d
           /\ c[1] \in File /\ c[2] \in File
           /\ c[1] \in {"service private", "workload private"}
           /\ c[1] \notin {"sops", "backend", "config", "secrets", "tfvars"}
           /\ c[2] \notin {"sops", "backend", "config", "secrets", "tfvars"}
    /\ \A n \in Position : /\ \E c \in KeyPairs : c[1] = PrivateAt(n) /\ c[2] = PublicAt(n)
                           /\ PartAt(n) = "key" => FileAt(n) = PrivateAt(n)
                           /\ PartAt(n) # "key" => \A c \in KeyPairs : FileAt(n) \notin {c[1], c[2]}
<1>1. ASSUME NEW c \in KeyPairs, NEW d \in KeyPairs
      PROVE  /\ c[1] # d[2]
             /\ c[1] = d[1] \/ c[2] = d[2] => c = d
             /\ c[1] \in File /\ c[2] \in File
             /\ c[1] \in {"service private", "workload private"}
             /\ c[1] \notin {"sops", "backend", "config", "secrets", "tfvars"}
             /\ c[2] \notin {"sops", "backend", "config", "secrets", "tfvars"}
  <2>1. ASSUME NEW e \in KeyPairs
        PROVE  \/ e = <<"service private", "service public">>
                  /\ e[1] = "service private" /\ e[2] = "service public"
               \/ e = <<"workload private", "workload public">>
                  /\ e[1] = "workload private" /\ e[2] = "workload public"
    <3>1. CASE e = <<"service private", "service public">>
        BY <3>1
    <3>2. CASE e = <<"workload private", "workload public">>
        BY <3>2
    <3> QED BY <3>1, <3>2 DEF KeyPairs
  <2>2. CASE c[1] = "service private" /\ d[1] = "service private"
      BY <2>1, <2>2 DEF File
  <2>3. CASE c[1] = "service private" /\ d[1] = "workload private"
      BY <2>1, <2>3 DEF File
  <2>4. CASE c[1] = "workload private" /\ d[1] = "service private"
      BY <2>1, <2>4 DEF File
  <2>5. CASE c[1] = "workload private" /\ d[1] = "workload private"
      BY <2>1, <2>5 DEF File
  <2> QED BY <2>1, <2>2, <2>3, <2>4, <2>5
<1>2. ASSUME NEW n \in Position
      PROVE  /\ \E c \in KeyPairs : c[1] = PrivateAt(n) /\ c[2] = PublicAt(n)
             /\ PartAt(n) = "key" => FileAt(n) = PrivateAt(n)
             /\ PartAt(n) # "key" => \A c \in KeyPairs : FileAt(n) \notin {c[1], c[2]}
  <2>1. <<PrivateAt(n), PublicAt(n)>> \in KeyPairs
      BY DEF KeyPairs, PrivateAt, PublicAt
  <2>2. PartAt(n) = "key" => FileAt(n) = PrivateAt(n)
      BY DEF FileAt
  <2>3. PartAt(n) # "key" => \A c \in KeyPairs : FileAt(n) \notin {c[1], c[2]}
      BY <1>1, Positions
  <2> QED BY <2>1, <2>2, <2>3
<1> QED BY <1>1, <1>2

\* The two files of a part are different ones, and those of another key pair others.
LEMMA PartFiles ==
    ASSUME NEW n \in Position
    PROVE  /\ FileAt(n) \in File /\ PublicAt(n) \in File
           /\ FileAt(n) # PublicAt(n)
           /\ PartAt(n) = "key" => \E c \in KeyPairs : c[1] = FileAt(n) /\ c[2] = PublicAt(n)
           /\ PartAt(n) = "key" => \A m \in Position : FileAt(n) # PublicAt(m)
           /\ PartAt(n) # "key" => \A m \in Position : PartAt(m) = "key" =>
                  FileAt(n) \notin {FileAt(m), PublicAt(m)}
           /\ \A m \in Position : PartAt(n) = "key" /\ PartAt(m) = "key" =>
                  (FileAt(m) = FileAt(n) <=> PublicAt(m) = PublicAt(n))
<1>1. PublicAt(n) \in File /\ FileAt(n) \in File
    BY Positions DEF File
<1>2. \A m \in Position : PartAt(m) = "key" =>
          \E c \in KeyPairs : c[1] = FileAt(m) /\ c[2] = PublicAt(m)
    BY KeyFiles
<1>3. \A m \in Position : \E c \in KeyPairs : c[2] = PublicAt(m)
    BY KeyFiles
<1>4. PartAt(n) # "key" => \A c \in KeyPairs : FileAt(n) \notin {c[1], c[2]}
    BY KeyFiles
<1>5. PartAt(n) = "key" => \A m \in Position : FileAt(n) # PublicAt(m)
  <2> SUFFICES ASSUME PartAt(n) = "key", NEW m \in Position PROVE FileAt(n) # PublicAt(m)
      OBVIOUS
  <2>1. PICK c \in KeyPairs : c[1] = FileAt(n)
      BY <1>2
  <2>2. PICK d \in KeyPairs : d[2] = PublicAt(m)
      BY <1>3
  <2>3. c[1] # d[2]
      BY KeyFiles
  <2> QED BY <2>1, <2>2, <2>3
<1>6. PartAt(n) # "key" => \A m \in Position : FileAt(n) # PublicAt(m)
    BY <1>3, <1>4
<1>7. \A m \in Position : PartAt(n) = "key" /\ PartAt(m) = "key" =>
          (FileAt(m) = FileAt(n) <=> PublicAt(m) = PublicAt(n))
  <2> SUFFICES ASSUME NEW m \in Position, PartAt(n) = "key", PartAt(m) = "key"
               PROVE  FileAt(m) = FileAt(n) <=> PublicAt(m) = PublicAt(n)
      OBVIOUS
  <2>1. PICK c \in KeyPairs : c[1] = FileAt(n) /\ c[2] = PublicAt(n)
      BY <1>2
  <2>2. PICK d \in KeyPairs : d[1] = FileAt(m) /\ d[2] = PublicAt(m)
      BY <1>2
  <2>3. c[1] = d[1] \/ c[2] = d[2] => c = d
      BY KeyFiles
  <2> QED BY <2>1, <2>2, <2>3
<1>8. PartAt(n) # "key" => \A m \in Position : PartAt(m) = "key" =>
          FileAt(n) \notin {FileAt(m), PublicAt(m)}
    BY <1>2, <1>4
<1> QED BY <1>1, <1>2, <1>5, <1>6, <1>7, <1>8

-----------------------------------------------------------------------------
(* Type correctness. *)

ControlTypeOK ==
    /\ at \in [Process -> Position]
    /\ stage \in [Process -> Stages]
    /\ id \in [Process -> 0..MaxInits]
    /\ result \in [Process -> {"none", "ok", "failed"}]
    /\ before \in [Process -> SUBSET File]
    /\ runs \in 0..MaxInits

FileTypeOK ==
    /\ file \in [File -> {"absent", "empty", "complete"}]
    /\ writer \in [File -> 0..MaxInits]
    /\ lost \subseteq File

\* Going on within a part keeps the types, if the part has what comes next.
LEMMA GotoType ==
    ASSUME ControlTypeOK, \A q \in Process : StageFits(q),
           NEW p \in Process, NEW s \in Stages, Goto(p, s),
           s \in {"checkPublic", "openPublic", "writePublic"} => PartAt(at[p]) = "key",
           s = "encrypt" => PartAt(at[p]) \in {"key", "secrets"}
    PROVE  ControlTypeOK' /\ \A q \in Process : StageFits(q)'
BY DEF ControlTypeOK, Goto, StageFits

\* A process that ends has a result.
LEMMA ReturnType ==
    ASSUME ControlTypeOK, \A q \in Process : StageFits(q),
           NEW p \in Process, NEW r \in {"ok", "failed"}, Return(p, r)
    PROVE  ControlTypeOK' /\ \A q \in Process : StageFits(q)'
<1>1. 1 \in Position /\ 0 \in 0..MaxInits /\ "idle" \in Stages
    BY MaxInitsAssumption DEF Position, Stages
<1>2. ControlTypeOK'
    BY <1>1 DEF ControlTypeOK, Return
<1>3. stage'[p] = "idle" /\ \A q \in Process : q # p => stage'[q] = stage[q] /\ at'[q] = at[q]
    BY DEF ControlTypeOK, Return
<1> QED BY <1>2, <1>3 DEF StageFits

\* The position moves on while there is a part left.
LEMMA AdvanceType ==
    ASSUME ControlTypeOK, \A q \in Process : StageFits(q), NEW p \in Process, Advance(p)
    PROVE  ControlTypeOK' /\ \A q \in Process : StageFits(q)'
<1>1. CASE at[p] = 12
    BY <1>1, ReturnType DEF Advance
<1>2. CASE at[p] # 12
  <2>1. at[p] + 1 \in Position
      BY <1>2 DEF ControlTypeOK, Position
  <2>2. stage'[p] = "check" /\ \A q \in Process : q # p => stage'[q] = stage[q] /\ at'[q] = at[q]
      BY <1>2 DEF Advance, ControlTypeOK
  <2>3. ControlTypeOK'
      BY <1>2, <2>1 DEF Advance, ControlTypeOK, Stages
  <2> QED BY <2>2, <2>3 DEF StageFits
<1> QED BY <1>1, <1>2

\* Truncating and completing a file of the configuration keep the types.
LEMMA FileTypes ==
    ASSUME ControlTypeOK, FileTypeOK, NEW p \in Process, NEW f \in File,
           Truncate(p, f) \/ Complete(f)
    PROVE  FileTypeOK'
BY DEF ControlTypeOK, FileTypeOK, Truncate, Complete

LEMMA FailType ==
    ASSUME ControlTypeOK, FileTypeOK, \A q \in Process : StageFits(q), NEW p \in Process, Fail(p)
    PROVE  ControlTypeOK' /\ FileTypeOK' /\ \A q \in Process : StageFits(q)'
BY ReturnType DEF Fail, FileTypeOK, Unfinished

\* TypeOK is inductive.
LEMMA NextType == TypeOK /\ [Next]_vars => TypeOK'
<1> SUFFICES ASSUME TypeOK, [Next]_vars
             PROVE  ControlTypeOK' /\ FileTypeOK' /\ \A q \in Process : StageFits(q)'
    BY DEF TypeOK, ControlTypeOK, FileTypeOK
<1> ControlTypeOK /\ FileTypeOK /\ \A q \in Process : StageFits(q)
    BY DEF TypeOK, ControlTypeOK, FileTypeOK
<1>kept. ASSUME UNCHANGED files PROVE FileTypeOK'
    BY <1>kept DEF files, FileTypeOK
<1>1. ASSUME NEW p \in Process, Start(p)
      PROVE ControlTypeOK' /\ FileTypeOK' /\ \A q \in Process : StageFits(q)'
  <2>1. runs + 1 \in 0..MaxInits
      BY <1>1, MaxInitsAssumption DEF Start, ControlTypeOK
  <2>2. stage'[p] = "check" /\ \A q \in Process : q # p => stage'[q] = stage[q] /\ at'[q] = at[q]
      BY <1>1 DEF Start, ControlTypeOK
  <2>3. {f \in File : file[f] # "absent"} \in SUBSET File
      OBVIOUS
  <2>4. ControlTypeOK'
      BY <1>1, <2>1, <2>3 DEF Start, ControlTypeOK, Stages, Position
  <2> QED BY <1>1, <2>2, <2>4, <1>kept DEF Start, StageFits
<1>2. ASSUME NEW p \in Process, Step(p)
      PROVE ControlTypeOK' /\ FileTypeOK' /\ \A q \in Process : StageFits(q)'
  <2> at[p] \in Position
      BY DEF ControlTypeOK
  <2>1. FileAt(at[p]) \in File /\ PublicAt(at[p]) \in File
      BY Positions DEF File
  <2>2. CASE Check(p)
    <3>1. AfterCheck(p) \in Stages
        BY DEF AfterCheck, Stages
    <3>2. CASE Goto(p, AfterCheck(p)) /\ UNCHANGED files
        BY <3>1, <3>2, <1>kept, GotoType DEF AfterCheck
    <3> QED BY <2>2, <3>2, <1>kept, AdvanceType, FailType DEF Check
  <2>3. CASE CheckPublic(p) \/ Encrypt(p)
      BY <2>3, <1>kept, GotoType, AdvanceType, FailType
         DEF CheckPublic, Encrypt, Stages, StageFits
  <2>4. CASE Open(p)
      BY <2>1, <2>4, FileTypes, GotoType, FailType DEF Open, Stages
  <2>5. CASE Write(p)
      BY <2>1, <2>5, FileTypes, GotoType, AdvanceType, FailType DEF Write, Stages
  <2>6. CASE OpenPublic(p) \/ WritePublic(p)
      BY <2>1, <2>6, FileTypes, GotoType, AdvanceType, FailType
         DEF OpenPublic, WritePublic, Stages, StageFits
  <2> QED BY <1>2, <2>2, <2>3, <2>4, <2>5, <2>6 DEF Step
<1>3. ASSUME NEW p \in Process, Kill(p)
      PROVE ControlTypeOK' /\ FileTypeOK' /\ \A q \in Process : StageFits(q)'
    BY <1>3, FailType DEF Kill
<1>4. CASE UNCHANGED vars
    BY <1>4 DEF vars, ControlTypeOK, FileTypeOK, StageFits
<1> QED BY <1>1, <1>2, <1>3, <1>4 DEF Next, Finished

LEMMA TypeInit == Init => TypeOK
BY MaxInitsAssumption DEF Init, TypeOK, Position, Stages, StageFits

\* Files and processes of init are always in states the code can produce; in particular a
\* process never goes through the steps of a key pair at any other part.
THEOREM InitTypeCorrect == Spec => []TypeOK
BY TypeInit, NextType, PTL DEF Spec

-----------------------------------------------------------------------------
(* What a step of one process does to the files and to the other processes. *)

\* The process goes on within the part.
Stays(p, s) ==
    /\ stage'[p] = s /\ at'[p] = at[p] /\ id'[p] = id[p] /\ before'[p] = before[p]
    /\ result'[p] = result[p]

\* It leaves the part: to the next one, or out of init.
Leaves(p) ==
    \/ /\ stage'[p] = "check" /\ at[p] # 12 /\ at'[p] = at[p] + 1
       /\ before'[p] = before[p] /\ result'[p] = result[p]
    \/ stage'[p] = "idle" /\ at[p] = 12 /\ before'[p] = {} /\ result'[p] = "ok"

Written(f) ==
    /\ file'[f] = "complete"
    /\ \A g \in File : g # f => file'[g] = file[g]
    /\ UNCHANGED <<writer, lost>>

Opened(p, f) ==
    /\ file'[f] = "empty" /\ writer'[f] = id[p]
    /\ \A g \in File : g # f => file'[g] = file[g] /\ writer'[g] = writer[g]
    /\ UNCHANGED lost

\* The ten kinds of step.
Kinds(p) ==
    LET n == at[p]
    IN \/ /\ stage[p] = "idle" /\ stage'[p] = "check" /\ at'[p] = 1 /\ result'[p] = "none"
          /\ before'[p] = {f \in File : file[f] # "absent"} /\ UNCHANGED files
       \/ /\ stage'[p] = "idle" /\ before'[p] = {} /\ result'[p] = "failed"
          /\ lost' = lost \cup Unfinished(p) /\ UNCHANGED <<file, writer>>
       \/ /\ stage[p] = "check" /\ file[FileAt(n)] # "absent" /\ Leaves(p) /\ UNCHANGED files
       \/ /\ stage[p] = "check" /\ file[FileAt(n)] = "absent" /\ UNCHANGED files
          /\ stage'[p] \in {"checkPublic", "encrypt", "open"} /\ Stays(p, stage'[p])
       \/ /\ stage[p] = "checkPublic" /\ file[PublicAt(n)] # "absent" /\ PartAt(n) = "key"
          /\ Leaves(p) /\ UNCHANGED files
       \/ /\ stage[p] \in {"checkPublic", "encrypt"} /\ stage'[p] \in {"encrypt", "open"}
          /\ Stays(p, stage'[p]) /\ UNCHANGED files
       \/ /\ stage[p] = "open" /\ Stays(p, "write") /\ Opened(p, FileAt(n)) /\ ~ReadOnly(FileAt(n))
       \/ /\ stage[p] = "write" /\ Written(FileAt(n))
          /\ \/ PartAt(n) = "key" /\ Stays(p, "openPublic")
             \/ PartAt(n) # "key" /\ Leaves(p)
       \/ /\ stage[p] = "openPublic" /\ PartAt(n) = "key"
          /\ Stays(p, "writePublic") /\ Opened(p, PublicAt(n))
       \/ /\ stage[p] = "writePublic" /\ PartAt(n) = "key" /\ Leaves(p) /\ Written(PublicAt(n))

Others(p) ==
    \A q \in Process \ {p} : /\ stage'[q] = stage[q] /\ at'[q] = at[q] /\ id'[q] = id[q]
                             /\ before'[q] = before[q] /\ result'[q] = result[q]

LEMMA FailKind ==
    ASSUME TypeOK, NEW p \in Process, Fail(p)
    PROVE  /\ stage'[p] = "idle" /\ before'[p] = {} /\ result'[p] = "failed"
           /\ lost' = lost \cup Unfinished(p) /\ UNCHANGED <<file, writer>> /\ Others(p)
BY DEF TypeOK, Fail, Return, Others

LEMMA AdvanceKind ==
    ASSUME TypeOK, NEW p \in Process, Advance(p)
    PROVE  Leaves(p) /\ Others(p)
<1>1. CASE at[p] = 12
    BY <1>1 DEF TypeOK, Advance, Return, Leaves, Others
<1>2. CASE at[p] # 12
    BY <1>2 DEF TypeOK, Advance, Leaves, Others
<1> QED BY <1>1, <1>2

LEMMA GotoKind ==
    ASSUME TypeOK, NEW p \in Process, NEW s, Goto(p, s)
    PROVE  Stays(p, s) /\ Others(p)
BY DEF TypeOK, Goto, Stays, Others

LEMMA FileKinds ==
    ASSUME TypeOK, NEW p \in Process, NEW f \in File
    PROVE  /\ Complete(f) => Written(f)
           /\ Truncate(p, f) => Opened(p, f)
BY DEF TypeOK, Complete, Truncate, Written, Opened

LEMMA StepKinds ==
    ASSUME TypeOK, NEW p \in Process, Start(p) \/ Step(p) \/ Kill(p)
    PROVE  Kinds(p) /\ Others(p)
<1> /\ at[p] \in Position /\ StageFits(p)
    /\ FileAt(at[p]) \in File /\ PublicAt(at[p]) \in File
    BY Positions DEF TypeOK, File
<1>1. CASE Start(p)
    BY <1>1 DEF Start, TypeOK, Kinds, Others
<1>2. CASE Kill(p)
    BY <1>2, FailKind DEF Kill, Kinds
<1>3. CASE Check(p)
  <2>1. AfterCheck(p) \in {"checkPublic", "encrypt", "open"}
      BY DEF AfterCheck
  <2>2. CASE Goto(p, AfterCheck(p)) /\ UNCHANGED files /\ ~Exists(FileAt(at[p]))
    <3>1. Stays(p, AfterCheck(p)) /\ Others(p)
        BY <2>2, GotoKind
    <3> QED BY <1>3, <2>1, <2>2, <3>1 DEF Check, Exists, Stays, Kinds
  <2> QED BY <1>3, <2>2, FailKind, AdvanceKind DEF Check, Exists, Kinds
<1>4. CASE CheckPublic(p)
  <2>1. CASE Goto(p, "encrypt") /\ UNCHANGED files
    <3>1. Stays(p, "encrypt") /\ Others(p)
        BY <2>1, GotoKind
    <3> QED BY <1>4, <2>1, <3>1 DEF CheckPublic, Stays, Kinds
  <2> QED BY <1>4, <2>1, FailKind, AdvanceKind DEF CheckPublic, Exists, Kinds, StageFits
<1>5. CASE Encrypt(p)
  <2>1. CASE Goto(p, "open") /\ UNCHANGED files
    <3>1. Stays(p, "open") /\ Others(p)
        BY <2>1, GotoKind
    <3> QED BY <1>5, <2>1, <3>1 DEF Encrypt, Stays, Kinds
  <2> QED BY <1>5, <2>1, FailKind DEF Encrypt, Kinds
<1>6. CASE Open(p)
    BY <1>6, FailKind, GotoKind, FileKinds DEF Open, Kinds
<1>7. CASE Write(p)
    BY <1>7, FailKind, GotoKind, AdvanceKind, FileKinds DEF Write, Kinds
<1>8. CASE OpenPublic(p)
    BY <1>8, FailKind, GotoKind, FileKinds DEF OpenPublic, Kinds, StageFits
<1>9. CASE WritePublic(p)
    BY <1>9, FailKind, AdvanceKind, FileKinds DEF WritePublic, Kinds, StageFits
<1> QED BY <1>1, <1>2, <1>3, <1>4, <1>5, <1>6, <1>7, <1>8, <1>9 DEF Step

\* Files do not vanish.
LEMMA NothingVanishes ==
    ASSUME TypeOK, NEW p \in Process, Kinds(p), NEW f \in File, file[f] # "absent"
    PROVE  file'[f] # "absent"
BY Positions DEF Kinds, files, Opened, Written, TypeOK, File

-----------------------------------------------------------------------------
(* The order in which files come to be: a process that writes a part has found its     *)
(* file missing, so it was missing when the run began; and no public key is there      *)
(* before its private key.                                                             *)

Working == {"checkPublic", "encrypt", "open", "write", "openPublic", "writePublic"}
Writing == {"write", "openPublic", "writePublic"}

Begun(p) ==
    /\ stage[p] \in Writing => file[FileAt(at[p])] # "absent"
    /\ before[p] \subseteq {f \in File : file[f] # "absent"}
    /\ stage[p] \in Working => FileAt(at[p]) \notin before[p]
    /\ \A c \in KeyPairs : c[2] \in before[p] => c[1] \in before[p]
    /\ stage[p] # "idle" => \A n \in Position : n < at[p] => file[FileAt(n)] # "absent"

PairOrdered(c) == file[c[2]] # "absent" => file[c[1]] # "absent"

OrderInv ==
    /\ TypeOK
    /\ \A p \in Process : Begun(p)
    /\ \A c \in KeyPairs : PairOrdered(c)

\* A process that leaves a part has its file behind it.
LEMMA LeavesKeepsOrder ==
    ASSUME OrderInv, NEW p \in Process, Kinds(p), Leaves(p), stage[p] # "idle",
           file'[FileAt(at[p])] # "absent"
    PROVE  Begun(p)'
<1> TypeOK /\ Begun(p) /\ at[p] \in Position
    BY DEF OrderInv, TypeOK
<1>1. \A n \in Position : n < at[p] => file'[FileAt(n)] # "absent"
    BY NothingVanishes, Positions DEF Begun
<1>2. CASE stage'[p] = "idle" /\ before'[p] = {}
    BY <1>2 DEF Begun, Working, Writing
<1>3. CASE stage'[p] = "check" /\ at'[p] = at[p] + 1 /\ before'[p] = before[p]
  <2>1. \A n \in Position : n < at'[p] => file'[FileAt(n)] # "absent"
    <3> SUFFICES ASSUME NEW n \in Position, n < at'[p] PROVE file'[FileAt(n)] # "absent"
        OBVIOUS
    <3>1. n < at[p] \/ n = at[p]
        BY <1>3 DEF Position
    <3> QED BY <1>1, <3>1
  <2>2. before'[p] \subseteq {f \in File : file'[f] # "absent"}
      BY <1>3, NothingVanishes DEF Begun
  <2> QED BY <1>3, <2>1, <2>2 DEF Begun, Working, Writing
<1> QED BY <1>2, <1>3 DEF Leaves

\* A process that goes on within a part.
LEMMA StaysKeepsOrder ==
    ASSUME OrderInv, NEW p \in Process, Kinds(p), Stays(p, stage'[p]), stage[p] # "idle",
           stage'[p] \in Writing => file'[FileAt(at[p])] # "absent",
           stage'[p] \in Working => FileAt(at[p]) \notin before[p]
    PROVE  Begun(p)'
<1> TypeOK /\ Begun(p) /\ at[p] \in Position
    BY DEF OrderInv, TypeOK
<1>1. \A n \in Position : n < at[p] => file'[FileAt(n)] # "absent"
    BY NothingVanishes, Positions DEF Begun
<1>2. before[p] \subseteq {f \in File : file'[f] # "absent"}
    BY NothingVanishes DEF Begun
<1> QED BY <1>1, <1>2 DEF Stays, Begun

LEMMA OrderStep ==
    ASSUME OrderInv, NEW p \in Process, Kinds(p), Others(p)
    PROVE  (\A q \in Process : Begun(q)') /\ (\A c \in KeyPairs : PairOrdered(c)')
<1> DEFINE n == at[p]
<1> TypeOK /\ Begun(p) /\ n \in Position /\ FileAt(n) \in File /\ PublicAt(n) \in File
    BY PartFiles DEF OrderInv, TypeOK
<1>1. ASSUME NEW q \in Process, q # p PROVE Begun(q)'
  <2>1. /\ stage'[q] = stage[q] /\ at'[q] = at[q] /\ before'[q] = before[q] /\ Begun(q)
        /\ at[q] \in Position
      BY <1>1 DEF Others, OrderInv, TypeOK
  <2>2. stage[q] \in Writing => file'[FileAt(at[q])] # "absent"
      BY <2>1, NothingVanishes, Positions DEF Begun
  <2>3. before[q] \subseteq {f \in File : file'[f] # "absent"}
      BY <2>1, NothingVanishes DEF Begun
  <2>4. stage[q] # "idle" => \A m \in Position : m < at[q] => file'[FileAt(m)] # "absent"
      BY <2>1, NothingVanishes, Positions DEF Begun
  <2> QED BY <2>1, <2>2, <2>3, <2>4 DEF Begun
<1>2. Begun(p)'
  <2>1. CASE /\ stage[p] = "idle" /\ stage'[p] = "check" /\ at'[p] = 1
             /\ before'[p] = {f \in File : file[f] # "absent"} /\ UNCHANGED files
    <3>1. \A c \in KeyPairs : c[2] \in before'[p] => c[1] \in before'[p]
        BY <2>1, KeyFiles DEF OrderInv, PairOrdered
    <3>2. \A m \in Position : ~(m < at'[p])
        BY <2>1 DEF Position
    <3> QED BY <2>1, <3>1, <3>2 DEF Begun, Working, Writing, files
  <2>2. CASE stage'[p] = "idle" /\ before'[p] = {}
      BY <2>2 DEF Begun, Working, Writing
  <2>3. CASE stage[p] = "check" /\ file[FileAt(n)] # "absent" /\ Leaves(p)
      BY <2>3, LeavesKeepsOrder, NothingVanishes
  <2>4. CASE /\ stage[p] = "check" /\ file[FileAt(n)] = "absent"
             /\ stage'[p] \in {"checkPublic", "encrypt", "open"} /\ Stays(p, stage'[p])
      BY <2>4, StaysKeepsOrder DEF Begun, Writing
  <2>5. CASE /\ stage[p] = "checkPublic" /\ file[PublicAt(n)] # "absent" /\ PartAt(n) = "key"
             /\ Leaves(p)
    <3>1. PICK c \in KeyPairs : c[1] = FileAt(n) /\ c[2] = PublicAt(n)
        BY <2>5, PartFiles
    <3>2. file[FileAt(n)] # "absent"
        BY <2>5, <3>1 DEF OrderInv, PairOrdered
    <3> QED BY <2>5, <3>2, LeavesKeepsOrder, NothingVanishes
  <2>6. CASE /\ stage[p] \in {"checkPublic", "encrypt"} /\ stage'[p] \in {"encrypt", "open"}
             /\ Stays(p, stage'[p])
      BY <2>6, StaysKeepsOrder DEF Begun, Working, Writing
  <2>7. CASE stage[p] = "open" /\ Stays(p, "write") /\ Opened(p, FileAt(n))
      BY <2>7, StaysKeepsOrder DEF Begun, Working, Stays, Opened
  <2>8. CASE stage[p] = "write" /\ Written(FileAt(n)) /\ (Stays(p, "openPublic") \/ Leaves(p))
      BY <2>8, StaysKeepsOrder, LeavesKeepsOrder DEF Begun, Working, Stays, Written
  <2>9. CASE stage[p] = "openPublic" /\ Stays(p, "writePublic")
      BY <2>9, StaysKeepsOrder, NothingVanishes DEF Begun, Working, Writing, Stays
  <2>10. CASE stage[p] = "writePublic" /\ Leaves(p)
      BY <2>10, LeavesKeepsOrder, NothingVanishes DEF Begun, Writing
  <2> QED BY <2>1, <2>2, <2>3, <2>4, <2>5, <2>6, <2>7, <2>8, <2>9, <2>10 DEF Kinds
<1>3. ASSUME NEW c \in KeyPairs PROVE PairOrdered(c)'
  <2>1. c[1] \in File /\ c[2] \in File
      BY KeyFiles
  <2>2. file[c[1]] # "absent" => PairOrdered(c)'
      BY <2>1, NothingVanishes DEF PairOrdered
  <2>3. CASE file[c[2]] = "absent" /\ file'[c[2]] # "absent"
    <3>1. \/ stage[p] \in {"open", "write"} /\ c[2] = FileAt(n)
          \/ stage[p] \in {"openPublic", "writePublic"} /\ c[2] = PublicAt(n) /\ PartAt(n) = "key"
        BY <2>1, <2>3 DEF Kinds, files, Opened, Written
    <3>2. c[2] # FileAt(n)
      <4>1. CASE PartAt(n) = "key"
        <5>1. PICK d \in KeyPairs : d[1] = FileAt(n)
            BY <4>1, PartFiles
        <5> QED BY <5>1, KeyFiles
      <4>2. CASE PartAt(n) # "key"
          BY <4>2, KeyFiles
      <4> QED BY <4>1, <4>2
    <3>3. PICK d \in KeyPairs : d[1] = FileAt(n) /\ d[2] = PublicAt(n)
        BY <3>1, <3>2, PartFiles
    <3>4. d = c
        BY <3>1, <3>2, <3>3, KeyFiles
    <3>5. file[c[1]] # "absent"
        BY <3>1, <3>2, <3>3, <3>4 DEF Begun, Writing
    <3> QED BY <2>2, <3>5
  <2> QED BY <2>2, <2>3 DEF OrderInv, PairOrdered
<1> QED BY <1>1, <1>2, <1>3

LEMMA OrderNext == OrderInv /\ [Next]_vars => OrderInv'
<1> SUFFICES ASSUME OrderInv, [Next]_vars PROVE OrderInv'
    OBVIOUS
<1> TypeOK /\ TypeOK'
    BY NextType DEF OrderInv
<1>1. ASSUME NEW p \in Process, Start(p) \/ Step(p) \/ Kill(p) PROVE OrderInv'
    BY <1>1, StepKinds, OrderStep DEF OrderInv
<1>2. CASE UNCHANGED vars
    BY <1>2 DEF vars, OrderInv, Begun, PairOrdered
<1> QED BY <1>1, <1>2 DEF Next, Finished

LEMMA OrderInit == Init => OrderInv
<1> SUFFICES ASSUME Init PROVE OrderInv
    OBVIOUS
<1>1. \A p \in Process : stage[p] = "idle" /\ before[p] = {}
    BY DEF Init
<1>2. \A c \in KeyPairs : file[c[2]] = "absent"
    BY KeyFiles DEF Init
<1> QED BY <1>1, <1>2, TypeInit DEF OrderInv, Begun, PairOrdered, Working, Writing

\* However many runs of init there are at the same time, and wherever each fails or is
\* killed, none changes a file that was there when it began.
THEOREM EarlierStays == Spec => EarlierIsKept
<1>1. ASSUME OrderInv, Next, NEW p \in Process, stage'[p] # stage[p], NEW f \in before[p]
      PROVE  file'[f] = file[f]
  <2> DEFINE n == at[p]
  <2>1. TypeOK /\ Begun(p) /\ n \in Position /\ f \in File
      BY <1>1 DEF OrderInv, TypeOK
  <2>2. PICK q \in Process : Start(q) \/ Step(q) \/ Kill(q)
      BY <1>1 DEF Next, Finished, vars
  <2>3. Kinds(p)
      BY <1>1, <2>1, <2>2, StepKinds DEF Others
  <2>4. CASE stage[p] \in {"open", "write"} /\ f = FileAt(n)
      BY <1>1, <2>1, <2>4 DEF Begun, Working
  <2>5. CASE stage[p] \in {"openPublic", "writePublic"} /\ f = PublicAt(n) /\ PartAt(n) = "key"
    <3>1. PICK c \in KeyPairs : c[1] = FileAt(n) /\ c[2] = PublicAt(n)
        BY <2>1, <2>5, PartFiles
    <3> QED BY <1>1, <2>1, <2>5, <3>1 DEF Begun, Working
  <2>6. CASE /\ ~(stage[p] \in {"open", "write"} /\ f = FileAt(n))
             /\ ~(stage[p] \in {"openPublic", "writePublic"} /\ f = PublicAt(n)
                  /\ PartAt(n) = "key")
      BY <2>1, <2>3, <2>6 DEF Kinds, files, Opened, Written
  <2> QED BY <2>4, <2>5, <2>6
<1>2. OrderInv /\ [Next]_vars =>
          [\A p \in Process : stage'[p] # stage[p] =>
               \A f \in before[p] : file'[f] = file[f]]_vars
    BY <1>1
<1> QED BY <1>2, OrderInit, OrderNext, PTL DEF Spec, EarlierIsKept

-----------------------------------------------------------------------------
(* A run of init that ends well.  Every file that was begun is complete, or lost to a  *)
(* run that was stopped, or being written; so is the public key of every private key.  *)

Settled(f) ==
    \/ file[f] = "complete"
    \/ f \in lost
    \/ \E q \in Process : f \in Unfinished(q)

SettledInv ==
    /\ OrderInv
    /\ \A f \in File : file[f] # "absent" => Settled(f)
    /\ \A c \in KeyPairs : file[c[1]] # "absent" => Settled(c[2])

\* A file is settled as soon as a process has begun to write it.
LEMMA BegunIsSettled ==
    ASSUME NEW q \in Process, NEW f \in File, (f \in Unfinished(q))'
    PROVE  Settled(f)'
BY DEF Settled

\* What is settled stays settled: a process that stops hands on to `lost` what it leaves,
\* and one that goes on either completes a file or is still writing it.
LEMMA SettledStays ==
    ASSUME OrderInv, NEW p \in Process, Kinds(p), Others(p), NEW f \in File, Settled(f)
    PROVE  Settled(f)'
<1> DEFINE n == at[p]
<1> TypeOK /\ n \in Position /\ FileAt(n) \in File /\ PublicAt(n) \in File
    BY PartFiles DEF OrderInv, TypeOK
<1>1. ASSUME NEW q \in Process, q # p, f \in Unfinished(q) PROVE Settled(f)'
  <2>1. (f \in Unfinished(q))'
      BY <1>1 DEF Others, Unfinished
  <2> QED BY <2>1, BegunIsSettled
<1>2. lost \subseteq lost'
    BY DEF Kinds, files, Opened, Written
<1>3. CASE file[f] = "complete"
  <2>1. CASE file'[f] = "complete"
      BY <2>1 DEF Settled
  <2>2. CASE file'[f] # "complete"
    <3>1. \/ stage'[p] = "write" /\ at'[p] = n /\ f = FileAt(n)
          \/ stage'[p] = "writePublic" /\ at'[p] = n /\ f = PublicAt(n)
        BY <1>3, <2>2 DEF Kinds, files, Opened, Written, Stays
    <3>2. (f \in Unfinished(p))'
        BY <3>1 DEF Unfinished
    <3> QED BY <3>2, BegunIsSettled
  <2> QED BY <2>1, <2>2
<1>4. CASE f \in Unfinished(p)
  <2>1. CASE lost' = lost \cup Unfinished(p)
      BY <1>4, <2>1 DEF Settled
  <2>2. CASE stage[p] = "write" /\ Written(FileAt(n)) /\ PartAt(n) = "key" /\ Stays(p, "openPublic")
    <3>1. f = FileAt(n) \/ f = PublicAt(n)
        BY <1>4, <2>2 DEF Unfinished
    <3>2. CASE f = FileAt(n)
        BY <2>2, <3>2 DEF Written, Settled
    <3>3. CASE f = PublicAt(n)
      <4>1. (f \in Unfinished(p))'
          BY <2>2, <3>3 DEF Stays, Unfinished
      <4> QED BY <4>1, BegunIsSettled
    <3> QED BY <3>1, <3>2, <3>3
  <2>3. CASE stage[p] = "write" /\ Written(FileAt(n)) /\ PartAt(n) # "key"
    <3>1. f = FileAt(n)
        BY <1>4, <2>3 DEF Unfinished
    <3> QED BY <2>3, <3>1 DEF Written, Settled
  <2>4. CASE stage[p] = "openPublic" /\ Stays(p, "writePublic")
    <3>1. (f \in Unfinished(p))'
        BY <1>4, <2>4 DEF Stays, Unfinished
    <3> QED BY <3>1, BegunIsSettled
  <2>5. CASE stage[p] = "writePublic" /\ Written(PublicAt(n))
    <3>1. f = PublicAt(n)
        BY <1>4, <2>5 DEF Unfinished
    <3> QED BY <2>5, <3>1 DEF Written, Settled
  <2>6. CASE stage[p] \notin Writing
      BY <1>4, <2>6 DEF Unfinished, Writing
  <2> QED BY <2>1, <2>2, <2>3, <2>4, <2>5, <2>6 DEF Kinds, Writing
<1>5. CASE f \in lost
    BY <1>2, <1>5 DEF Settled
<1> QED BY <1>1, <1>3, <1>4, <1>5 DEF Settled

\* A file that comes to be is being written, and with a private key its public key.
LEMMA SettledStep ==
    ASSUME SettledInv, NEW p \in Process, Kinds(p), Others(p)
    PROVE  /\ \A f \in File : file'[f] # "absent" => Settled(f)'
           /\ \A c \in KeyPairs : file'[c[1]] # "absent" => Settled(c[2])'
<1> DEFINE n == at[p]
<1> TypeOK /\ OrderInv /\ n \in Position /\ Begun(p)
    BY DEF SettledInv, OrderInv, TypeOK
<1> FileAt(n) \in File /\ PublicAt(n) \in File
    BY PartFiles
<1>1. ASSUME NEW f \in File, file[f] = "absent", file'[f] # "absent"
      PROVE  \/ stage'[p] = "write" /\ at'[p] = n /\ f = FileAt(n)
             \/ /\ stage'[p] = "writePublic" /\ at'[p] = n /\ f = PublicAt(n)
                /\ PartAt(n) = "key"
             \/ stage[p] = "writePublic" /\ f = PublicAt(n) /\ file'[f] = "complete"
                /\ PartAt(n) = "key"
    BY <1>1 DEF Kinds, files, Opened, Written, Stays, Begun, Writing
<1>2. ASSUME NEW f \in File, file'[f] # "absent" PROVE Settled(f)'
  <2>1. CASE file[f] # "absent"
      BY <2>1, SettledStays DEF SettledInv
  <2>2. CASE file[f] = "absent" /\ file'[f] = "complete"
      BY <2>2 DEF Settled
  <2>3. CASE file[f] = "absent" /\ file'[f] # "complete"
    <3>1. (f \in Unfinished(p))'
        BY <1>1, <1>2, <2>3 DEF Unfinished
    <3> QED BY <3>1, BegunIsSettled
  <2> QED BY <2>1, <2>2, <2>3
<1>3. ASSUME NEW c \in KeyPairs, file'[c[1]] # "absent" PROVE Settled(c[2])'
  <2>1. c[1] \in File /\ c[2] \in File
      BY KeyFiles
  <2>2. CASE file[c[1]] # "absent"
      BY <2>1, <2>2, SettledStays DEF SettledInv
  <2>3. CASE file[c[1]] = "absent"
    <3>1. PICK d \in KeyPairs : d[2] = PublicAt(n)
        BY KeyFiles
    <3>2. c[1] # PublicAt(n)
        BY <3>1, KeyFiles
    <3>3. stage'[p] = "write" /\ at'[p] = n /\ c[1] = FileAt(n)
        BY <1>1, <1>3, <2>1, <2>3, <3>2
    <3>4. PartAt(n) = "key"
        BY <3>3, KeyFiles
    <3>5. c[2] = PublicAt(n)
      <4>1. PICK e \in KeyPairs : e[1] = FileAt(n) /\ e[2] = PublicAt(n)
          BY <3>4, PartFiles
      <4>2. e[1] = c[1]
          BY <3>3, <4>1
      <4>3. e = c
          BY <4>2, KeyFiles
      <4> QED BY <4>1, <4>3
    <3>6. (c[2] \in Unfinished(p))'
        BY <2>1, <3>3, <3>4, <3>5 DEF Unfinished
    <3> QED BY <2>1, <3>6, BegunIsSettled
  <2> QED BY <2>2, <2>3
<1> QED BY <1>2, <1>3

LEMMA SettledNext == SettledInv /\ [Next]_vars => SettledInv'
<1> SUFFICES ASSUME SettledInv, [Next]_vars PROVE SettledInv'
    OBVIOUS
<1> TypeOK /\ OrderInv /\ OrderInv'
    BY OrderNext DEF SettledInv, OrderInv
<1>1. ASSUME NEW p \in Process, Start(p) \/ Step(p) \/ Kill(p) PROVE SettledInv'
    BY <1>1, StepKinds, SettledStep DEF SettledInv
<1>2. CASE UNCHANGED vars
    BY <1>2 DEF vars, SettledInv, Settled, Unfinished
<1> QED BY <1>1, <1>2 DEF Next, Finished

LEMMA SettledInit == Init => SettledInv
<1> SUFFICES ASSUME Init PROVE SettledInv
    OBVIOUS
<1>1. \A f \in File : file[f] = "absent"
    BY DEF Init
<1> QED BY <1>1, OrderInit, KeyFiles DEF SettledInv

\* The twelve parts have all the files between them.
LEMMA EveryFileHasAPart ==
    \A f \in File : \E n \in Position : f = FileAt(n) \/ (PartAt(n) = "key" /\ f = PublicAt(n))
<1>1. 1 \in Position /\ 2 \in Position /\ 3 \in Position /\ 4 \in Position
      /\ 5 \in Position /\ 6 \in Position /\ 8 \in Position
    BY DEF Position
<1>2. PartAt(1) = "sops" /\ PartAt(2) = "key" /\ PartAt(3) = "backend" /\ PartAt(4) = "config"
      /\ PartAt(5) = "secrets" /\ PartAt(6) = "tfvars" /\ PartAt(8) = "key"
    BY DEF PartAt, Parts
<1>3. ClusterAt(2) = "service" /\ ClusterAt(8) = "workload"
    BY DEF ClusterAt, Cluster
<1> QED BY <1>1, <1>2, <1>3 DEF File, FileAt, PrivateAt, PublicAt

\* A run that ends well has all parts behind it.
LEMMA EndsComplete ==
    ASSUME SettledInv, SettledInv', NEW p \in Process, Kinds(p), Others(p),
           result[p] # "ok", result'[p] = "ok"
    PROVE  \A f \in File : Settled(f)'
<1> TypeOK /\ OrderInv /\ at[p] \in Position /\ Begun(p)
    BY DEF SettledInv, OrderInv, TypeOK
<1>1. /\ Leaves(p) /\ at[p] = 12 /\ stage[p] # "idle"
      /\ file[FileAt(12)] # "absent"
  <2>1. Leaves(p) /\ at[p] = 12 /\ stage[p] # "idle"
      BY DEF Kinds, Leaves, Stays
  <2>2. PartAt(12) = "tfvars"
      BY DEF PartAt, Parts
  <2>3. file[FileAt(12)] # "absent"
      BY <2>1, <2>2 DEF Kinds, Stays, Begun, Writing
  <2> QED BY <2>1, <2>3
<1>2. ASSUME NEW n \in Position PROVE file'[FileAt(n)] # "absent"
  <2>1. n < 12 \/ n = 12
      BY DEF Position
  <2>2. file[FileAt(n)] # "absent"
      BY <1>1, <2>1 DEF Begun
  <2> QED BY <2>2, NothingVanishes, Positions
<1> SUFFICES ASSUME NEW f \in File PROVE Settled(f)'
    OBVIOUS
<1>3. PICK n \in Position : f = FileAt(n) \/ (PartAt(n) = "key" /\ f = PublicAt(n))
    BY EveryFileHasAPart
<1>4. CASE f = FileAt(n)
    BY <1>2, <1>4 DEF SettledInv
<1>5. CASE PartAt(n) = "key" /\ f = PublicAt(n)
  <2>1. PICK c \in KeyPairs : c[1] = FileAt(n) /\ c[2] = PublicAt(n)
      BY <1>5, PartFiles
  <2> QED BY <1>2, <1>5, <2>1 DEF SettledInv
<1> QED BY <1>3, <1>4, <1>5

\* However many runs there are, one after the other or at the same time, and wherever
\* tools fail, files cannot be created, opened or written, or init is killed: a run that
\* ends well leaves every file complete that no stopped run and no other process has in
\* hand.
THEOREM InitIsComplete == Spec => InitWritesAll
<1>1. ASSUME SettledInv, SettledInv', Next, NEW p \in Process,
             result[p] # "ok", result'[p] = "ok", NEW f \in File
      PROVE  \/ file'[f] = "complete"
             \/ f \in lost'
             \/ \E q \in Process : (f \in Unfinished(q))'
  <2>1. PICK q \in Process : Start(q) \/ Step(q) \/ Kill(q)
      BY <1>1 DEF Next, Finished, vars
  <2>2. Kinds(p) /\ Others(p)
      BY <1>1, <2>1, StepKinds DEF SettledInv, OrderInv, Others
  <2> QED BY <1>1, <2>2, EndsComplete DEF Settled
<1>2. SettledInv /\ SettledInv' /\ [Next]_vars =>
          [\A p \in Process :
               result[p] # "ok" /\ result'[p] = "ok" =>
                   \A f \in File :
                       \/ file'[f] = "complete"
                       \/ f \in lost'
                       \/ \E q \in Process : (f \in Unfinished(q))']_vars
    BY <1>1
<1> QED BY <1>2, SettledInit, SettledNext, PTL DEF Spec, InitWritesAll

-----------------------------------------------------------------------------
(* Key pairs.  A run is the writer of the private key from the moment it has opened    *)
(* it to the end of the part, because the key is read-only once it is there.           *)

OwnsKey(p) ==
    /\ stage[p] \in Writing /\ PartAt(at[p]) = "key" => writer[FileAt(at[p])] = id[p]
    /\ stage[p] = "writePublic" => file[PublicAt(at[p])] # "absent"

PairFits(c) == file[c[2]] # "absent" => writer[c[1]] = writer[c[2]]

KeyInv ==
    /\ OrderInv
    /\ \A p \in Process : OwnsKey(p)
    /\ \A c \in KeyPairs : PairFits(c)

\* Only a private key that is absent can be opened.
LEMMA KeysAreReadOnly ==
    ASSUME TypeOK, ~AsRoot, NEW n \in Position, PartAt(n) = "key", ~ReadOnly(FileAt(n))
    PROVE  file[FileAt(n)] = "absent"
BY PartFiles, KeyFiles DEF ReadOnly

\* The other processes keep their keys when the writers of the private keys they own are
\* kept.
LEMMA OthersOwn ==
    ASSUME KeyInv, NEW p \in Process, Kinds(p), Others(p), NEW q \in Process, q # p,
           stage[q] \in Writing /\ PartAt(at[q]) = "key"
               => writer'[FileAt(at[q])] = writer[FileAt(at[q])]
    PROVE  OwnsKey(q)'
<1>1. /\ stage'[q] = stage[q] /\ at'[q] = at[q] /\ id'[q] = id[q] /\ OwnsKey(q)
      /\ at[q] \in Position /\ TypeOK /\ PublicAt(at[q]) \in File
    BY PartFiles DEF Others, KeyInv, OrderInv, TypeOK
<1> QED BY <1>1, NothingVanishes DEF OwnsKey

\* A step that opens no file of a key pair.
LEMMA NoKeyOpened ==
    ASSUME KeyInv, NEW p \in Process, Kinds(p), Others(p),
           \A c \in KeyPairs : /\ writer'[c[1]] = writer[c[1]] /\ writer'[c[2]] = writer[c[2]]
                               /\ file[c[2]] = "absent" => file'[c[2]] = "absent",
           stage'[p] \in Writing /\ PartAt(at'[p]) = "key"
               => stage[p] = "write" /\ Stays(p, "openPublic"),
           stage'[p] # "writePublic"
    PROVE  (\A q \in Process : OwnsKey(q)') /\ (\A c \in KeyPairs : PairFits(c)')
<1> TypeOK /\ at[p] \in Position /\ OwnsKey(p)
    BY DEF KeyInv, OrderInv, TypeOK
<1>1. \A c \in KeyPairs : PairFits(c)'
    BY DEF KeyInv, PairFits
<1>2. \A m \in Position : PartAt(m) = "key" => writer'[FileAt(m)] = writer[FileAt(m)]
    BY PartFiles
<1>3. ASSUME NEW q \in Process, q # p PROVE OwnsKey(q)'
    BY <1>2, <1>3, OthersOwn DEF KeyInv, OrderInv, TypeOK
<1>4. OwnsKey(p)'
    BY <1>2 DEF OwnsKey, Stays, Writing
<1> QED BY <1>1, <1>3, <1>4

\* Opening a private key: it was absent, so nobody owns it and there is no public key.
LEMMA PrivateOpened ==
    ASSUME KeyInv, ~AsRoot, NEW p \in Process, Kinds(p), Others(p), PartAt(at[p]) = "key",
           Stays(p, "write"), Opened(p, FileAt(at[p])), ~ReadOnly(FileAt(at[p]))
    PROVE  (\A q \in Process : OwnsKey(q)') /\ (\A c \in KeyPairs : PairFits(c)')
<1> DEFINE n == at[p]
<1> TypeOK /\ OrderInv /\ n \in Position
    BY DEF KeyInv, OrderInv, TypeOK
<1>1. file[FileAt(n)] = "absent"
    BY KeysAreReadOnly
<1>2. ASSUME NEW q \in Process, q # p PROVE OwnsKey(q)'
  <2>1. at[q] \in Position /\ FileAt(at[q]) \in File
      BY PartFiles DEF TypeOK
  <2>2. stage[q] \in Writing => FileAt(at[q]) # FileAt(n)
      BY <1>1 DEF OrderInv, Begun
  <2> QED BY <1>2, <2>1, <2>2, OthersOwn DEF Opened
<1>3. OwnsKey(p)'
  <2>1. /\ stage'[p] = "write" /\ at'[p] = n /\ id'[p] = id[p]
        /\ writer'[FileAt(n)] = id[p]
      BY DEF Stays, Opened
  <2>2. FileAt(at'[p]) = FileAt(n)
      BY <2>1
  <2> QED BY <2>1, <2>2 DEF OwnsKey
<1>4. ASSUME NEW d \in KeyPairs PROVE PairFits(d)'
  <2>1. PICK c \in KeyPairs : c[1] = FileAt(n) /\ c[2] = PublicAt(n)
      BY PartFiles
  <2>a. d[1] \in File /\ d[2] \in File /\ d[2] # c[1] /\ (d # c => d[1] # c[1])
      BY KeyFiles
  <2>2. d[1] \in File /\ d[2] \in File /\ d[2] # FileAt(n) /\ (d # c => d[1] # FileAt(n))
      BY <2>1, <2>a
  <2>3. file[c[2]] = "absent"
      BY <1>1, <2>1 DEF OrderInv, PairOrdered
  <2>4. CASE d = c
      BY <2>2, <2>3, <2>4 DEF Opened, PairFits
  <2>5. CASE d # c
      BY <2>2, <2>5 DEF Opened, KeyInv, PairFits
  <2> QED BY <2>4, <2>5
<1> QED BY <1>2, <1>3, <1>4

\* Opening a public key: its writer is the writer of the private key.
LEMMA PublicOpened ==
    ASSUME KeyInv, NEW p \in Process, Kinds(p), Others(p), PartAt(at[p]) = "key",
           stage[p] = "openPublic", Stays(p, "writePublic"), Opened(p, PublicAt(at[p]))
    PROVE  (\A q \in Process : OwnsKey(q)') /\ (\A c \in KeyPairs : PairFits(c)')
<1> DEFINE n == at[p]
<1> TypeOK /\ n \in Position /\ OwnsKey(p)
    BY DEF KeyInv, OrderInv, TypeOK
<1>1. \A m \in Position : PartAt(m) = "key" => writer'[FileAt(m)] = writer[FileAt(m)]
    BY PartFiles DEF Opened
<1>2. ASSUME NEW q \in Process, q # p PROVE OwnsKey(q)'
    BY <1>1, <1>2, OthersOwn DEF TypeOK
<1>3. OwnsKey(p)'
    BY <1>1 DEF OwnsKey, Stays, Opened, Writing
<1>4. ASSUME NEW d \in KeyPairs PROVE PairFits(d)'
  <2>1. PICK c \in KeyPairs : c[1] = FileAt(n) /\ c[2] = PublicAt(n)
      BY PartFiles
  <2>a. d[1] \in File /\ d[2] \in File /\ d[1] # c[2] /\ (d # c => d[2] # c[2])
      BY KeyFiles
  <2>2. d[1] \in File /\ d[2] \in File /\ d[1] # PublicAt(n) /\ (d # c => d[2] # PublicAt(n))
      BY <2>1, <2>a
  <2>3. CASE d = c
      BY <2>1, <2>2, <2>3 DEF Opened, OwnsKey, PairFits, Writing
  <2>4. CASE d # c
      BY <2>2, <2>4 DEF Opened, KeyInv, PairFits
  <2> QED BY <2>3, <2>4
<1> QED BY <1>2, <1>3, <1>4

LEMMA KeyStep ==
    ASSUME KeyInv, ~AsRoot, NEW p \in Process, Kinds(p), Others(p)
    PROVE  (\A q \in Process : OwnsKey(q)') /\ (\A c \in KeyPairs : PairFits(c)')
<1> DEFINE n == at[p]
<1> TypeOK /\ n \in Position /\ OwnsKey(p)
    BY DEF KeyInv, OrderInv, TypeOK
<1>1. CASE UNCHANGED <<file, writer>> /\ stage'[p] \notin Writing
    BY <1>1, NoKeyOpened DEF Writing
<1>2. CASE /\ stage[p] = "open" /\ Stays(p, "write") /\ Opened(p, FileAt(n))
           /\ ~ReadOnly(FileAt(n))
  <2>1. CASE PartAt(n) = "key"
      BY <1>2, <2>1, PrivateOpened
  <2>2. CASE PartAt(n) # "key"
    <3>1. \A c \in KeyPairs : c[1] \in File /\ c[2] \in File /\ FileAt(n) \notin {c[1], c[2]}
        BY <2>2, KeyFiles
    <3> QED BY <1>2, <2>2, <3>1, NoKeyOpened DEF Opened, Stays
  <2> QED BY <2>1, <2>2
<1>3. CASE /\ stage[p] = "write" /\ Written(FileAt(n))
           /\ \/ PartAt(n) = "key" /\ Stays(p, "openPublic")
              \/ PartAt(n) # "key" /\ Leaves(p)
  <2>1. \A c \in KeyPairs : c[2] \in File /\ c[2] # FileAt(n)
    <3>1. CASE PartAt(n) = "key"
      <4>1. PICK d \in KeyPairs : d[1] = FileAt(n)
          BY <3>1, PartFiles
      <4> QED BY <4>1, KeyFiles
    <3> QED BY <3>1, KeyFiles
  <2>2. stage'[p] # "writePublic" /\ (stage'[p] \in Writing => Stays(p, "openPublic"))
      BY <1>3 DEF Stays, Leaves, Writing
  <2> QED BY <1>3, <2>1, <2>2, NoKeyOpened DEF Written
<1>4. CASE stage[p] = "openPublic" /\ PartAt(n) = "key" /\ Stays(p, "writePublic")
           /\ Opened(p, PublicAt(n))
    BY <1>4, PublicOpened
<1>5. CASE stage[p] = "writePublic" /\ Leaves(p) /\ Written(PublicAt(n))
  <2>1. \A c \in KeyPairs : c[2] \in File /\ (file[c[2]] = "absent" => file'[c[2]] = "absent")
      BY <1>5, KeyFiles DEF OwnsKey, Written
  <2>2. stage'[p] \notin Writing
      BY <1>5 DEF Leaves, Writing
  <2> QED BY <1>5, <2>1, <2>2, NoKeyOpened DEF Written, Writing
<1> QED BY <1>1, <1>2, <1>3, <1>4, <1>5 DEF Kinds, files, Leaves, Stays, Writing

LEMMA KeyNext == ~AsRoot /\ KeyInv /\ [Next]_vars => KeyInv'
<1> SUFFICES ASSUME ~AsRoot, KeyInv, [Next]_vars PROVE KeyInv'
    OBVIOUS
<1> TypeOK /\ OrderInv'
    BY OrderNext DEF KeyInv, OrderInv
<1>1. ASSUME NEW p \in Process, Start(p) \/ Step(p) \/ Kill(p) PROVE KeyInv'
    BY <1>1, StepKinds, KeyStep DEF KeyInv
<1>2. CASE UNCHANGED vars
    BY <1>2 DEF vars, KeyInv, OwnsKey, PairFits
<1> QED BY <1>1, <1>2 DEF Next, Finished

LEMMA KeyInit == Init => KeyInv
<1> SUFFICES ASSUME Init PROVE KeyInv
    OBVIOUS
<1>1. \A p \in Process : stage[p] = "idle"
    BY DEF Init
<1>2. \A c \in KeyPairs : file[c[2]] = "absent"
    BY KeyFiles DEF Init
<1> QED BY <1>1, <1>2, OrderInit DEF KeyInv, OwnsKey, PairFits, Writing

\* Unless init runs as root: however many runs there are, at whatever point each fails or
\* is killed, the public key of a cluster is the one of its private key.
THEOREM KeysAlwaysMatch ==
    ASSUME ~AsRoot
    PROVE  Spec => []KeysMatch
<1>1. Init => KeyInv
    BY KeyInit
<1>2. KeyInv => KeysMatch
    BY DEF KeyInv, PairFits, KeysMatch
<1>3. KeyInv /\ [Next]_vars => KeyInv'
    BY KeyNext
<1> QED BY <1>1, <1>2, <1>3, PTL DEF Spec

=============================================================================
