------------------------------- MODULE ConfigInit -------------------------------
(***************************************************************************)
(* `ck8s init` (cmd/ck8s/init.go, client/init.go): for the service and then *)
(* for the workload cluster, every file of the configuration directory is  *)
(* written unless it exists.  All files are shared by the two clusters but *)
(* for the SSH key pairs.  An operator may run it again after a failure,   *)
(* and two operators may run it at the same time in a shared directory.    *)
(***************************************************************************)
EXTENDS Naturals

CONSTANTS
    Process,          \* init processes that may run at the same time
    MaxInits,         \* bound: times init is run
    Faults,           \* "command": sops may fail; "write": a directory or a file may fail
                      \* to be created, opened or written; "kill": init may be killed
    AsRoot            \* init runs as root, whom the mode of a file does not stop

ASSUME MaxInitsAssumption == MaxInits \in Nat
ASSUME FaultsAssumption == Faults \subseteq {"command", "write", "kill"}
ASSUME AsRootAssumption == AsRoot \in BOOLEAN

\* The order of ConfigInitializer.Init; "key" stands for the SSH key pair.
Parts == <<"sops", "key", "backend", "config", "secrets", "tfvars">>

Cluster == <<"service", "workload">>

\* The parts init goes through, numbered over both clusters.
Position == 1..12
PartAt(n) == Parts[((n - 1) % 6) + 1]
ClusterAt(n) == Cluster[((n - 1) \div 6) + 1]

File == {"sops", "backend", "config", "secrets", "tfvars",
         "service private", "service public", "workload private", "workload public"}

PrivateAt(n) == IF ClusterAt(n) = "service" THEN "service private" ELSE "workload private"
PublicAt(n) == IF ClusterAt(n) = "service" THEN "service public" ELSE "workload public"

\* The file a part is written to; PublicAt is the second file of a key pair.
FileAt(n) == IF PartAt(n) = "key" THEN PrivateAt(n) ELSE PartAt(n)

VARIABLES
    file,             \* "absent", "empty" once truncated, "complete"
    writer,           \* per file: the run of init that opened it last
    lost,             \* history: files that a run left unfinished when it ended
    at,               \* per process: the part it is at
    stage,            \* per process: what it does there
    id,               \* per process: the number of its run, 0 while there is none
    result,           \* per process: how its last run ended
    before,           \* history, per process: the files that were there when its run began
    runs              \* runs started

files == <<file, writer, lost>>
vars == <<file, writer, lost, at, stage, id, result, before, runs>>

Stages == {"idle", "check", "checkPublic", "encrypt", "open", "write",
           "openPublic", "writePublic"}

\* Only a key pair has a second file, and only private keys and secrets go through sops.
StageFits(p) ==
    /\ stage[p] \in {"checkPublic", "openPublic", "writePublic"} => PartAt(at[p]) = "key"
    /\ stage[p] = "encrypt" => PartAt(at[p]) \in {"key", "secrets"}

TypeOK ==
    /\ file \in [File -> {"absent", "empty", "complete"}]
    /\ writer \in [File -> 0..MaxInits]
    /\ lost \subseteq File
    /\ at \in [Process -> Position]
    /\ stage \in [Process -> Stages]
    /\ id \in [Process -> 0..MaxInits]
    /\ result \in [Process -> {"none", "ok", "failed"}]
    /\ before \in [Process -> SUBSET File]
    /\ runs \in 0..MaxInits
    /\ \A p \in Process : StageFits(p)

Init ==
    /\ file = [f \in File |-> "absent"]
    /\ writer = [f \in File |-> 0]
    /\ lost = {}
    /\ at = [p \in Process |-> 1]
    /\ stage = [p \in Process |-> "idle"]
    /\ id = [p \in Process |-> 0]
    /\ result = [p \in Process |-> "none"]
    /\ before = [p \in Process |-> {}]
    /\ runs = 0

-----------------------------------------------------------------------------

Goto(p, s) ==
    /\ stage' = [stage EXCEPT ![p] = s]
    /\ UNCHANGED <<at, id, result, before, runs>>

\* A process that has ended has no run; what its run knew is forgotten.
Return(p, r) ==
    /\ stage' = [stage EXCEPT ![p] = "idle"]
    /\ at' = [at EXCEPT ![p] = 1]
    /\ id' = [id EXCEPT ![p] = 0]
    /\ result' = [result EXCEPT ![p] = r]
    /\ before' = [before EXCEPT ![p] = {}]
    /\ UNCHANGED runs

\* The part is done: on to the next one, or init has ended well.
Advance(p) ==
    IF at[p] = 12 THEN Return(p, "ok")
    ELSE /\ at' = [at EXCEPT ![p] = @ + 1]
         /\ stage' = [stage EXCEPT ![p] = "check"]
         /\ UNCHANGED <<id, result, before, runs>>

\* The files a process has begun to write and not finished.  A key pair is begun
\* with its private key.
Unfinished(p) ==
    {f \in File :
        \/ stage[p] = "write" /\ f = FileAt(at[p])
        \/ stage[p] = "write" /\ PartAt(at[p]) = "key" /\ f = PublicAt(at[p])
        \/ stage[p] \in {"openPublic", "writePublic"} /\ f = PublicAt(at[p])}

Fail(p) ==
    /\ Return(p, "failed")
    /\ lost' = lost \cup Unfinished(p)
    /\ UNCHANGED <<file, writer>>

\* ioutil.WriteFile truncates the file first.
Truncate(p, f) ==
    /\ file' = [file EXCEPT ![f] = "empty"]
    /\ writer' = [writer EXCEPT ![f] = id[p]]
    /\ UNCHANGED lost

Complete(f) == file' = [file EXCEPT ![f] = "complete"] /\ UNCHANGED <<writer, lost>>

\* Mutant of ReadOnly: private keys are created with mode 0600.
Writable(f) == FALSE

\* SSH private keys are created with mode 0400, so no one but root can write them again.
ReadOnly(f) ==
    ~AsRoot /\ f \in {"service private", "workload private"} /\ file[f] # "absent"

Start(p) ==
    /\ stage[p] = "idle" /\ runs < MaxInits
    /\ runs' = runs + 1
    /\ id' = [id EXCEPT ![p] = runs + 1]
    /\ at' = [at EXCEPT ![p] = 1]
    /\ stage' = [stage EXCEPT ![p] = "check"]
    /\ result' = [result EXCEPT ![p] = "none"]
    /\ before' = [before EXCEPT ![p] = {f \in File : file[f] # "absent"}]
    /\ UNCHANGED files

\* Mutant of AfterCheck: every file but the key pairs is sent through sops.
EncryptedAll(p) == IF PartAt(at[p]) = "key" THEN "checkPublic" ELSE "encrypt"

AfterCheck(p) ==
    IF PartAt(at[p]) = "key" THEN "checkPublic"
    ELSE IF PartAt(at[p]) = "secrets" THEN "encrypt"
    ELSE "open"

\* Mutant of Exists: the result of mkdirAllIfNotExists is ignored.
ExistsIgnored(f) == FALSE

Exists(f) == file[f] # "absent"

\* Mutant of Check: the check for the file creates it.
CheckCreates(p) ==
    /\ stage[p] = "check"
    /\ IF Exists(FileAt(at[p])) THEN Advance(p) /\ UNCHANGED files
       ELSE Goto(p, AfterCheck(p)) /\ Truncate(p, FileAt(at[p]))

\* mkdirAllIfNotExists: a file that exists, whatever it holds, is left alone.
Check(p) ==
    /\ stage[p] = "check"
    /\ \/ Exists(FileAt(at[p])) /\ Advance(p) /\ UNCHANGED files
       \/ ~Exists(FileAt(at[p])) /\ Goto(p, AfterCheck(p)) /\ UNCHANGED files
       \/ ~Exists(FileAt(at[p])) /\ "write" \in Faults /\ Fail(p)

CheckPublic(p) ==
    /\ stage[p] = "checkPublic"
    /\ \/ Exists(PublicAt(at[p])) /\ Advance(p) /\ UNCHANGED files
       \/ ~Exists(PublicAt(at[p])) /\ Goto(p, "encrypt") /\ UNCHANGED files
       \/ ~Exists(PublicAt(at[p])) /\ "write" \in Faults /\ Fail(p)

\* EncryptStdin of a generated key or of the secrets: sops needs its configuration.
Encrypt(p) ==
    /\ stage[p] = "encrypt"
    /\ \/ file["sops"] = "complete" /\ Goto(p, "open") /\ UNCHANGED files
       \/ (file["sops"] # "complete" \/ "command" \in Faults) /\ Fail(p)

\* An open that fails leaves the file as it was, a write that fails leaves it truncated.
Open(p) ==
    /\ stage[p] = "open"
    /\ \/ ~ReadOnly(FileAt(at[p])) /\ Truncate(p, FileAt(at[p])) /\ Goto(p, "write")
       \/ (ReadOnly(FileAt(at[p])) \/ "write" \in Faults) /\ Fail(p)

Write(p) ==
    /\ stage[p] = "write"
    /\ \/ /\ Complete(FileAt(at[p]))
          /\ IF PartAt(at[p]) = "key" THEN Goto(p, "openPublic") ELSE Advance(p)
       \/ "write" \in Faults /\ Fail(p)

\* The public key is written when the private key is complete; a run that fails here
\* leaves a private key that later runs take for a key pair.
OpenPublic(p) ==
    /\ stage[p] = "openPublic"
    /\ \/ Truncate(p, PublicAt(at[p])) /\ Goto(p, "writePublic")
       \/ "write" \in Faults /\ Fail(p)

WritePublic(p) ==
    /\ stage[p] = "writePublic"
    /\ \/ Complete(PublicAt(at[p])) /\ Advance(p)
       \/ "write" \in Faults /\ Fail(p)

Kill(p) ==
    /\ "kill" \in Faults
    /\ stage[p] # "idle"
    /\ Fail(p)

Step(p) ==
    \/ Check(p) \/ CheckPublic(p) \/ Encrypt(p) \/ Open(p)
    \/ Write(p) \/ OpenPublic(p) \/ WritePublic(p)

Finished ==
    /\ \A p \in Process : stage[p] = "idle"
    /\ runs = MaxInits
    /\ UNCHANGED vars

Next ==
    \/ \E p \in Process : Start(p) \/ Step(p) \/ Kill(p)
    \/ Finished

Spec == Init /\ [][Next]_vars

-----------------------------------------------------------------------------
(* Properties. *)

KeyPairs == {<<"service private", "service public">>, <<"workload private", "workload public">>}

\* The public key of a cluster belongs to its private key, whoever wrote them:
\* the private key is written first and cannot be written twice.
KeysMatch ==
    \A c \in KeyPairs :
        file[c[1]] = "complete" /\ file[c[2]] = "complete" => writer[c[1]] = writer[c[2]]

\* When init ends well, every file of the configuration is complete, unless an earlier
\* run was stopped in the middle of the very part the file belongs to, or another process
\* is writing that part now: a run that fails or is killed costs at most the part it was
\* writing, whatever other runs did in between.
InitWritesAll ==
    [][\A p \in Process :
        result[p] # "ok" /\ result'[p] = "ok" =>
            \A f \in File :
                \/ file'[f] = "complete"
                \/ f \in lost'
                \/ \E q \in Process : (f \in Unfinished(q))']_vars

\* A run of init changes no file that was there when it began, also when two processes
\* find a file missing at the same time and one of them is long done with it.
EarlierIsKept ==
    [][\A p \in Process : stage'[p] # stage[p] =>
           \A f \in before[p] : file'[f] = file[f]]_vars

=============================================================================
