------------------------------ MODULE MachineClient ------------------------------
(***************************************************************************)
(* client/machine.go, client/ssh.go and runner/ssh.go: what a ck8s process *)
(* does over SSH, step by step, with the time it takes and with what       *)
(* becomes of the lines the operator types.                                *)
(*                                                                         *)
(* A command is a sequence of jobs: to wait for a machine, to run a        *)
(* command on it in a session of its own, or to run a local command that   *)
(* asks for approval, as terraform apply does.  A session that takes stdin *)
(* puts a pipe in the place of os.Stdin for the rest of the process, fed   *)
(* line by line by a goroutine (the pump) and emptied by another goroutine *)
(* of the SSH library (the copier), which only notices that the session is *)
(* over when it has read something.  Time is in whole seconds.             *)
(***************************************************************************)
EXTENDS Integers, Sequences

CONSTANTS
    Timeout,          \* newMachineSSHWaitTimeout or --ssh-timeout
    DialTimeout,      \* dialTimeout
    DecryptTime,      \* assumed: sops takes no longer to decrypt the key
    HandshakeTime,    \* assumed: no peer is silent for longer in a handshake
    MaxEarly          \* bound: lines typed while nothing asks for one

ASSUME TimesAssumption ==
    /\ Timeout \in Nat /\ DialTimeout \in Nat
    /\ DecryptTime \in Nat /\ HandshakeTime \in Nat
ASSUME MaxEarlyAssumption == MaxEarly \in Nat

\* stdin: the command takes the operator's input; asks: it waits for a line of it.
Waiting == [kind |-> "wait", stdin |-> FALSE, asks |-> FALSE]
Session(stdin, asks) == [kind |-> "session", stdin |-> stdin, asks |-> asks]
Approval == [kind |-> "local", stdin |-> TRUE, asks |-> TRUE]

\* replace creates and waits for the new machine, resets the old one and applies;
\* upgrade asks for the version of kubeadm in the background first; apply and status
\* look at every machine of the state (two of them here), status with its own timeout.
Jobs == [apply |-> <<Approval, Waiting, Waiting>>,
         replace |-> <<Approval, Waiting, Session(TRUE, FALSE), Approval>>,
         upgrade |-> <<Session(FALSE, FALSE), Session(TRUE, TRUE)>>,
         status |-> <<Waiting, Waiting>>]

Lines == {"early", "answer", "newline"}

VARIABLES
    command,          \* the command that runs
    job,              \* number of its current job
    pc,               \* the step of the job
    result,           \* how the command ended
    keyReadable,      \* sops can decrypt the private key
    up,               \* sshd of the machine at hand answers
    upAt,             \* when it began to, in seconds since the job began
    elapsed,          \* seconds since the job began
    timer,            \* seconds spent at this step
    open,             \* connections that are open
    session,          \* an SSH session is open and takes input
    terminal,         \* lines typed and not read by anyone
    piped,            \* os.Stdin is the pipe
    held,             \* what the pump has read and not passed on
    pipe,             \* lines in the pipe
    copier,           \* state of the goroutine that reads the pipe for the session
    reply,            \* the line the command that asks has got
    early,            \* number of lines typed while nothing asked for one
    answered          \* the operator has answered the question of this job

processVars == <<command, job, pc, result, keyReadable>>
timeVars == <<up, upAt, elapsed, timer>>
connectionVars == <<open, session>>
inputVars == <<terminal, piped, held, pipe, copier, reply, early, answered>>
vars == <<processVars, timeVars, connectionVars, inputVars>>

Steps == {"begin", "loop", "decrypt", "dial", "handshake", "sleep", "newSession",
          "start", "running", "exited", "close", "prompt", "over"}

\* The longest a connection attempt and the pause after it may take.
AttemptTime == DecryptTime + DialTimeout + HandshakeTime + 1

Never == -1

TypeOK ==
    /\ command \in DOMAIN Jobs
    /\ job \in 1..Len(Jobs[command])
    /\ pc \in Steps
    /\ result \in {"none", "ok", "error"}
    /\ keyReadable \in BOOLEAN /\ up \in BOOLEAN
    /\ elapsed \in Nat /\ upAt \in Nat \cup {Never} /\ timer \in Nat
    /\ open \in 0..1 /\ session \in BOOLEAN
    /\ terminal \in Seq(Lines) /\ pipe \in Seq(Lines)
    /\ piped \in BOOLEAN
    /\ held \in Lines \cup {"none"}
    /\ copier \in {"none", "reading", "ended"}
    /\ reply \in Lines \cup {"none"}
    /\ early \in 0..MaxEarly /\ answered \in BOOLEAN

Init ==
    /\ command \in DOMAIN Jobs
    /\ job = 1 /\ pc = "begin" /\ result = "none"
    /\ keyReadable \in BOOLEAN
    /\ up = FALSE /\ upAt = Never /\ elapsed = 0 /\ timer = 0
    /\ open = 0 /\ session = FALSE
    /\ terminal = <<>> /\ pipe = <<>> /\ piped = FALSE
    /\ held = "none" /\ copier = "none" /\ reply = "none"
    /\ early = 0 /\ answered = FALSE

This == Jobs[command][job]

-----------------------------------------------------------------------------
(* Control flow. *)

Goto(step) ==
    /\ pc' = step
    /\ timer' = 0
    /\ UNCHANGED <<command, job, result, keyReadable, up, upAt, elapsed>>

\* The job has returned: the next one, on another machine, or the end of the
\* command.  Only status goes on after an error, and remembers it.
JobReturns(res) ==
    /\ result' = IF res = "error" \/ result = "error" THEN "error"
                 ELSE IF job = Len(Jobs[command]) THEN "ok" ELSE "none"
    /\ IF job = Len(Jobs[command]) \/ (res = "error" /\ command # "status")
       THEN pc' = "over" /\ UNCHANGED job
       ELSE pc' = "begin" /\ job' = job + 1
    /\ up' \in BOOLEAN
    /\ upAt' = (IF up' THEN 0 ELSE Never)
    /\ elapsed' = 0 /\ timer' = 0
    /\ UNCHANGED <<command, keyReadable>>

Begin ==
    /\ pc = "begin"
    /\ Goto(CASE This.kind = "wait" -> "loop"
              [] This.kind = "session" -> "decrypt"
              [] This.kind = "local" -> "prompt")
    /\ answered' = FALSE
    /\ UNCHANGED <<connectionVars, terminal, piped, held, pipe, copier, reply, early>>

-----------------------------------------------------------------------------
(* WaitForSSH. *)

\* Mutants of Expired: the timeout starts anew with every attempt; the time an
\* attempt may take is counted against it beforehand.
ExpiredByAttempt == timer > Timeout
ExpiredInAdvance == elapsed + AttemptTime > Timeout

Expired == elapsed > Timeout

\* The deadline is only looked at between two attempts.
Loop ==
    /\ pc = "loop"
    /\ \/ Expired /\ JobReturns("error")
       \/ ~Expired /\ Goto("decrypt")
    /\ UNCHANGED <<connectionVars, inputVars>>

Sleep ==
    /\ pc = "sleep" /\ timer = 1
    /\ Goto("loop")
    /\ UNCHANGED <<connectionVars, inputVars>>

-----------------------------------------------------------------------------
(* Connect. *)

ConnectFails == IF This.kind = "wait" THEN Goto("sleep") ELSE JobReturns("error")

Decrypt ==
    /\ pc = "decrypt"
    /\ \/ keyReadable /\ Goto("dial")
       \/ ~keyReadable /\ ConnectFails
    /\ UNCHANGED <<connectionVars, inputVars>>

\* A machine that is not up may refuse at once, or not answer before the timeout;
\* it may also accept (the kernel does) without an sshd to talk to.
Dial ==
    /\ pc = "dial"
    /\ \/ Goto("handshake")
       \/ ~up /\ ConnectFails
    /\ UNCHANGED <<connectionVars, inputVars>>

\* Mutant of ConnectedForWait: the connection is kept.
ConnectionKept == open' = open + 1 /\ JobReturns("ok")

\* WaitForSSH closes the connection again.
ConnectedForWait == UNCHANGED open /\ JobReturns("ok")

\* dialTimeout does not cover the handshake.
Handshake ==
    /\ pc = "handshake"
    /\ \/ up /\ This.kind = "wait" /\ ConnectedForWait
       \/ up /\ This.kind = "session" /\ open' = open + 1 /\ Goto("newSession")
       \/ ~up /\ ConnectFails /\ UNCHANGED open
    /\ UNCHANGED <<session, inputVars>>

-----------------------------------------------------------------------------
(* SingleSession and SSHExecutor. *)

\* The deferred Close of the client runs in either case.
NewSession ==
    /\ pc = "newSession"
    /\ \/ Goto("start") /\ UNCHANGED open
       \/ open' = open - 1 /\ JobReturns("error")
    /\ UNCHANGED <<session, inputVars>>

\* Mutant of StartCommand: stdin is only set once the command has started.
StdinSetLate ==
    /\ pc = "start"
    /\ session' = TRUE
    /\ piped' = (piped \/ This.stdin)
    /\ reply' = "none"
    /\ Goto("running")
    /\ UNCHANGED <<open, terminal, held, pipe, copier, early, answered>>

\* SetStdin replaces os.Stdin by a pipe; Start lets a goroutine copy from it.
StartCommand ==
    /\ pc = "start"
    /\ session' = TRUE
    /\ piped' = (piped \/ This.stdin)
    /\ copier' = IF This.stdin THEN "reading" ELSE copier
    /\ reply' = "none"
    /\ Goto("running")
    /\ UNCHANGED <<open, terminal, held, pipe, early, answered>>

\* executor.Start returns an error: os.Stdin is replaced, but nothing copies from it.
StartFails ==
    /\ pc = "start"
    /\ open' = open - 1
    /\ piped' = (piped \/ This.stdin)
    /\ JobReturns("error")
    /\ UNCHANGED <<session, terminal, held, pipe, copier, reply, early, answered>>

\* The remote command ends, or the connection is lost, which the runner takes
\* for success.  Session.Wait closes the input of the session.
RemoteEnds ==
    /\ pc = "running"
    /\ This.asks => reply # "none"
    /\ session' = FALSE
    /\ Goto("exited")
    /\ UNCHANGED <<open, inputVars>>

ConnectionLost ==
    /\ pc = "running"
    /\ session' = FALSE
    /\ Goto("exited")
    /\ UNCHANGED <<open, inputVars>>

\* Mutant of Wait: the final write to the pipe is left out.
NoFinalWrite ==
    /\ pc = "exited"
    /\ Goto("close")
    /\ UNCHANGED <<connectionVars, inputVars>>

\* SSHExecutor.Wait writes a newline to the pipe "to get out of the SSH stdin copy".
Wait ==
    /\ pc = "exited"
    /\ pipe' = IF piped THEN Append(pipe, "newline") ELSE pipe
    /\ Goto("close")
    /\ UNCHANGED <<connectionVars, terminal, piped, held, copier, reply, early, answered>>

\* Session and client are closed; the command may have returned an exit status.
CloseSession ==
    /\ pc = "close"
    /\ open' = open - 1
    /\ \E res \in {"ok", "error"} : JobReturns(res)
    /\ UNCHANGED <<session, inputVars>>

-----------------------------------------------------------------------------
(* The goroutines and the operator. *)

Pump ==
    /\ piped /\ pc # "over"
    /\ \/ /\ held = "none" /\ terminal # <<>>
          /\ held' = Head(terminal) /\ terminal' = Tail(terminal)
          /\ UNCHANGED pipe
       \/ /\ held # "none"
          /\ pipe' = Append(pipe, held) /\ held' = "none"
          /\ UNCHANGED terminal
    /\ UNCHANGED <<processVars, timeVars, connectionVars, piped, copier, reply, early, answered>>

\* It takes all there is; when the session is over it can not pass it on, and ends.
Copy ==
    /\ copier = "reading" /\ pipe # <<>> /\ pc # "over"
    /\ pipe' = <<>>
    /\ IF session
       THEN /\ reply' = IF This.asks /\ reply = "none" THEN Head(pipe) ELSE reply
            /\ UNCHANGED copier
       ELSE copier' = "ended" /\ UNCHANGED reply
    /\ UNCHANGED <<processVars, timeVars, connectionVars, terminal, piped, held, early, answered>>

\* A question is on the screen; the operator answers it once.
Asked == pc = "prompt" \/ (pc = "running" /\ This.asks /\ reply = "none")

Answer ==
    /\ Asked /\ ~answered
    /\ terminal' = Append(terminal, "answer")
    /\ answered' = TRUE
    /\ UNCHANGED <<processVars, timeVars, connectionVars, piped, held, pipe, copier, reply, early>>

TypeEarly ==
    /\ ~Asked /\ pc # "over" /\ early < MaxEarly
    /\ terminal' = Append(terminal, "early")
    /\ early' = early + 1
    /\ UNCHANGED <<processVars, timeVars, connectionVars, piped, held, pipe, copier, reply, answered>>

\* No goroutine has anything to do.  Seconds pass between the end of a session and
\* the next question (kubectl delete, terraform init), goroutines take less.
Quiet == held = "none" /\ ~(piped /\ terminal # <<>>) /\ ~(copier = "reading" /\ pipe # <<>>)

\* The local command reads a line from what is now os.Stdin: an approval, or not.
Prompt ==
    /\ pc = "prompt"
    /\ \/ /\ piped /\ pipe # <<>>
          /\ reply' = Head(pipe) /\ pipe' = Tail(pipe)
          /\ UNCHANGED terminal
       \/ /\ ~piped /\ terminal # <<>>
          /\ reply' = Head(terminal) /\ terminal' = Tail(terminal)
          /\ UNCHANGED pipe
    /\ \E res \in {"ok", "error"} : (res = "ok" => reply' # "newline") /\ JobReturns(res)
    /\ UNCHANGED <<connectionVars, piped, held, copier, early, answered>>

-----------------------------------------------------------------------------
(* Time. *)

\* How long the process may stay at its step.
Longest ==
    CASE pc = "decrypt" -> DecryptTime
      [] pc = "dial" -> DialTimeout
      [] pc = "handshake" -> HandshakeTime
      [] pc = "sleep" -> 1
      [] OTHER -> 0

Tick ==
    /\ timer < Longest
    /\ timer' = timer + 1
    /\ elapsed' = elapsed + 1
    /\ UNCHANGED <<processVars, up, upAt, connectionVars, inputVars>>

BootUp ==
    /\ ~up /\ pc # "over"
    /\ up' = TRUE /\ upAt' = elapsed
    /\ UNCHANGED <<processVars, elapsed, timer, connectionVars, inputVars>>

-----------------------------------------------------------------------------

ProcessStep ==
    \/ Begin /\ (This.kind = "local" => Quiet)
    \/ Loop \/ Sleep \/ Decrypt \/ Dial \/ Handshake
    \/ NewSession \/ StartCommand \/ StartFails \/ RemoteEnds \/ Wait \/ CloseSession \/ Prompt

Next ==
    \/ ProcessStep \/ ConnectionLost
    \/ Pump \/ Copy \/ Answer \/ TypeEarly
    \/ Tick \/ BootUp

Spec == Init /\ [][Next]_vars

\* The process, its goroutines and time go on; remote commands end; an operator
\* who is asked answers.  Nothing makes a machine come up.
FairSpec ==
    /\ Spec
    /\ WF_vars(ProcessStep) /\ WF_vars(Pump) /\ WF_vars(Copy)
    /\ WF_vars(Answer) /\ WF_vars(Tick)

-----------------------------------------------------------------------------
(* Properties. *)

\* waitForNewMachine and status give up in time: the timeout is overrun by one
\* connection attempt and one pause at most (WaitForSSH looks at the clock between).
WaitIsBounded ==
    This.kind = "wait" => elapsed <= Timeout + AttemptTime

\* WaitForSSH does not give up on a machine that has come up early enough for one
\* more attempt, unless the private key can not be decrypted.
WaitFindsMachine ==
    [][ pc = "loop" /\ pc' \notin {"loop", "decrypt"} /\ keyReadable
        => upAt = Never \/ upAt + AttemptTime > Timeout ]_vars

\* SingleSession and WaitForSSH leave no connection open behind them, however the
\* job ended, so a command that visits every machine holds one at most.
NoConnectionLeft ==
    /\ open <= 1
    /\ pc \in {"begin", "loop", "sleep", "prompt", "over"} => open = 0

\* An operator who types only when asked is the one who answers: neither kubeadm nor
\* terraform takes the newline SSHExecutor.Wait adds for the operator's line.
PromptHearsOperator ==
    early = 0 => reply # "newline"

\* Every command ends although an SSH session has taken os.Stdin away for good: the
\* prompt that follows it still gets the operator's line.
CommandEnds == <>(pc = "over")

=============================================================================
