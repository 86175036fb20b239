----------------------------- MODULE StandardRunner -----------------------------
(***************************************************************************)
(* runner/standard.go and runner/signal.go: one StandardRunner running the *)
(* external commands of a ck8s process one after the other.  Concurrent    *)
(* with the main goroutine are the child process, which writes to two      *)
(* pipes and exits, the operator, who sends signals, and one goroutine per *)
(* command that takes signals from a channel of capacity one, records each *)
(* in caughtSignals and forwards it to the child.                          *)
(*                                                                         *)
(* Commands are numbered in the order they are run.  Output is counted in  *)
(* units of which a pipe holds PipeCapacity.  What the caller does between *)
(* two commands is in `stop`: whether an error makes it give up.           *)
(***************************************************************************)
EXTENDS Naturals, Sequences

CONSTANTS
    MaxRuns,          \* bound: commands run by the process
    MaxSignals,       \* bound: signals sent to the process
    PipeCapacity,     \* what a pipe holds before its writer blocks
    FirstOutput,      \* bound: output to the pipe an OutputHandler reads first
    SecondOutput      \* bound: output to the other pipe

ASSUME MaxRunsAssumption == MaxRuns \in Nat \ {0}
ASSUME MaxSignalsAssumption == MaxSignals \in Nat
ASSUME PipeCapacityAssumption == PipeCapacity \in Nat \ {0}
ASSUME OutputAssumption == FirstOutput \in Nat /\ SecondOutput \in Nat

Run == 1..MaxRuns
Pipe == {"stdout", "stderr"}

\* The pipe an OutputHandler reads to the end; "none": Stdout and Stderr are set.
Handlers == {"stdout", "stderr", "none"}

\* How the child ends: with status 0, with a status an ExitCodeHandler is there
\* for, with another status, or with an error that holds no exit code.
ExitCodes == {"zero", "handled", "unhandled", "none"}

VARIABLES
    main,             \* the step of run() the main goroutine is at
    current,          \* the number of the command, 0 before the first
    reading,          \* the pipes main still reads to EOF, in order
    chained,          \* errorChain holds an error of the OutputHandler
    child,            \* "none", "running", or how it exited
    left,             \* per pipe: output the child has not written yet
    pipe,             \* per pipe: output written and not read
    notify,           \* the command whose channel signal.Notify feeds, or 0
    channel,          \* per command: signals in the channel
    closed,           \* per command: the channel is closed
    goroutine,        \* per command: state of the signal goroutine
    seen,             \* per command: the length its goroutine is about to extend
    forwarded,        \* per command: the goroutine has recorded a signal
    caught,           \* length of caughtSignals
    sent,             \* signals sent so far
    outcome           \* per command: what run() returned

childVars == <<child, left, pipe>>
signalVars == <<notify, channel, closed, goroutine, seen, forwarded, caught>>
mainVars == <<main, current, reading, chained, outcome>>
vars == <<mainVars, childVars, signalVars, sent>>

MainSteps == {"next", "read", "register", "wait", "close", "check", "done", "dead"}

TypeOK ==
    /\ main \in MainSteps
    /\ current \in 0..MaxRuns
    /\ reading \in Seq(Pipe) /\ Len(reading) <= 2
    /\ chained \in BOOLEAN
    /\ child \in {"none", "running"} \cup ExitCodes
    /\ left \in [Pipe -> Nat]
    /\ pipe \in [Pipe -> 0..PipeCapacity]
    /\ notify \in 0..MaxRuns
    /\ channel \in [Run -> 0..1]
    /\ closed \in [Run -> BOOLEAN]
    /\ goroutine \in [Run -> {"none", "receive", "handle", "append", "returned"}]
    /\ forwarded \in [Run -> BOOLEAN]
    /\ seen \in [Run -> 0..MaxSignals]
    /\ caught \in 0..MaxSignals
    /\ sent \in 0..MaxSignals
    /\ outcome \in [Run -> {"none", "ok", "error"}]

Init ==
    /\ main = "next" /\ current = 0
    /\ reading = <<>> /\ chained = FALSE
    /\ child = "none"
    /\ left = [p \in Pipe |-> 0] /\ pipe = [p \in Pipe |-> 0]
    /\ notify = 0
    /\ channel = [r \in Run |-> 0] /\ closed = [r \in Run |-> FALSE]
    /\ goroutine = [r \in Run |-> "none"] /\ forwarded = [r \in Run |-> FALSE]
    /\ seen = [r \in Run |-> 0]
    /\ caught = 0 /\ sent = 0
    /\ outcome = [r \in Run |-> "none"]

Other(p) == IF p = "stdout" THEN "stderr" ELSE "stdout"

-----------------------------------------------------------------------------
(* The main goroutine. *)

\* run() of command r returns res; stop: the caller gives up when it gets an error.
Returns(r, res, stop) ==
    /\ outcome' = [outcome EXCEPT ![r] = res]
    /\ main' = IF res = "error" /\ stop THEN "done" ELSE "next"

\* Mutant of ReadOrder: what the OutputHandler leaves unread stays in the pipes.
RestNotRead(h) == IF h = "none" THEN <<>> ELSE <<h>>

ReadOrder(h) == IF h = "none" THEN <<>> ELSE <<h, Other(h)>>

\* executor.Start; with an OutputHandler main reads the handler's pipe, then
\* what remains on stdout and on stderr.
Start ==
    /\ main = "next" /\ current < MaxRuns
    /\ current' = current + 1
    /\ chained' = FALSE
    /\ \E h \in Handlers :
        /\ reading' = ReadOrder(h)
        /\ main' = IF h = "none" THEN "register" ELSE "read"
        /\ left' \in {l \in [Pipe -> 0..(FirstOutput + SecondOutput)] :
                        IF h = "none" THEN \A p \in Pipe : l[p] = 0
                        ELSE l[h] <= FirstOutput /\ l[Other(h)] <= SecondOutput}
    /\ child' = "running"
    /\ pipe' = [p \in Pipe |-> 0]
    /\ UNCHANGED <<outcome, signalVars, sent>>

\* executor.Start returns an error, and run() at once; caughtSignals is not read.
StartFails(stop) ==
    /\ main = "next" /\ current < MaxRuns
    /\ current' = current + 1
    /\ Returns(current + 1, "error", stop)
    /\ UNCHANGED <<reading, chained, childVars, signalVars, sent>>

\* Reads the pipe at hand until EOF, which comes when the child has exited.
Read ==
    /\ main = "read" /\ reading # <<>>
    /\ LET p == Head(reading)
       IN \/ /\ pipe[p] > 0
             /\ pipe' = [pipe EXCEPT ![p] = @ - 1]
             /\ UNCHANGED reading
          \/ /\ pipe[p] = 0 /\ child \in ExitCodes
             /\ reading' = Tail(reading)
             /\ UNCHANGED pipe
    /\ UNCHANGED <<main, current, chained, outcome, child, left, signalVars, sent>>

\* The OutputHandler may have failed; that is kept in errorChain.
OutputHandled ==
    /\ main = "read" /\ reading = <<>>
    /\ chained' \in BOOLEAN
    /\ main' = "register"
    /\ UNCHANGED <<current, reading, outcome, childVars, signalVars, sent>>

\* NewSignalsHandler.
Register ==
    /\ main = "register"
    /\ notify' = current
    /\ goroutine' = [goroutine EXCEPT ![current] = "receive"]
    /\ main' = "wait"
    /\ UNCHANGED <<current, reading, chained, outcome, childVars,
                   channel, closed, seen, forwarded, caught, sent>>

Wait ==
    /\ main = "wait" /\ child \in ExitCodes
    /\ main' = "close"
    /\ UNCHANGED <<current, reading, chained, outcome, childVars, signalVars, sent>>

\* Mutant of Close: the channel is not closed.
CloseStopsOnly ==
    /\ main = "close"
    /\ notify' = 0
    /\ main' = "check"
    /\ UNCHANGED <<current, reading, chained, outcome, childVars,
                   channel, closed, goroutine, seen, forwarded, caught, sent>>

\* SignalsHandler.Close: signal.Stop, then close of the channel.
Close ==
    /\ main = "close"
    /\ notify' = 0
    /\ closed' = [closed EXCEPT ![current] = TRUE]
    /\ main' = "check"
    /\ UNCHANGED <<current, reading, chained, outcome, childVars,
                   channel, goroutine, seen, forwarded, caught, sent>>

\* handleWaitError, whose error is dropped when it says that it handled it.  An
\* ExitCodeHandler may itself fail.
WaitErrorKept(handlerFails) ==
    \/ child = "unhandled"
    \/ child = "handled" /\ handlerFails

\* Mutant of SignalsCaught: caughtSignals starts empty in every run().
CaughtThisRun == forwarded[current]

SignalsCaught == caught > 0

\* The end of run(); caught signals replace what is in errorChain.
Check(stop) ==
    /\ main = "check"
    /\ \E handlerFails \in BOOLEAN :
        Returns(current,
                IF SignalsCaught \/ chained \/ WaitErrorKept(handlerFails) THEN "error" ELSE "ok",
                stop)
    /\ UNCHANGED <<current, reading, chained, childVars, signalVars, sent>>

-----------------------------------------------------------------------------
(* The child. *)

HasRoom(p) == pipe[p] < PipeCapacity

ChildWrites(p) ==
    /\ child = "running" /\ left[p] > 0 /\ HasRoom(p)
    /\ left' = [left EXCEPT ![p] = @ - 1]
    /\ pipe' = [pipe EXCEPT ![p] = @ + 1]
    /\ UNCHANGED <<mainVars, child, signalVars, sent>>

ChildExits ==
    /\ child = "running" /\ \A p \in Pipe : left[p] = 0
    /\ child' \in ExitCodes
    /\ UNCHANGED <<mainVars, left, pipe, signalVars, sent>>

\* It crashes, or a signal to its process group ends it.
ChildDies ==
    /\ child = "running"
    /\ child' \in {"unhandled", "none"}
    /\ left' = [p \in Pipe |-> 0]
    /\ UNCHANGED <<mainVars, pipe, signalVars, sent>>

-----------------------------------------------------------------------------
(* Signals. *)

\* SIGINT or SIGTERM.  Notify never blocks: a signal that finds the channel full
\* is dropped.  While no channel is registered a signal ends the process.
Signal ==
    /\ sent < MaxSignals /\ main \notin {"done", "dead"}
    /\ sent' = sent + 1
    /\ \/ /\ notify # 0
          /\ channel' = [channel EXCEPT ![notify] = 1]
          /\ UNCHANGED main
       \/ /\ notify = 0
          /\ main' = "dead"
          /\ UNCHANGED channel
    /\ UNCHANGED <<current, reading, chained, outcome, childVars,
                   notify, closed, goroutine, seen, forwarded, caught>>

\* A closed channel still yields what it holds.
Receive(r) ==
    /\ goroutine[r] = "receive" /\ main # "dead"
    /\ \/ /\ channel[r] > 0
          /\ channel' = [channel EXCEPT ![r] = 0]
          /\ goroutine' = [goroutine EXCEPT ![r] = "handle"]
       \/ /\ channel[r] = 0 /\ closed[r]
          /\ goroutine' = [goroutine EXCEPT ![r] = "returned"]
          /\ UNCHANGED channel
    /\ UNCHANGED <<mainVars, childVars, notify, closed, seen, forwarded, caught, sent>>

\* StandardRunner.signal.  The append is not synchronised: it reads the slice and
\* writes it back, and the goroutine of an earlier command may come in between.
ReadCaught(r) ==
    /\ goroutine[r] = "handle" /\ main # "dead"
    /\ seen' = [seen EXCEPT ![r] = caught]
    /\ goroutine' = [goroutine EXCEPT ![r] = "append"]
    /\ UNCHANGED <<mainVars, childVars, notify, channel, closed, forwarded, caught, sent>>

\* Mutant of Forward: the signal is appended on each side of the call that forwards it.
ForwardTwice(r) ==
    /\ goroutine[r] = "append" /\ main # "dead"
    /\ caught' = seen[r] + 2
    /\ forwarded' = [forwarded EXCEPT ![r] = TRUE]
    /\ goroutine' = [goroutine EXCEPT ![r] = "receive"]
    /\ UNCHANGED <<mainVars, childVars, notify, channel, closed, seen, sent>>

Forward(r) ==
    /\ goroutine[r] = "append" /\ main # "dead"
    /\ caught' = seen[r] + 1
    /\ forwarded' = [forwarded EXCEPT ![r] = TRUE]
    /\ goroutine' = [goroutine EXCEPT ![r] = "receive"]
    /\ UNCHANGED <<mainVars, childVars, notify, channel, closed, seen, sent>>

-----------------------------------------------------------------------------

\* The process is over, or its last command is.
Ended ==
    /\ \/ main \in {"done", "dead"}
       \/ main = "next" /\ current = MaxRuns
    /\ UNCHANGED vars

MainStep ==
    \/ Start \/ Read \/ OutputHandled \/ Register \/ Wait \/ Close
    \/ \E stop \in BOOLEAN : StartFails(stop) \/ Check(stop)

GoroutineStep(r) == Receive(r) \/ ReadCaught(r) \/ Forward(r)

ChildStep == ChildExits \/ \E p \in Pipe : ChildWrites(p)

Next ==
    \/ MainStep
    \/ ChildStep
    \/ ChildDies
    \/ Signal
    \/ \E r \in Run : GoroutineStep(r)
    \/ Ended

Spec == Init /\ [][Next]_vars

\* The Go scheduler and the kernel let every goroutine and the child run; a child
\* whose output is taken comes to its end.
Fairness ==
    /\ WF_vars(MainStep)
    /\ WF_vars(ChildStep)
    /\ \A r \in Run : WF_vars(GoroutineStep(r))

FairSpec == Spec /\ Fairness

-----------------------------------------------------------------------------
(* Properties. *)

\* No command succeeds after a signal was forwarded to its child or to that of an
\* earlier one: the caller is told to stop even if it ignored an error before, or
\* the goroutine was late.
NoSuccessAfterForward ==
    [][\A r \in Run :
        outcome[r] # "ok" /\ outcome'[r] = "ok" => \A q \in 1..r : ~forwarded[q]]_vars

\* A command during which a signal was accepted does not succeed, so that the
\* caller stops (standard.go: "We do this to alert the caller to stop the
\* execution").  The goroutine may not have run before run() looks.
AcceptedSignalStops ==
    [][\A r \in Run :
        outcome[r] # "ok" /\ outcome'[r] = "ok"
            => channel[r] = 0 /\ goroutine[r] \notin {"handle", "append"}]_vars

\* run() waits for the end of the pipe it reads first, to which the child has no
\* more to write, and the child for room in the other: neither moves again.
Blocked ==
    /\ main = "read" /\ child = "running" /\ Len(reading) = 2
    /\ left[reading[1]] = 0 /\ pipe[reading[1]] = 0
    /\ left[reading[2]] > 0 /\ ~HasRoom(reading[2])

\* Every command that is started comes to an end, or the process is killed.  The
\* one way in which a command does not: its child fills the pipe that run() reads
\* second while run() still reads the first.
RunReturns ==
    \A r \in Run : (current = r) ~> (outcome[r] # "none" \/ main = "dead" \/ Blocked)

\* The goroutine of every command ends after the command, so a process that runs
\* many commands does not collect goroutines.
GoroutinesEnd ==
    \A r \in Run :
        (outcome[r] # "none" /\ goroutine[r] # "none")
            ~> (goroutine[r] = "returned" \/ main = "dead")

=============================================================================
