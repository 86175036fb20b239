-------------------------- MODULE StandardRunnerProofs --------------------------
(***************************************************************************)
(* Theorems about StandardRunner for every number of commands and signals, *)
(* every pipe and every amount of output.                                  *)
(***************************************************************************)
EXTENDS StandardRunner, FiniteSetTheorems, TLAPS

\* The signals on their way to caughtSignals: in a channel, or taken by a goroutine.
Waiting == {r \in Run : channel[r] = 1}
Handling == {r \in Run : goroutine[r] \in {"handle", "append"}}
InFlight == Cardinality(Waiting) + Cardinality(Handling)

ChildTypeOK ==
    /\ child \in {"none", "running"} \cup ExitCodes
    /\ left \in [Pipe -> Nat]
    /\ pipe \in [Pipe -> 0..PipeCapacity]

MainTypeOK ==
    /\ main \in MainSteps
    /\ current \in 0..MaxRuns
    /\ reading \in Seq(Pipe) /\ Len(reading) <= 2
    /\ chained \in BOOLEAN
    /\ outcome \in [Run -> {"none", "ok", "error"}]
    /\ main \in {"read", "register", "wait", "close", "check"} => current \in Run

SignalTypeOK ==
    /\ notify \in 0..MaxRuns
    /\ channel \in [Run -> 0..1]
    /\ closed \in [Run -> BOOLEAN]
    /\ goroutine \in [Run -> {"none", "receive", "handle", "append", "returned"}]
    /\ forwarded \in [Run -> BOOLEAN]
    /\ seen \in [Run -> Nat]
    /\ caught \in Nat
    /\ sent \in 0..MaxSignals

\* Signals are neither invented nor counted twice.  A lost update may make caught
\* smaller, so the bound has to hold for what every goroutine is about to write too.
Counted ==
    /\ caught + InFlight <= sent
    /\ \A r \in Run : seen[r] + (IF goroutine[r] = "append" THEN InFlight ELSE 0) <= sent

RunnerInv == MainTypeOK /\ ChildTypeOK /\ SignalTypeOK /\ Counted

\* The numbers of signals on their way are natural numbers.
LEMMA InFlightType ==
    /\ IsFiniteSet(Waiting) /\ IsFiniteSet(Handling)
    /\ Cardinality(Waiting) \in Nat /\ Cardinality(Handling) \in Nat
    /\ Cardinality(Waiting') \in Nat /\ Cardinality(Handling') \in Nat
<1>1. IsFiniteSet(Run)
    BY MaxRunsAssumption, FS_Interval DEF Run
<1>2. \A S \in SUBSET Run : IsFiniteSet(S) /\ Cardinality(S) \in Nat
    BY <1>1, FS_Subset, FS_CardinalityType
<1>3. /\ Waiting \in SUBSET Run /\ Handling \in SUBSET Run
      /\ Waiting' \in SUBSET Run /\ Handling' \in SUBSET Run
    BY DEF Waiting, Handling
<1> QED BY <1>2, <1>3

\* The invariant is type correctness and a little more.
LEMMA InvImpliesTypeOK == RunnerInv => TypeOK
<1> SUFFICES ASSUME RunnerInv PROVE seen \in [Run -> 0..MaxSignals] /\ caught \in 0..MaxSignals
    BY DEF RunnerInv, MainTypeOK, ChildTypeOK, SignalTypeOK, TypeOK
<1>1. InFlight \in Nat
    BY InFlightType DEF InFlight
<1>2. caught \in 0..MaxSignals
    BY <1>1, MaxSignalsAssumption DEF RunnerInv, SignalTypeOK, Counted
<1>3. ASSUME NEW r \in Run PROVE seen[r] \in 0..MaxSignals
    BY <1>1, MaxSignalsAssumption DEF RunnerInv, SignalTypeOK, Counted
<1> QED BY <1>2, <1>3 DEF RunnerInv, SignalTypeOK

\* run() of a command returns to the caller with a well-typed result.
LEMMA ReturnsType ==
    ASSUME MainTypeOK, NEW r \in Run, NEW x \in {"ok", "error"}, NEW stop, Returns(r, x, stop)
    PROVE  /\ outcome' \in [Run -> {"none", "ok", "error"}]
           /\ main' \in {"next", "done"}
BY DEF MainTypeOK, Returns

\* The steps of run() keep the types of what the main goroutine holds.
LEMMA MainStepType ==
    ASSUME MainTypeOK, ChildTypeOK, MainStep
    PROVE  MainTypeOK' /\ ChildTypeOK'
<1>n. MaxRuns \in Nat /\ Run = 1..MaxRuns
    BY MaxRunsAssumption DEF Run
<1>1. CASE Start
  <2>1. PICK h \in Handlers :
            /\ reading' = ReadOrder(h)
            /\ main' = IF h = "none" THEN "register" ELSE "read"
            /\ left' \in [Pipe -> 0..(FirstOutput + SecondOutput)]
      BY <1>1 DEF Start
  <2>2. reading' \in Seq(Pipe) /\ Len(reading') <= 2
    <3>1. CASE h = "none"
        BY <2>1, <3>1 DEF ReadOrder
    <3>2. CASE h # "none"
        BY <2>1, <3>2 DEF Handlers, Pipe, Other, ReadOrder
    <3> QED BY <3>1, <3>2
  <2>3. left' \in [Pipe -> Nat]
      BY <2>1, OutputAssumption
  <2>4. current' \in Run /\ current' \in 0..MaxRuns
      BY <1>n, <1>1 DEF Start, MainTypeOK
  <2>5. pipe' \in [Pipe -> 0..PipeCapacity]
      BY <1>1, PipeCapacityAssumption DEF Start
  <2> QED BY <1>1, <2>1, <2>2, <2>3, <2>4, <2>5 DEF Start, MainTypeOK, ChildTypeOK, MainSteps
<1>2. CASE \E stop \in BOOLEAN : StartFails(stop)
  <2>1. PICK stop \in BOOLEAN : StartFails(stop)
      BY <1>2
  <2>2. current + 1 \in Run /\ current' \in 0..MaxRuns
      BY <1>n, <2>1 DEF StartFails, MainTypeOK
  <2>3. outcome' \in [Run -> {"none", "ok", "error"}] /\ main' \in {"next", "done"}
      BY <2>1, <2>2, ReturnsType DEF StartFails
  <2> QED BY <2>1, <2>2, <2>3 DEF StartFails, MainTypeOK, ChildTypeOK, MainSteps, childVars
<1>3. CASE Read
  <2>1. reading \in Seq(Pipe) /\ Len(reading) <= 2 /\ reading # <<>>
      BY <1>3 DEF Read, MainTypeOK
  <2>2. Head(reading) \in Pipe
      BY <2>1
  <2>3. Tail(reading) \in Seq(Pipe) /\ Len(Tail(reading)) <= 2
      BY <2>1
  <2>4. reading' \in Seq(Pipe) /\ Len(reading') <= 2
      BY <1>3, <2>1, <2>3 DEF Read
  <2>5. pipe' \in [Pipe -> 0..PipeCapacity]
      BY <1>3, <2>2, PipeCapacityAssumption DEF Read, ChildTypeOK
  <2> QED BY <1>3, <2>4, <2>5 DEF Read, MainTypeOK, ChildTypeOK
<1>4. CASE OutputHandled
    BY <1>4 DEF OutputHandled, MainTypeOK, ChildTypeOK, childVars, MainSteps
<1>5. CASE Register \/ Wait \/ Close
    BY <1>5 DEF Register, Wait, Close, MainTypeOK, ChildTypeOK, childVars, MainSteps
<1>6. CASE \E stop \in BOOLEAN : Check(stop)
  <2>1. PICK stop \in BOOLEAN : Check(stop)
      BY <1>6
  <2>2. PICK x \in {"ok", "error"} : Returns(current, x, stop)
      BY <2>1 DEF Check
  <2>3. current \in Run
      BY <2>1 DEF Check, MainTypeOK
  <2>4. outcome' \in [Run -> {"none", "ok", "error"}] /\ main' \in {"next", "done"}
      BY <2>2, <2>3, ReturnsType
  <2> QED BY <2>1, <2>4 DEF Check, MainTypeOK, ChildTypeOK, MainSteps, childVars
<1> QED BY <1>1, <1>2, <1>3, <1>4, <1>5, <1>6 DEF MainStep

\* The child writes and ends without touching what main and the goroutines hold.
LEMMA ChildStepType ==
    ASSUME MainTypeOK, ChildTypeOK, ChildStep \/ ChildDies
    PROVE  MainTypeOK' /\ ChildTypeOK'
<1>1. CASE ChildExits \/ ChildDies
    BY <1>1 DEF ChildExits, ChildDies, MainTypeOK, ChildTypeOK, mainVars, ExitCodes
<1>2. CASE \E p \in Pipe : ChildWrites(p)
    BY <1>2, PipeCapacityAssumption
       DEF ChildWrites, HasRoom, MainTypeOK, ChildTypeOK, mainVars
<1> QED BY <1>1, <1>2 DEF ChildStep

-----------------------------------------------------------------------------
(* The signals. *)

\* A step that takes nothing into caughtSignals keeps the count, if no more
\* signals are on their way than were sent in it.
LEMMA CountedWhenQuiet ==
    ASSUME SignalTypeOK, Counted, SignalTypeOK', seen' = seen, caught' = caught,
           InFlight' - InFlight <= sent' - sent, sent <= sent',
           \A r \in Run : goroutine'[r] = "append" => goroutine[r] = "append"
    PROVE  Counted'
<1>1. InFlight \in Nat /\ InFlight' \in Nat
    BY InFlightType DEF InFlight
<1>2. caught \in Nat /\ sent \in Nat /\ sent' \in Nat
    BY MaxSignalsAssumption DEF SignalTypeOK
<1>3. ASSUME NEW n \in Nat, n + InFlight <= sent PROVE n + InFlight' <= sent'
  <2>1. \A a, b, c, d, e \in Nat : d + a <= b /\ c - a <= e - b => d + c <= e
      OBVIOUS
  <2> QED BY <1>1, <1>2, <1>3, <2>1
<1>4. caught' + InFlight' <= sent'
    BY <1>2, <1>3 DEF Counted
<1>5. ASSUME NEW r \in Run
      PROVE  seen'[r] + (IF goroutine'[r] = "append" THEN InFlight' ELSE 0) <= sent'
  <2>1. seen[r] \in Nat /\ seen[r] + (IF goroutine[r] = "append" THEN InFlight ELSE 0) <= sent
      BY DEF Counted, SignalTypeOK
  <2>2. CASE goroutine'[r] = "append"
    <3>1. goroutine[r] = "append" /\ seen[r] + InFlight <= sent
        BY <2>1, <2>2
    <3>2. seen[r] + InFlight' <= sent'
        BY <1>3, <2>1, <3>1
    <3> QED BY <2>2, <3>2
  <2>3. CASE goroutine'[r] # "append"
    <3>1. seen[r] <= sent
        BY <1>1, <1>2, <2>1
    <3> QED BY <1>2, <2>1, <2>3, <3>1
  <2> QED BY <2>2, <2>3
<1> QED BY <1>4, <1>5 DEF Counted

\* A step that leaves channels and goroutines alone has nothing to count.
LEMMA SignalsUntouched ==
    ASSUME SignalTypeOK, Counted, UNCHANGED <<signalVars, sent>>
    PROVE  SignalTypeOK' /\ Counted'
BY DEF SignalTypeOK, Counted, InFlight, Waiting, Handling, signalVars

\* NewSignalsHandler starts a goroutine that has received nothing.
LEMMA RegisterCounts ==
    ASSUME RunnerInv, Register
    PROVE  SignalTypeOK' /\ Counted'
<1>1. current \in Run /\ current \in 0..MaxRuns
    BY DEF RunnerInv, MainTypeOK, Register
<1>2. SignalTypeOK'
    BY <1>1 DEF RunnerInv, SignalTypeOK, Register
<1>3. Waiting' = Waiting /\ Handling' \subseteq Handling
    BY <1>1 DEF RunnerInv, SignalTypeOK, Register, Waiting, Handling
<1>4. Cardinality(Handling') <= Cardinality(Handling)
    BY <1>3, InFlightType, FS_Subset
<1>5. InFlight' <= InFlight
    BY <1>3, <1>4, InFlightType DEF InFlight
<1>6. sent' = sent /\ sent \in Nat
    BY MaxSignalsAssumption DEF RunnerInv, SignalTypeOK, Register
<1>7. InFlight' - InFlight <= sent' - sent
    BY <1>5, <1>6, InFlightType DEF InFlight
<1>8. \A r \in Run : goroutine'[r] = "append" => goroutine[r] = "append"
    BY <1>1 DEF RunnerInv, SignalTypeOK, Register
<1> QED BY <1>2, <1>6, <1>7, <1>8, CountedWhenQuiet DEF RunnerInv, Register

\* Close takes nothing out of the channel.
LEMMA CloseCounts ==
    ASSUME RunnerInv, Close
    PROVE  SignalTypeOK' /\ Counted'
<1>1. current \in Run
    BY DEF RunnerInv, MainTypeOK, Close
<1> QED BY <1>1, MaxRunsAssumption
        DEF RunnerInv, SignalTypeOK, Counted, InFlight, Waiting, Handling, Close

\* A signal that is sent fills at most one place of one channel.
LEMMA SignalCounts ==
    ASSUME RunnerInv, Signal
    PROVE  SignalTypeOK' /\ Counted'
<1>1. SignalTypeOK' /\ sent \in Nat /\ sent' = sent + 1
    BY MaxSignalsAssumption, MaxRunsAssumption DEF RunnerInv, SignalTypeOK, Signal, Run
<1>2. Handling' = Handling
    BY DEF Signal, Handling
<1>3. Waiting' \subseteq Waiting \cup {notify}
    BY DEF RunnerInv, SignalTypeOK, Signal, Waiting
<1>4. /\ IsFiniteSet(Waiting \cup {notify})
      /\ Cardinality(Waiting \cup {notify}) \in Nat
      /\ Cardinality(Waiting \cup {notify}) <= Cardinality(Waiting) + 1
  <2>1. IsFiniteSet(Waiting \cup {notify})
      BY InFlightType, FS_AddElement
  <2>2. Cardinality(Waiting \cup {notify}) \in Nat
      BY <2>1, FS_CardinalityType
  <2>3. \/ Cardinality(Waiting \cup {notify}) = Cardinality(Waiting)
        \/ Cardinality(Waiting \cup {notify}) = Cardinality(Waiting) + 1
      BY InFlightType, FS_AddElement
  <2> QED BY <2>1, <2>2, <2>3, InFlightType
<1>5. Cardinality(Waiting') <= Cardinality(Waiting) + 1
    BY <1>3, <1>4, InFlightType, FS_Subset
<1>6. InFlight' - InFlight <= sent' - sent /\ sent <= sent'
    BY <1>1, <1>2, <1>5, InFlightType DEF InFlight
<1> QED BY <1>1, <1>6, CountedWhenQuiet DEF RunnerInv, Signal

\* The goroutine moves a signal from its channel to its own hands.
LEMMA ReceiveCounts ==
    ASSUME RunnerInv, NEW r \in Run, Receive(r)
    PROVE  SignalTypeOK' /\ Counted'
<1>1. SignalTypeOK' /\ sent' = sent /\ sent \in Nat
    BY MaxSignalsAssumption DEF RunnerInv, SignalTypeOK, Receive
<1>2. InFlight' = InFlight
  <2>1. CASE channel[r] > 0
    <3>1. r \in Waiting /\ Waiting' = Waiting \ {r}
        BY <2>1 DEF RunnerInv, SignalTypeOK, Receive, Waiting
    <3>2. r \notin Handling /\ Handling' = Handling \cup {r}
        BY <2>1 DEF RunnerInv, SignalTypeOK, Receive, Handling
    <3>3. Cardinality(Waiting') = Cardinality(Waiting) - 1
        BY <3>1, InFlightType, FS_RemoveElement
    <3>4. Cardinality(Handling') = Cardinality(Handling) + 1
        BY <3>2, InFlightType, FS_AddElement
    <3> QED BY <3>3, <3>4, InFlightType DEF InFlight
  <2>2. CASE ~(channel[r] > 0)
    <3>1. Waiting' = Waiting /\ Handling' = Handling
        BY <2>2 DEF RunnerInv, SignalTypeOK, Receive, Waiting, Handling
    <3> QED BY <3>1 DEF InFlight
  <2> QED BY <2>1, <2>2
<1>3. InFlight' - InFlight <= sent' - sent /\ sent <= sent'
    BY <1>1, <1>2, InFlightType DEF InFlight
<1>4. \A q \in Run : goroutine'[q] = "append" => goroutine[q] = "append"
    BY DEF RunnerInv, SignalTypeOK, Receive
<1> QED BY <1>1, <1>3, <1>4, CountedWhenQuiet DEF RunnerInv, Receive

\* What the goroutine is about to write does not count the signal in its hands.
LEMMA ReadCaughtCounts ==
    ASSUME RunnerInv, NEW r \in Run, ReadCaught(r)
    PROVE  SignalTypeOK' /\ Counted'
<1>1. SignalTypeOK' /\ sent' = sent /\ caught' = caught
    BY DEF RunnerInv, SignalTypeOK, ReadCaught
<1>2. Waiting' = Waiting /\ Handling' = Handling
    BY DEF RunnerInv, SignalTypeOK, ReadCaught, Waiting, Handling
<1>3. InFlight' = InFlight /\ caught + InFlight <= sent
    BY <1>2 DEF InFlight, RunnerInv, Counted
<1>4. ASSUME NEW q \in Run
      PROVE  seen'[q] + (IF goroutine'[q] = "append" THEN InFlight' ELSE 0) <= sent'
    BY <1>1, <1>3 DEF RunnerInv, SignalTypeOK, ReadCaught, Counted
<1> QED BY <1>1, <1>3, <1>4 DEF Counted

\* Only then is it counted, and the goroutine has it no longer.
LEMMA ForwardCounts ==
    ASSUME RunnerInv, NEW r \in Run, Forward(r)
    PROVE  SignalTypeOK' /\ Counted'
<1>1. SignalTypeOK' /\ sent' = sent /\ sent \in Nat /\ seen' = seen /\ seen \in [Run -> Nat]
    BY MaxSignalsAssumption DEF RunnerInv, SignalTypeOK, Forward
<1>2. /\ Waiting' = Waiting
      /\ r \in Handling /\ Handling' = Handling \ {r}
    BY DEF RunnerInv, SignalTypeOK, Forward, Waiting, Handling
<1>3. InFlight \in Nat /\ InFlight' \in Nat /\ InFlight' = InFlight - 1
  <2>1. Cardinality(Handling') = Cardinality(Handling) - 1
      BY <1>2, InFlightType, FS_RemoveElement
  <2> QED BY <1>2, <2>1, InFlightType DEF InFlight
<1>4. caught' + InFlight' <= sent'
    BY <1>1, <1>3 DEF RunnerInv, Counted, Forward
<1>5. ASSUME NEW q \in Run
      PROVE  seen'[q] + (IF goroutine'[q] = "append" THEN InFlight' ELSE 0) <= sent'
    BY <1>1, <1>3 DEF RunnerInv, SignalTypeOK, Forward, Counted
<1> QED BY <1>1, <1>4, <1>5 DEF Counted

-----------------------------------------------------------------------------

\* Every step keeps the invariant.
LEMMA RunnerNext == RunnerInv /\ [Next]_vars => RunnerInv'
<1> SUFFICES ASSUME RunnerInv, [Next]_vars PROVE RunnerInv'
    OBVIOUS
<1>1. CASE MainStep
  <2>1. MainTypeOK' /\ ChildTypeOK'
      BY <1>1, MainStepType DEF RunnerInv
  <2>2. CASE Register
      BY <2>1, <2>2, RegisterCounts DEF RunnerInv
  <2>3. CASE Close
      BY <2>1, <2>3, CloseCounts DEF RunnerInv
  <2>4. CASE UNCHANGED <<signalVars, sent>>
      BY <2>1, <2>4, SignalsUntouched DEF RunnerInv
  <2> QED BY <1>1, <2>2, <2>3, <2>4
          DEF MainStep, Start, StartFails, Read, OutputHandled, Wait, Check
<1>2. CASE ChildStep \/ ChildDies
  <2>1. MainTypeOK' /\ ChildTypeOK'
      BY <1>2, ChildStepType DEF RunnerInv
  <2>2. UNCHANGED <<signalVars, sent>>
      BY <1>2 DEF ChildStep, ChildExits, ChildWrites, ChildDies
  <2> QED BY <2>1, <2>2, SignalsUntouched DEF RunnerInv
<1>3. CASE Signal
  <2>1. MainTypeOK' /\ ChildTypeOK'
      BY <1>3 DEF Signal, RunnerInv, MainTypeOK, ChildTypeOK, childVars, MainSteps
  <2> QED BY <1>3, <2>1, SignalCounts DEF RunnerInv
<1>4. ASSUME NEW r \in Run, GoroutineStep(r) PROVE RunnerInv'
  <2>1. MainTypeOK' /\ ChildTypeOK'
      BY <1>4 DEF GoroutineStep, Receive, ReadCaught, Forward,
                  RunnerInv, MainTypeOK, ChildTypeOK, mainVars, childVars
  <2>2. SignalTypeOK' /\ Counted'
      BY <1>4, ReceiveCounts, ReadCaughtCounts, ForwardCounts DEF GoroutineStep
  <2> QED BY <2>1, <2>2 DEF RunnerInv
<1>5. CASE UNCHANGED vars
  <2>1. UNCHANGED <<signalVars, sent>>
      BY <1>5 DEF vars
  <2>2. MainTypeOK' /\ ChildTypeOK'
      BY <1>5 DEF vars, mainVars, childVars, RunnerInv, MainTypeOK, ChildTypeOK
  <2> QED BY <2>1, <2>2, SignalsUntouched DEF RunnerInv
<1> QED BY <1>1, <1>2, <1>3, <1>4, <1>5 DEF Next, Ended

\* It holds before the first command.
LEMMA RunnerStart == Init => RunnerInv
<1> SUFFICES ASSUME Init PROVE RunnerInv
    OBVIOUS
<1>1. Waiting = {} /\ Handling = {}
    BY DEF Init, Waiting, Handling
<1>2. InFlight = 0
    BY <1>1, FS_EmptySet DEF InFlight
<1>3. SignalTypeOK /\ ChildTypeOK
    BY MaxRunsAssumption, MaxSignalsAssumption, PipeCapacityAssumption
       DEF Init, SignalTypeOK, ChildTypeOK
<1>4. reading \in Seq(Pipe) /\ Len(reading) <= 2
    BY DEF Init
<1>5. main = "next" /\ chained \in BOOLEAN /\ current = 0
    BY DEF Init
<1>6. outcome \in [Run -> {"none", "ok", "error"}]
    BY DEF Init
<1>7. MainTypeOK
    BY <1>4, <1>5, <1>6, MaxRunsAssumption DEF MainTypeOK, MainSteps
<1> QED BY <1>2, <1>3, <1>7, MaxSignalsAssumption DEF Init, RunnerInv, Counted

\* Every variable keeps its type; in particular caughtSignals never holds more
\* signals than were sent, however the goroutines interleave.
THEOREM RunnerTypeCorrect == Spec => []TypeOK
<1>1. Spec => []RunnerInv
    BY RunnerStart, RunnerNext, PTL DEF Spec
<1> QED BY <1>1, InvImpliesTypeOK, PTL

-----------------------------------------------------------------------------
(* A forwarded signal is never forgotten. *)

\* A goroutine that has recorded a signal has left caughtSignals with one; a lost
\* update may drop signals, but it never makes the slice empty again.
Remembered == (\E r \in Run : forwarded[r]) => caught > 0

\* Only Forward touches either side, and it leaves the slice with an element.
LEMMA RememberedNext == RunnerInv /\ Remembered /\ [Next]_vars => Remembered'
<1> SUFFICES ASSUME RunnerInv, Remembered, [Next]_vars PROVE Remembered'
    OBVIOUS
<1>1. ASSUME NEW r \in Run, Forward(r) PROVE Remembered'
  <2>1. caught' = seen[r] + 1 /\ seen[r] \in Nat
      BY <1>1 DEF Forward, RunnerInv, SignalTypeOK
  <2> QED BY <2>1 DEF Remembered
<1>2. CASE UNCHANGED <<forwarded, caught>>
    BY <1>2 DEF Remembered
<1> QED BY <1>1, <1>2
        DEF Next, MainStep, Start, StartFails, Read, OutputHandled, Register, Wait, Close,
            Check, ChildStep, ChildExits, ChildWrites, ChildDies, Signal, GoroutineStep,
            Receive, ReadCaught, Ended, vars, signalVars

\* A step makes a command succeed only at its end and with no signal caught.
LEMMA SuccessNeedsQuiet ==
    ASSUME RunnerInv, [Next]_vars, NEW r \in Run, outcome[r] # "ok", outcome'[r] = "ok"
    PROVE  ~(caught > 0)
<1>1. CASE \E stop \in BOOLEAN : Check(stop)
  <2>1. PICK stop \in BOOLEAN : Check(stop)
      BY <1>1
  <2> QED BY <2>1 DEF Check, Returns, SignalsCaught, RunnerInv, MainTypeOK
<1>2. CASE \E stop \in BOOLEAN : StartFails(stop)
  <2>1. PICK stop \in BOOLEAN : StartFails(stop)
      BY <1>2
  <2> QED BY <2>1 DEF StartFails, Returns, RunnerInv, MainTypeOK
<1>3. CASE UNCHANGED outcome
    BY <1>3
<1> QED BY <1>1, <1>2, <1>3
        DEF Next, MainStep, Start, Read, OutputHandled, Register, Wait, Close,
            ChildStep, ChildExits, ChildWrites, ChildDies, Signal, GoroutineStep,
            Receive, ReadCaught, Forward, Ended, vars, mainVars

\* No command ends well once a goroutine has forwarded a signal to its child or to
\* that of an earlier command, for every interleaving and number of commands.
THEOREM SignalsStopCommands == Spec => NoSuccessAfterForward
<1>1. Init => RunnerInv /\ Remembered
    BY RunnerStart DEF Init, Remembered
<1>2. RunnerInv /\ Remembered /\ [Next]_vars => RunnerInv' /\ Remembered'
    BY RunnerNext, RememberedNext
<1>3. RunnerInv /\ Remembered /\ [Next]_vars =>
          [\A r \in Run : outcome[r] # "ok" /\ outcome'[r] = "ok"
               => \A q \in 1..r : ~forwarded[q]]_vars
  <2> SUFFICES ASSUME RunnerInv, Remembered, [Next]_vars,
                      NEW r \in Run, outcome[r] # "ok", outcome'[r] = "ok",
                      NEW q \in 1..r
               PROVE  ~forwarded[q]
      OBVIOUS
  <2>1. ~(caught > 0)
      BY SuccessNeedsQuiet
  <2>2. q \in Run
      BY MaxRunsAssumption DEF Run
  <2> QED BY <2>1, <2>2 DEF Remembered
<1> QED BY <1>1, <1>2, <1>3, PTL DEF Spec, NoSuccessAfterForward

=============================================================================
