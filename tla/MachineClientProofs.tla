--------------------------- MODULE MachineClientProofs ---------------------------
(***************************************************************************)
(* Proofs about MachineClient for every timeout, every duration of the     *)
(* steps of a connection attempt and any number of lines typed early:      *)
(* WaitForSSH overruns its timeout by one attempt at most, and no job      *)
(* leaves a connection open.                                               *)
(***************************************************************************)
EXTENDS MachineClient, SequenceTheorems, TLAPS

Job == [kind: {"wait", "session", "local"}, stdin: BOOLEAN, asks: BOOLEAN]

\* The steps at which the connection of a session is open.
Connected == {"newSession", "start", "running", "exited", "close"}

\* A connection is open at those steps and at no others.
Connections == open = IF pc \in Connected THEN 1 ELSE 0

\* No step takes longer than it may, and an attempt begins before the deadline, so
\* what has passed is the time of the steps of one attempt on top of the timeout.
Clock ==
    /\ timer <= Longest
    /\ This.kind = "wait" =>
        /\ pc \in {"begin", "loop", "decrypt", "dial", "handshake", "sleep", "over"}
        /\ pc \in {"begin", "over"} => elapsed = 0
        /\ pc = "loop" => elapsed <= Timeout + AttemptTime
        /\ pc = "decrypt" => elapsed <= Timeout + timer
        /\ pc = "dial" => elapsed <= Timeout + DecryptTime + timer
        /\ pc = "handshake" => elapsed <= Timeout + DecryptTime + DialTimeout + timer
        /\ pc = "sleep" => elapsed <= Timeout + DecryptTime + DialTimeout + HandshakeTime + timer

Inv == TypeOK /\ Connections /\ Clock

-----------------------------------------------------------------------------
(* Jobs and control flow. *)

LEMMA JobsType ==
    /\ DOMAIN Jobs = {"apply", "replace", "upgrade", "status"}
    /\ \A c \in DOMAIN Jobs : /\ Len(Jobs[c]) \in Nat \ {0}
                              /\ \A i \in 1..Len(Jobs[c]) : Jobs[c][i] \in Job
<1>1. Waiting \in Job /\ Approval \in Job /\ \A s, a \in BOOLEAN : Session(s, a) \in Job
    BY DEF Waiting, Approval, Session, Job
<1>2. /\ Jobs.apply = <<Approval, Waiting, Waiting>>
      /\ Jobs.replace = <<Approval, Waiting, Session(TRUE, FALSE), Approval>>
      /\ Jobs.upgrade = <<Session(FALSE, FALSE), Session(TRUE, TRUE)>>
      /\ Jobs.status = <<Waiting, Waiting>>
    BY DEF Jobs
<1>3. DOMAIN Jobs = {"apply", "replace", "upgrade", "status"}
    BY DEF Jobs
<1>4. ASSUME NEW a \in Job, NEW b \in Job, NEW c \in Job, NEW d \in Job
      PROVE  /\ Len(<<a, b>>) = 2 /\ \A i \in 1..2 : <<a, b>>[i] \in Job
             /\ Len(<<a, b, c>>) = 3 /\ \A i \in 1..3 : <<a, b, c>>[i] \in Job
             /\ Len(<<a, b, c, d>>) = 4 /\ \A i \in 1..4 : <<a, b, c, d>>[i] \in Job
    OBVIOUS
<1> HIDE DEF Waiting, Approval, Session, Job
<1>5. Len(Jobs.apply) = 3 /\ \A i \in 1..3 : Jobs.apply[i] \in Job
    BY <1>1, <1>2, <1>4
<1>6. Len(Jobs.replace) = 4 /\ \A i \in 1..4 : Jobs.replace[i] \in Job
  <2>1. Session(TRUE, FALSE) \in Job
      BY <1>1
  <2>2. ASSUME NEW s \in Job PROVE \A i \in 1..4 : <<Approval, Waiting, s, Approval>>[i] \in Job
      BY <1>1, <1>4
  <2>3. Len(Jobs.replace) = 4
      BY <1>2
  <2> QED BY <1>2, <2>1, <2>2, <2>3
<1>7. Len(Jobs.upgrade) = 2 /\ \A i \in 1..2 : Jobs.upgrade[i] \in Job
    BY <1>1, <1>2, <1>4
<1>8. Len(Jobs.status) = 2 /\ \A i \in 1..2 : Jobs.status[i] \in Job
    BY <1>1, <1>2, <1>4
<1> QED BY <1>3, <1>5, <1>6, <1>7, <1>8

LEMMA ThisType ==
    ASSUME TypeOK
    PROVE  This \in Job
BY JobsType DEF TypeOK, This

\* Where a step may take how long.
LEMMA LongestIs ==
    /\ Longest \in Nat
    /\ pc = "decrypt" => Longest = DecryptTime
    /\ pc = "dial" => Longest = DialTimeout
    /\ pc = "handshake" => Longest = HandshakeTime
    /\ pc = "sleep" => Longest = 1
BY TimesAssumption DEF Longest

LEMMA NextLongestIsNat == Longest' \in Nat
BY TimesAssumption DEF Longest

\* Going to the next step of a job starts its timer.
LEMMA GotoKeeps ==
    ASSUME TypeOK, NEW step \in Steps, Goto(step)
    PROVE  /\ pc' = step /\ timer' = 0 /\ elapsed' = elapsed /\ This' = This
           /\ timer' <= Longest'
           /\ command' \in DOMAIN Jobs /\ job' \in 1..Len(Jobs[command'])
           /\ pc' \in Steps /\ result' \in {"none", "ok", "error"}
           /\ keyReadable' \in BOOLEAN /\ up' \in BOOLEAN
           /\ elapsed' \in Nat /\ upAt' \in Nat \cup {Never} /\ timer' \in Nat
BY NextLongestIsNat DEF TypeOK, Goto, This

\* The end of a job starts the clock anew.
LEMMA ReturnKeeps ==
    ASSUME TypeOK, NEW res \in {"ok", "error"}, JobReturns(res)
    PROVE  /\ pc' \in {"begin", "over"} /\ Clock'
           /\ command' \in DOMAIN Jobs /\ job' \in 1..Len(Jobs[command'])
           /\ pc' \in Steps /\ result' \in {"none", "ok", "error"}
           /\ keyReadable' \in BOOLEAN /\ up' \in BOOLEAN
           /\ elapsed' \in Nat /\ upAt' \in Nat \cup {Never} /\ timer' \in Nat
<1>1. pc' \in {"begin", "over"} /\ elapsed' = 0 /\ timer' = 0
    BY DEF JobReturns
<1>2. command' = command /\ job' \in 1..Len(Jobs[command])
  <2>1. Len(Jobs[command]) \in Nat \ {0} /\ job \in 1..Len(Jobs[command])
      BY JobsType DEF TypeOK
  <2> QED BY <2>1 DEF JobReturns
<1>3. Clock'
    BY <1>1, NextLongestIsNat DEF Clock
<1> QED BY <1>1, <1>2, <1>3 DEF JobReturns, TypeOK, Steps

\* A failed attempt of WaitForSSH pauses; a session fails with it.
LEMMA ConnectFailsKeeps ==
    ASSUME TypeOK, ConnectFails,
           This.kind = "wait" =>
               elapsed <= Timeout + DecryptTime + DialTimeout + HandshakeTime
    PROVE  /\ pc' \in {"begin", "over", "sleep"} /\ Clock'
           /\ command' \in DOMAIN Jobs /\ job' \in 1..Len(Jobs[command'])
           /\ pc' \in Steps /\ result' \in {"none", "ok", "error"}
           /\ keyReadable' \in BOOLEAN /\ up' \in BOOLEAN
           /\ elapsed' \in Nat /\ upAt' \in Nat \cup {Never} /\ timer' \in Nat
<1>1. CASE This.kind = "wait"
  <2>1. Goto("sleep") /\ "sleep" \in Steps
      BY <1>1 DEF ConnectFails, Steps
  <2>2. Clock'
      BY <1>1, <2>1, GotoKeeps, TimesAssumption DEF Clock
  <2> QED BY <2>1, <2>2, GotoKeeps
<1>2. CASE This.kind # "wait"
    BY <1>2, ReturnKeeps DEF ConnectFails
<1> QED BY <1>1, <1>2

-----------------------------------------------------------------------------
(* The steps of the process. *)

\* What the goroutines and the operator do, and the steps that leave stdin alone,
\* keep the types of what the operator types.
InputType ==
    /\ terminal \in Seq(Lines) /\ pipe \in Seq(Lines)
    /\ piped \in BOOLEAN
    /\ held \in Lines \cup {"none"}
    /\ copier \in {"none", "reading", "ended"}
    /\ reply \in Lines \cup {"none"}
    /\ early \in 0..MaxEarly /\ answered \in BOOLEAN

LEMMA LinesKept ==
    ASSUME NEW q \in Seq(Lines)
    PROVE  /\ q # <<>> => Head(q) \in Lines /\ Tail(q) \in Seq(Lines)
           /\ \A line \in Lines : Append(q, line) \in Seq(Lines)
BY HeadTailProperties, AppendProperties

LEMMA WaitSteps ==
    ASSUME Inv, Loop \/ Sleep \/ Decrypt \/ Dial \/ Handshake
    PROVE  Inv'
<1> TypeOK /\ Connections /\ Clock /\ This \in Job /\ elapsed \in Nat /\ timer \in Nat
    BY ThisType DEF Inv, TypeOK
<1> USE TimesAssumption DEF Connections, Connected
<1>t. This.kind = "wait" /\ pc \in {"decrypt", "dial", "handshake"} =>
          elapsed <= Timeout + DecryptTime + DialTimeout + HandshakeTime
    BY LongestIs DEF Clock
<1>i. UNCHANGED inputVars => InputType'
    BY DEF TypeOK, InputType, inputVars
<1>1. CASE Loop
  <2>1. CASE JobReturns("error")
      BY <1>1, <1>i, <2>1, ReturnKeeps DEF Loop, Inv, TypeOK, InputType, connectionVars
  <2>2. CASE ~Expired /\ Goto("decrypt")
    <3>1. elapsed <= Timeout /\ "decrypt" \in Steps
        BY <2>2 DEF Expired, Steps
    <3>2. Clock'
        BY <2>2, <3>1, GotoKeeps DEF Clock
    <3> QED BY <1>1, <1>i, <2>2, <3>1, <3>2, GotoKeeps
            DEF Loop, Inv, TypeOK, InputType, connectionVars
  <2> QED BY <1>1, <2>1, <2>2 DEF Loop
<1>2. CASE Sleep
  <2>1. Goto("loop") /\ "loop" \in Steps /\ pc = "sleep" /\ timer = 1
      BY <1>2 DEF Sleep, Steps
  <2>2. Clock'
      BY <2>1, GotoKeeps DEF Clock, AttemptTime
  <2> QED BY <1>2, <1>i, <2>1, <2>2, GotoKeeps
          DEF Sleep, Inv, TypeOK, InputType, connectionVars
<1>3. CASE Decrypt
  <2>1. CASE Goto("dial")
    <3>1. "dial" \in Steps /\ pc = "decrypt" /\ timer <= DecryptTime
        BY <1>3, LongestIs DEF Decrypt, Steps, Clock
    <3>2. Clock'
        BY <2>1, <3>1, GotoKeeps DEF Clock
    <3> QED BY <1>3, <1>i, <2>1, <3>1, <3>2, GotoKeeps
            DEF Decrypt, Inv, TypeOK, InputType, connectionVars
  <2>2. CASE ConnectFails
      BY <1>3, <1>i, <1>t, <2>2, ConnectFailsKeeps
      DEF Decrypt, Inv, TypeOK, InputType, connectionVars
  <2> QED BY <1>3, <2>1, <2>2 DEF Decrypt
<1>4. CASE Dial
  <2>1. CASE Goto("handshake")
    <3>1. "handshake" \in Steps /\ pc = "dial" /\ timer <= DialTimeout
        BY <1>4, LongestIs DEF Dial, Steps, Clock
    <3>2. Clock'
        BY <2>1, <3>1, GotoKeeps DEF Clock
    <3> QED BY <1>4, <1>i, <2>1, <3>1, <3>2, GotoKeeps
            DEF Dial, Inv, TypeOK, InputType, connectionVars
  <2>2. CASE ConnectFails
      BY <1>4, <1>i, <1>t, <2>2, ConnectFailsKeeps
      DEF Dial, Inv, TypeOK, InputType, connectionVars
  <2> QED BY <1>4, <2>1, <2>2 DEF Dial
<1>5. CASE Handshake
  <2>1. CASE ConnectedForWait
      BY <1>5, <1>i, <2>1, ReturnKeeps DEF Handshake, ConnectedForWait, Inv, TypeOK, InputType
  <2>2. CASE This.kind = "session" /\ open' = open + 1 /\ Goto("newSession")
    <3>1. "newSession" \in Steps /\ pc = "handshake"
        BY <1>5 DEF Handshake, Steps
    <3>2. Clock'
        BY <2>2, <3>1, GotoKeeps DEF Clock
    <3> QED BY <1>5, <1>i, <2>2, <3>1, <3>2, GotoKeeps DEF Handshake, Inv, TypeOK, InputType
  <2>3. CASE ConnectFails /\ UNCHANGED open
      BY <1>5, <1>i, <1>t, <2>3, ConnectFailsKeeps DEF Handshake, Inv, TypeOK, InputType
  <2> QED BY <1>5, <2>1, <2>2, <2>3 DEF Handshake
<1> QED BY <1>1, <1>2, <1>3, <1>4, <1>5

LEMMA SessionSteps ==
    ASSUME Inv, NewSession \/ StartCommand \/ StartFails \/ RemoteEnds \/ ConnectionLost \/ Wait \/ CloseSession
    PROVE  Inv'
<1> TypeOK /\ Connections /\ Clock /\ This \in Job
    BY ThisType DEF Inv
<1> USE DEF Connections, Connected
<1>k. pc \in Connected /\ This.kind # "wait"
    BY DEF Clock, NewSession, StartCommand, StartFails, RemoteEnds, ConnectionLost, Wait, CloseSession
<1>i. UNCHANGED inputVars => InputType'
    BY DEF TypeOK, InputType, inputVars
<1>c. \A step \in Steps : Goto(step) => Clock'
    BY <1>k, GotoKeeps DEF Clock
<1>1. CASE NewSession
  <2>1. CASE Goto("start") /\ UNCHANGED open
      BY <1>1, <1>i, <1>c, <2>1, GotoKeeps
      DEF NewSession, Inv, TypeOK, InputType, Steps
  <2>2. CASE open' = open - 1 /\ JobReturns("error")
      BY <1>1, <1>i, <2>2, ReturnKeeps DEF NewSession, Inv, TypeOK, InputType
  <2> QED BY <1>1, <2>1, <2>2 DEF NewSession
<1>2. CASE StartCommand
  <2>1. Goto("running") /\ "running" \in Steps
      BY <1>2 DEF StartCommand, Steps
  <2>2. InputType'
      BY <1>2 DEF StartCommand, TypeOK, InputType, Job
  <2> QED BY <1>2, <1>c, <2>1, <2>2, GotoKeeps DEF StartCommand, Inv, TypeOK, InputType
<1>3. CASE RemoteEnds \/ ConnectionLost
  <2>1. Goto("exited") /\ "exited" \in Steps
      BY <1>3 DEF RemoteEnds, ConnectionLost, Steps
  <2> QED BY <1>3, <1>i, <1>c, <2>1, GotoKeeps
          DEF RemoteEnds, ConnectionLost, Inv, TypeOK, InputType
<1>4. CASE Wait
  <2>1. Goto("close") /\ "close" \in Steps
      BY <1>4 DEF Wait, Steps
  <2>2. InputType'
      BY <1>4 DEF Wait, TypeOK, InputType, Lines
  <2> QED BY <1>4, <1>c, <2>1, <2>2, GotoKeeps DEF Wait, Inv, TypeOK, InputType, connectionVars
<1>5. CASE CloseSession
    BY <1>5, <1>i, ReturnKeeps DEF CloseSession, Inv, TypeOK, InputType
<1>6. CASE StartFails
  <2>1. InputType'
      BY <1>6 DEF StartFails, TypeOK, InputType, Job
  <2> QED BY <1>6, <2>1, ReturnKeeps DEF StartFails, Inv, TypeOK, InputType
<1> QED BY <1>1, <1>2, <1>3, <1>4, <1>5, <1>6

LEMMA PromptSteps ==
    ASSUME Inv, Begin \/ Prompt
    PROVE  Inv'
<1> TypeOK /\ Connections /\ Clock /\ This \in Job
    BY ThisType DEF Inv
<1> USE TimesAssumption DEF Connections, Connected
<1>1. CASE Begin
  <2>1. InputType' /\ UNCHANGED connectionVars
      BY <1>1 DEF Begin, TypeOK, InputType
  <2>2. \/ This.kind = "wait" /\ Goto("loop")
        \/ This.kind = "session" /\ Goto("decrypt")
        \/ This.kind = "local" /\ Goto("prompt")
      BY <1>1 DEF Begin, Job
  <2>3. elapsed \in Nat /\ (This.kind = "wait" => elapsed = 0)
      BY <1>1 DEF Begin, Clock, TypeOK
  <2>4. Clock'
      BY <2>2, <2>3, GotoKeeps DEF Clock, AttemptTime, Steps
  <2> QED BY <1>1, <2>1, <2>2, <2>4, GotoKeeps
          DEF Begin, Inv, TypeOK, InputType, connectionVars, Steps
<1>2. CASE Prompt
  <2>1. InputType'
      BY <1>2, LinesKept DEF Prompt, TypeOK, InputType
  <2> QED BY <1>2, <2>1, ReturnKeeps DEF Prompt, Inv, TypeOK, InputType, connectionVars
<1> QED BY <1>1, <1>2

-----------------------------------------------------------------------------
(* The goroutines, the operator and time. *)

LEMMA InputSteps ==
    ASSUME Inv, Pump \/ Copy \/ Answer \/ TypeEarly
    PROVE  Inv'
<1> TypeOK
    BY DEF Inv
<1>1. UNCHANGED <<processVars, timeVars, connectionVars>>
    BY DEF Pump, Copy, Answer, TypeEarly
<1>2. InputType'
  <2>lines. "none" \notin Lines /\ {"answer", "early"} \subseteq Lines
      BY DEF Lines
  <2>1. CASE Pump
      BY <2>lines, <2>1, LinesKept DEF Pump, TypeOK, InputType
  <2>2. CASE Copy
      BY <2>2, LinesKept DEF Copy, TypeOK, InputType
  <2>3. CASE Answer
      BY <2>lines, <2>3, LinesKept DEF Answer, TypeOK, InputType
  <2>4. CASE TypeEarly
      BY <2>lines, <2>4, LinesKept, MaxEarlyAssumption DEF TypeEarly, TypeOK, InputType
  <2> QED BY <2>1, <2>2, <2>3, <2>4
<1>3. Clock' /\ Connections'
    BY <1>1 DEF Inv, Clock, Connections, Longest, This, processVars, timeVars, connectionVars
<1> QED BY <1>1, <1>2, <1>3 DEF Inv, TypeOK, InputType, processVars, timeVars, connectionVars

LEMMA TimeSteps ==
    ASSUME Inv, Tick \/ BootUp
    PROVE  Inv'
<1> TypeOK /\ Clock /\ elapsed \in Nat /\ timer \in Nat
    BY DEF Inv, TypeOK
<1>1. UNCHANGED <<processVars, connectionVars, inputVars>>
    BY DEF Tick, BootUp
<1>2. This' = This /\ Longest' = Longest /\ pc' = pc
    BY <1>1 DEF This, Longest, processVars
<1>3. CASE Tick
  <2>1. timer' = timer + 1 /\ elapsed' = elapsed + 1 /\ timer < Longest
      BY <1>3 DEF Tick
  <2>2. pc \in {"decrypt", "dial", "handshake", "sleep"}
      BY <2>1 DEF Longest
  <2>3. Clock'
      BY <1>2, <2>1, <2>2, LongestIs, TimesAssumption DEF Clock
  <2> QED BY <1>1, <1>3, <2>1, <2>3
          DEF Tick, Inv, TypeOK, Connections, processVars, connectionVars, inputVars
<1>4. CASE BootUp
  <2>1. UNCHANGED <<elapsed, timer>> /\ up' = TRUE /\ upAt' = elapsed
      BY <1>4 DEF BootUp
  <2>2. Clock'
      BY <1>2, <2>1 DEF Clock
  <2> QED BY <1>1, <2>1, <2>2
          DEF Inv, TypeOK, Connections, processVars, connectionVars, inputVars
<1> QED BY <1>3, <1>4

-----------------------------------------------------------------------------
(* The theorems. *)

LEMMA InvInit == Init => Inv
<1> SUFFICES ASSUME Init PROVE Inv
    OBVIOUS
<1>1. TypeOK
  <2>1. 1 \in 1..Len(Jobs[command]) /\ command \in DOMAIN Jobs
      BY JobsType DEF Init
  <2>2. 0 \in 0..MaxEarly
      BY MaxEarlyAssumption
  <2>3. <<>> \in Seq(Lines)
      BY EmptySeq
  <2>4. InputType
      BY <2>2, <2>3 DEF Init, InputType
  <2>5. job \in 1..Len(Jobs[command]) /\ command \in DOMAIN Jobs
      BY <2>1 DEF Init
  <2>6. pc \in Steps /\ result \in {"none", "ok", "error"}
      BY DEF Init, Steps
  <2>7. keyReadable \in BOOLEAN /\ up \in BOOLEAN /\ session \in BOOLEAN
      BY Zenon DEF Init
  <2>8. upAt \in Nat \cup {Never}
      BY DEF Init
  <2>9. elapsed \in Nat /\ timer \in Nat /\ open \in 0..1
      BY DEF Init
  <2> QED BY <2>4, <2>5, <2>6, <2>7, <2>8, <2>9 DEF InputType, TypeOK
<1> QED BY <1>1, LongestIs DEF Init, Inv, Connections, Connected, Clock

LEMMA InvNext == Inv /\ [Next]_vars => Inv'
<1> SUFFICES ASSUME Inv, [Next]_vars PROVE Inv'
    OBVIOUS
<1>1. CASE UNCHANGED vars
    BY <1>1 DEF vars, processVars, timeVars, connectionVars, inputVars, Inv, TypeOK, Connections,
                Clock, Longest, This
<1>2. CASE Next
    BY <1>2, WaitSteps, SessionSteps, PromptSteps, InputSteps, TimeSteps DEF Next, ProcessStep
<1> QED BY <1>1, <1>2

LEMMA InvHolds == Spec => []Inv
BY InvInit, InvNext, PTL DEF Spec

\* The process, the connections and the input keep their types.
THEOREM MachineClientTypeCorrect == Spec => []TypeOK
<1>1. Inv => TypeOK
    BY DEF Inv
<1> QED BY <1>1, InvHolds, PTL

\* WaitForSSH (client/machine.go) overruns its timeout by the time of one connection
\* attempt and of one pause at most, however long each of its parts takes.
THEOREM WaitOverrunsByOneAttempt == Spec => []WaitIsBounded
<1>1. Inv => WaitIsBounded
    BY LongestIs, TimesAssumption DEF Inv, TypeOK, Clock, WaitIsBounded, AttemptTime
<1> QED BY <1>1, InvHolds, PTL

\* However a job ends, its connection is closed (SingleSession, WaitForSSH), so a
\* command that visits every machine holds one at a time.
THEOREM ConnectionsAreClosed == Spec => []NoConnectionLeft
<1>1. Inv => NoConnectionLeft
    BY DEF Inv, Connections, Connected, NoConnectionLeft
<1> QED BY <1>1, InvHolds, PTL

-----------------------------------------------------------------------------
(* Who answers the question.  The newline that SSHExecutor.Wait writes to the pipe *)
(* is gone before the next question, because the copier of the session that is     *)
(* over still waits for a line when it comes and takes it.                         *)

Typed == {"early", "answer"}

\* Each step belongs to a kind of job, and only a running session takes input.
PcFits ==
    /\ pc \in Connected => This.kind = "session"
    /\ pc = "prompt" => This.kind = "local"
    /\ pc \in {"loop", "sleep"} => This.kind = "wait"
    /\ session => pc = "running"

TypedOnly == terminal \in Seq(Typed) /\ held \in Typed \cup {"none"}

\* The newline may be in the pipe: nothing is asked for, or the copier will take it.
Flushing ==
    \/ command = "upgrade" /\ job = 2 /\ pc \in {"close", "over"}
    \/ /\ command = "replace" /\ copier = "reading"
       /\ \/ pc = "over"
          \/ job = 3 /\ pc = "close"
          \/ job = 4 /\ pc = "begin"

\* The jobs in which, or after which, a session has taken os.Stdin.
Taken == (command = "upgrade" /\ job = 2) \/ (command = "replace" /\ job \in {3, 4})

\* Up to the end of replace's session an answer only lies about while its question is
\* on the screen, so nothing but the newline can wake the copier of that session.
ReplaceWaits ==
    command = "replace" /\ job \in 1..3 =>
        /\ terminal = IF pc = "prompt" /\ answered THEN <<"answer">> ELSE <<>>
        /\ held = "none"
        /\ pc \notin {"close", "over"} => pipe = <<>>
        /\ pc \in {"running", "exited"} => copier = "reading"

Hears ==
    /\ reply # "newline"
    /\ piped => Taken
    /\ ~piped => pipe = <<>> /\ held = "none" /\ copier = "none"
    /\ ReplaceWaits
    /\ pipe \in Seq(Typed) \/ Flushing

HearsInv == Inv /\ PcFits /\ TypedOnly /\ (early = 0 => Hears)

\* The sessions that take stdin, and the one of them that asks.
LEMMA Sessions ==
    ASSUME TypeOK, This.kind = "session"
    PROVE  /\ This.stdin => Taken
           /\ This.asks => command = "upgrade" /\ job = 2
           /\ command = "replace" => job = 3 /\ This.stdin
<1>1. Approval.kind # "session" /\ Waiting.kind # "session"
    BY DEF Approval, Waiting
<1>2. \A s, a : Session(s, a).stdin = s /\ Session(s, a).asks = a
    BY DEF Session
<1>3. CASE command \in {"apply", "status"}
    BY <1>1, <1>3 DEF This, TypeOK, Jobs
<1>4. CASE command = "upgrade"
  <2>1. Jobs[command] = <<Session(FALSE, FALSE), Session(TRUE, TRUE)>>
      BY <1>4 DEF Jobs
  <2>2. job \in 1..2 /\ This = <<Session(FALSE, FALSE), Session(TRUE, TRUE)>>[job]
      BY <2>1 DEF This, TypeOK
  <2>3. job = 1 => This = Session(FALSE, FALSE)
      BY <2>2
  <2>4. job = 2 => This = Session(TRUE, TRUE)
      BY <2>2
  <2>5. CASE job = 1
    <3>1. ~This.stdin /\ ~This.asks
        BY <1>2, <2>3, <2>5
    <3> QED BY <1>4, <3>1
  <2>6. CASE job = 2
      BY <1>4, <2>6 DEF Taken
  <2> QED BY <2>2, <2>5, <2>6
<1>5. CASE command = "replace"
  <2>1. Jobs[command] = <<Approval, Waiting, Session(TRUE, FALSE), Approval>>
      BY <1>5 DEF Jobs
  <2>2. job \in 1..4 /\ This = <<Approval, Waiting, Session(TRUE, FALSE), Approval>>[job]
      BY <2>1 DEF This, TypeOK
  <2>3. /\ job = 1 => This = Approval
        /\ job = 2 => This = Waiting
        /\ job = 3 => This = Session(TRUE, FALSE)
        /\ job = 4 => This = Approval
    <3>1. \A a, b, c, d : /\ <<a, b, c, d>>[1] = a /\ <<a, b, c, d>>[2] = b
                          /\ <<a, b, c, d>>[3] = c /\ <<a, b, c, d>>[4] = d
        OBVIOUS
    <3>2. /\ <<Approval, Waiting, Session(TRUE, FALSE), Approval>>[1] = Approval
          /\ <<Approval, Waiting, Session(TRUE, FALSE), Approval>>[2] = Waiting
          /\ <<Approval, Waiting, Session(TRUE, FALSE), Approval>>[3] = Session(TRUE, FALSE)
          /\ <<Approval, Waiting, Session(TRUE, FALSE), Approval>>[4] = Approval
        BY <3>1
    <3> QED BY <2>2, <3>2
  <2>jobs. job = 1 \/ job = 2 \/ job = 3 \/ job = 4
      BY <2>2
  <2>4. job = 3 /\ This = Session(TRUE, FALSE)
      BY <1>1, <2>jobs, <2>3
  <2>5. This.stdin /\ ~This.asks
      BY <1>2, <2>4
  <2> QED BY <1>5, <2>4, <2>5 DEF Taken
<1> QED BY <1>3, <1>4, <1>5, JobsType DEF TypeOK

\* The jobs that take os.Stdin are the last two of replace and the last of upgrade.
LEMMA NextJob ==
    ASSUME TypeOK, NEW res \in {"ok", "error"}, JobReturns(res)
    PROVE  /\ command' = command /\ job' \in {job, job + 1} /\ pc' \in {"begin", "over"}
           /\ job' = job => pc' = "over"
           /\ job' = job + 1 => pc' = "begin"
           /\ Taken => Taken'
           /\ command = "upgrade" /\ job = 2 => pc' = "over" /\ job' = 2
           /\ job \in Nat \ {0}
<1>1. Len(Jobs["upgrade"]) = 2 /\ Len(Jobs["replace"]) = 4
    BY DEF Jobs
<1>2. job \in 1..Len(Jobs[command])
    BY DEF TypeOK
<1>3. Len(Jobs[command]) \in Nat
    BY JobsType DEF TypeOK
<1>4. command' = command /\ pc' \in {"begin", "over"} /\ job \in Nat \ {0}
    BY <1>2, <1>3 DEF JobReturns
<1>5. \/ job' = job /\ pc' = "over"
      \/ job' = job + 1 /\ pc' = "begin" /\ job # Len(Jobs[command])
    BY DEF JobReturns
<1>6. command = "upgrade" /\ job = 2 => pc' = "over" /\ job' = 2
    BY <1>1, <1>5
<1>7. command = "replace" => job \in 1..4 /\ job' \in 1..4
  <2> SUFFICES ASSUME command = "replace" PROVE job \in 1..4 /\ job' \in 1..4
      OBVIOUS
  <2>1. Len(Jobs[command]) = 4
      BY <1>1
  <2>2. job \in 1..4
      BY <1>2, <2>1
  <2> QED BY <1>5, <2>1, <2>2
<1>8. Taken => Taken'
    BY <1>4, <1>5, <1>6, <1>7 DEF Taken
<1> QED BY <1>4, <1>5, <1>6, <1>8

LEMMA PcFitsNext == Inv /\ PcFits /\ [Next]_vars => PcFits'
<1> SUFFICES ASSUME Inv, PcFits, [Next]_vars PROVE PcFits'
    OBVIOUS
<1> TypeOK
    BY DEF Inv
<1> USE DEF PcFits, Connected
<1>1. \A res \in {"ok", "error"} : JobReturns(res) => pc' \in {"begin", "over"}
    BY DEF JobReturns
<1>2. \A step \in Steps : Goto(step) => pc' = step /\ This' = This
    BY GotoKeeps
<1> USE <1>1, <1>2 DEF Steps
<1>3. ConnectFails => \/ pc' \in {"begin", "over"}
                      \/ pc' = "sleep" /\ This' = This /\ This.kind = "wait"
    BY DEF ConnectFails
<1>4. CASE Loop \/ Sleep \/ Decrypt \/ Dial
    BY <1>3, <1>4 DEF Loop, Sleep, Decrypt, Dial, connectionVars
<1>5. CASE Handshake
    BY <1>3, <1>5 DEF Handshake, ConnectedForWait
<1>6. CASE NewSession \/ StartCommand \/ StartFails \/ RemoteEnds \/ ConnectionLost \/ Wait \/ CloseSession
    BY <1>6 DEF NewSession, StartCommand, StartFails, RemoteEnds, ConnectionLost, Wait, CloseSession,
                connectionVars
<1>7. CASE Begin
  <2>1. \/ This.kind = "wait" /\ Goto("loop")
        \/ Goto("decrypt")
        \/ This.kind = "local" /\ Goto("prompt")
      BY <1>7, ThisType DEF Begin, Job
  <2> QED BY <1>7, <2>1 DEF Begin, connectionVars
<1>8. CASE Prompt
    BY <1>8 DEF Prompt, connectionVars
<1>9. CASE UNCHANGED <<command, job, pc, session>>
    BY <1>9 DEF This
<1>10. CASE Pump \/ Copy \/ Answer \/ TypeEarly \/ Tick \/ BootUp \/ UNCHANGED vars
  <2>1. UNCHANGED <<command, job, pc, session>>
      BY <1>10 DEF Pump, Copy, Answer, TypeEarly, Tick, BootUp, vars, processVars, connectionVars
  <2> QED BY <1>9, <2>1
<1> QED BY <1>4, <1>5, <1>6, <1>7, <1>8, <1>10 DEF Next, ProcessStep

LEMMA TypedKept ==
    ASSUME NEW q \in Seq(Typed)
    PROVE  /\ q # <<>> => Head(q) \in Typed /\ Tail(q) \in Seq(Typed)
           /\ \A line \in Typed : Append(q, line) \in Seq(Typed)
BY HeadTailProperties, AppendProperties

LEMMA TypedNext == TypedOnly /\ [Next]_vars => TypedOnly'
<1> SUFFICES ASSUME TypedOnly, [Next]_vars PROVE TypedOnly'
    OBVIOUS
<1> terminal \in Seq(Typed) /\ {"answer", "early"} \subseteq Typed
    BY DEF TypedOnly, Typed
<1>1. CASE Pump
    BY <1>1, TypedKept DEF Pump, TypedOnly
<1>2. CASE Answer \/ TypeEarly
    BY <1>2, TypedKept DEF Answer, TypeEarly, TypedOnly
<1>3. CASE Prompt
    BY <1>3, TypedKept DEF Prompt, TypedOnly
<1>4. CASE UNCHANGED <<terminal, held>>
    BY <1>4 DEF TypedOnly
<1>5. CASE Loop \/ Sleep \/ Decrypt \/ Dial \/ Handshake \/ NewSession \/ RemoteEnds
           \/ ConnectionLost \/ CloseSession \/ Tick \/ BootUp \/ UNCHANGED vars
  <2>1. UNCHANGED <<terminal, held>>
      BY <1>5 DEF Loop, Sleep, Decrypt, Dial, Handshake, NewSession, RemoteEnds, ConnectionLost,
                  CloseSession, Tick, BootUp, vars, inputVars
  <2> QED BY <1>4, <2>1
<1>6. CASE Begin \/ StartCommand \/ StartFails \/ Wait \/ Copy
    BY <1>4, <1>6 DEF Begin, StartCommand, StartFails, Wait, Copy
<1> QED BY <1>1, <1>2, <1>3, <1>5, <1>6 DEF Next, ProcessStep

\* What every step assumes from here on.
Listening == Inv /\ PcFits /\ TypedOnly /\ early = 0 /\ Hears

LEMMA HearsReturn ==
    ASSUME Listening, NEW res \in {"ok", "error"}, JobReturns(res), UNCHANGED inputVars,
           pc \notin {"prompt", "begin", "over"}
    PROVE  Hears'
<1> TypeOK
    BY DEF Listening, Inv
<1>close. command = "replace" /\ pc = "close" => job = 3
    BY Sessions DEF Listening, PcFits, Connected
<1>1. ReplaceWaits'
    BY <1>close, NextJob DEF Listening, Hears, ReplaceWaits, inputVars
<1>2. pipe \in Seq(Typed) \/ Flushing'
    BY NextJob DEF Listening, Hears, Flushing, inputVars
<1> QED BY <1>1, <1>2, NextJob DEF Listening, Hears, inputVars

LEMMA HearsGoto ==
    ASSUME Listening, UNCHANGED inputVars,
           pc \in {"loop", "sleep", "decrypt", "dial", "handshake", "newSession", "running"},
           NEW step \in Steps \ {"prompt", "running"}, step = "exited" => pc = "running",
           Goto(step)
    PROVE  Hears'
<1>1. pc' = step /\ UNCHANGED <<command, job>>
    BY DEF Goto
<1>2. pipe \in Seq(Typed)
    BY DEF Listening, Hears, Flushing
<1>3. ReplaceWaits'
    BY <1>1 DEF Listening, Hears, ReplaceWaits, inputVars
<1>4. Taken => Taken'
    BY <1>1 DEF Taken
<1> QED BY <1>2, <1>3, <1>4 DEF Listening, Hears, inputVars

LEMMA HearsConnection ==
    ASSUME Listening, \/ Loop \/ Sleep \/ Decrypt \/ Dial \/ Handshake \/ NewSession
                      \/ RemoteEnds \/ ConnectionLost \/ CloseSession
    PROVE  Hears'
<1> USE HearsReturn, HearsGoto DEF Steps
<1>1. pc \in {"decrypt", "dial", "handshake"} /\ UNCHANGED inputVars /\ ConnectFails => Hears'
    BY DEF ConnectFails
<1>2. CASE Loop \/ Sleep
    BY <1>2 DEF Loop, Sleep
<1>3. CASE Decrypt \/ Dial
    BY <1>1, <1>3 DEF Decrypt, Dial
<1>4. CASE Handshake
    BY <1>1, <1>4 DEF Handshake, ConnectedForWait
<1>5. CASE NewSession
    BY <1>5 DEF NewSession
<1>6. CASE RemoteEnds \/ ConnectionLost \/ CloseSession
    BY <1>6 DEF RemoteEnds, ConnectionLost, CloseSession
<1> QED BY <1>2, <1>3, <1>4, <1>5, <1>6

LEMMA HearsSession ==
    ASSUME Listening, StartCommand \/ StartFails \/ Wait
    PROVE  Hears'
<1> TypeOK /\ PcFits /\ pc \in Connected /\ This.kind = "session"
    BY DEF Listening, Inv, PcFits, Connected, StartCommand, StartFails, Wait
<1>1. CASE StartCommand
  <2>1. /\ pc = "start" /\ pc' = "running" /\ UNCHANGED <<command, job>>
        /\ piped' = (piped \/ This.stdin) /\ reply' = "none"
        /\ copier' = IF This.stdin THEN "reading" ELSE copier
        /\ UNCHANGED <<terminal, held, pipe, answered>>
      BY <1>1 DEF StartCommand, Goto
  <2>2. pipe \in Seq(Typed)
      BY <2>1 DEF Listening, Hears, Flushing
  <2>3. piped' => Taken'
    <3>1. piped \/ This.stdin => Taken
        BY Sessions DEF Listening, Hears
    <3>2. Taken => Taken'
        BY <2>1 DEF Taken
    <3> QED BY <2>1, <3>1, <3>2
  <2>4. ReplaceWaits'
      BY <2>1, Sessions DEF Listening, Hears, ReplaceWaits
  <2> QED BY <2>1, <2>2, <2>3, <2>4 DEF Listening, Hears
<1>2. CASE Wait
  <2>1. /\ pc = "exited" /\ pc' = "close" /\ UNCHANGED <<command, job>>
        /\ UNCHANGED <<terminal, held, piped, copier, reply, answered>>
        /\ piped \/ pipe' = pipe
      BY <1>2 DEF Wait, Goto
  <2>2. piped => Flushing'
      BY <2>1, Sessions DEF Listening, Hears, Taken, Flushing, ReplaceWaits
  <2>3. ReplaceWaits' /\ (Taken => Taken')
      BY <2>1 DEF Listening, Hears, ReplaceWaits, Taken
  <2>4. ~piped => pipe' \in Seq(Typed)
      BY <2>1, EmptySeq DEF Listening, Hears
  <2> QED BY <2>1, <2>2, <2>3, <2>4 DEF Listening, Hears
<1>3. CASE StartFails
  <2>1. command # "status"
      BY Sessions DEF TypeOK, Jobs, This, Waiting
  <2>2. /\ pc = "start" /\ pc' = "over" /\ UNCHANGED <<command, job>>
        /\ piped' = (piped \/ This.stdin)
        /\ UNCHANGED <<terminal, held, pipe, copier, reply, answered>>
      BY <1>3, <2>1 DEF StartFails, JobReturns
  <2>3. pipe \in Seq(Typed)
      BY <2>2 DEF Listening, Hears, Flushing
  <2>4. piped' => Taken'
      BY <2>2, Sessions DEF Listening, Hears, Taken
  <2>5. ReplaceWaits'
      BY <2>2 DEF Listening, Hears, ReplaceWaits
  <2> QED BY <2>2, <2>3, <2>4, <2>5 DEF Listening, Hears
<1> QED BY <1>1, <1>2, <1>3

LEMMA HearsQuestion ==
    ASSUME Listening, (Begin /\ (This.kind = "local" => Quiet)) \/ Prompt
    PROVE  Hears'
<1> TypeOK /\ PcFits
    BY DEF Listening, Inv
<1>e. <<>> \in Seq(Typed)
    BY EmptySeq
<1>1. CASE Begin /\ (This.kind = "local" => Quiet)
  <2>1. /\ pc = "begin" /\ UNCHANGED <<command, job>> /\ answered' = FALSE
        /\ UNCHANGED <<terminal, piped, held, pipe, copier, reply>>
        /\ pc' = (CASE This.kind = "wait" -> "loop" [] This.kind = "session" -> "decrypt"
                    [] This.kind = "local" -> "prompt")
      BY <1>1 DEF Begin, Goto
  <2>2. This.kind \in {"wait", "session", "local"}
      BY ThisType DEF Job
  <2>3. pc' \in {"loop", "decrypt", "prompt"}
      BY <2>1, <2>2
  <2>4. ReplaceWaits' /\ (Taken => Taken')
      BY <2>1, <2>3 DEF Listening, Hears, ReplaceWaits, Taken
  <2>5. pipe \in Seq(Typed)
    <3>1. Flushing => command = "replace" /\ job = 4 /\ copier = "reading"
        BY <2>1 DEF Flushing
    <3>2. command = "replace" /\ job = 4 => This.kind = "local"
        BY DEF This, Jobs, Approval
    <3> QED BY <1>1, <1>e, <3>1, <3>2 DEF Listening, Hears, Quiet
  <2> QED BY <2>1, <2>4, <2>5 DEF Listening, Hears
<1>2. CASE Prompt
  <2>1. /\ pc = "prompt" /\ UNCHANGED <<piped, held, copier, answered>>
        /\ \/ piped /\ pipe # <<>> /\ reply' = Head(pipe) /\ pipe' = Tail(pipe)
              /\ UNCHANGED terminal
           \/ ~piped /\ terminal # <<>> /\ reply' = Head(terminal) /\ terminal' = Tail(terminal)
              /\ UNCHANGED pipe
      BY <1>2 DEF Prompt
  <2>2. PICK res \in {"ok", "error"} : JobReturns(res)
      BY <1>2 DEF Prompt
  <2>3. pipe \in Seq(Typed) /\ terminal \in Seq(Typed)
      BY <2>1 DEF Listening, Hears, Flushing, TypedOnly
  <2>4. reply' \in Typed /\ pipe' \in Seq(Typed)
      BY <2>1, <2>3, TypedKept
  <2>5. piped' => Taken'
      BY <2>1, <2>2, NextJob DEF Listening, Hears
  <2>6. ReplaceWaits'
    <3> SUFFICES ASSUME command' = "replace", job' \in 1..3 PROVE ReplaceWaits'
        BY DEF ReplaceWaits
    <3>1. command = "replace" /\ job \in 1..3 /\ pc' \in {"begin", "over"}
        BY <2>2, NextJob
    <3>2. job # 3
        BY <2>1, <3>1 DEF PcFits, This, Jobs, Session
    <3>3. ~piped
        BY <3>1, <3>2 DEF Listening, Hears, Taken
    <3>4. terminal = <<"answer">>
        BY <2>1, <3>1, <3>3 DEF Listening, Hears, ReplaceWaits
    <3>5. terminal' = <<>>
        BY <2>1, <3>3, <3>4
    <3> QED BY <2>1, <3>1, <3>5 DEF Listening, Hears, ReplaceWaits
  <2> QED BY <2>1, <2>4, <2>5, <2>6 DEF Listening, Hears, Typed
<1> QED BY <1>1, <1>2

LEMMA HearsInput ==
    ASSUME Listening, Pump \/ Copy \/ Answer
    PROVE  Hears'
<1> TypeOK /\ PcFits /\ terminal \in Seq(Typed) /\ held \in Typed \cup {"none"}
    BY DEF Listening, Inv, TypedOnly
<1>e. <<>> \in Seq(Typed)
    BY EmptySeq
<1>p. UNCHANGED <<command, job, pc>>
    BY DEF Pump, Copy, Answer, processVars
<1>q. (Taken => Taken') /\ (copier' = copier => Flushing' = Flushing)
    BY <1>p DEF Taken, Flushing
<1>1. CASE Pump
  <2>1. piped /\ Taken /\ UNCHANGED <<piped, copier, reply, answered>>
      BY <1>1 DEF Pump, Listening, Hears
  <2>2. ReplaceWaits'
    <3> SUFFICES ASSUME command' = "replace", job' \in 1..3 PROVE FALSE
        BY DEF ReplaceWaits
    <3>1. command = "replace" /\ job = 3
        BY <1>p, <2>1 DEF Taken
    <3>2. pc # "prompt"
        BY <3>1 DEF PcFits, This, Jobs, Session
    <3>3. terminal = <<>> /\ held = "none"
        BY <3>1, <3>2 DEF Listening, Hears, ReplaceWaits
    <3> QED BY <1>1, <3>3 DEF Pump
  <2>3. pipe' \in Seq(Typed) \/ Flushing'
    <3>1. CASE Flushing
        BY <1>q, <2>1, <3>1
    <3>2. CASE pipe \in Seq(Typed)
      <4>1. pipe' = pipe \/ (held \in Typed /\ pipe' = Append(pipe, held))
          BY <1>1 DEF Pump
      <4> QED BY <3>2, <4>1, TypedKept
    <3> QED BY <3>1, <3>2 DEF Listening, Hears
  <2> QED BY <1>q, <2>1, <2>2, <2>3 DEF Listening, Hears
<1>2. CASE Copy
  <2>1. /\ copier = "reading" /\ pipe # <<>> /\ pipe' = <<>>
        /\ UNCHANGED <<terminal, piped, held, answered>>
      BY <1>2 DEF Copy
  <2>2. session => pc = "running" /\ pipe \in Seq(Typed)
      BY DEF PcFits, Listening, Hears, Flushing
  <2>3. reply' # "newline"
      BY <1>2, <2>1, <2>2, TypedKept DEF Copy, Listening, Hears, Typed
  <2>4. ReplaceWaits'
      BY <1>p, <2>1 DEF Listening, Hears, ReplaceWaits
  <2>5. piped
      BY <2>1 DEF Listening, Hears
  <2> QED BY <1>e, <1>q, <2>1, <2>3, <2>4, <2>5 DEF Listening, Hears
<1>3. CASE Answer
  <2>1. /\ Asked /\ ~answered /\ answered' = TRUE /\ terminal' = Append(terminal, "answer")
        /\ UNCHANGED <<piped, held, pipe, copier, reply>>
      BY <1>3 DEF Answer
  <2>2. command = "replace" => pc = "prompt"
      BY <2>1, Sessions DEF Asked, PcFits, Connected
  <2>3. ReplaceWaits'
    <3>1. command = "replace" /\ job \in 1..3 => terminal = <<>>
        BY <2>1, <2>2 DEF Listening, Hears, ReplaceWaits
    <3>2. Append(<<>>, "answer") = <<"answer">>
        OBVIOUS
    <3> QED BY <1>p, <2>1, <2>2, <3>1, <3>2 DEF Listening, Hears, ReplaceWaits
  <2> QED BY <1>q, <2>1, <2>3 DEF Listening, Hears
<1> QED BY <1>1, <1>2, <1>3

LEMMA HearsNext == HearsInv /\ [Next]_vars => HearsInv'
<1> SUFFICES ASSUME HearsInv, [Next]_vars PROVE HearsInv'
    OBVIOUS
<1>1. Inv' /\ PcFits' /\ TypedOnly'
    BY InvNext, PcFitsNext, TypedNext DEF HearsInv
<1>2. ASSUME early' = 0 PROVE Hears'
  <2>1. CASE TypeEarly
      BY <1>2, <2>1 DEF TypeEarly, HearsInv, Inv, TypeOK
  <2>2. ~TypeEarly => early' = early
    <3>1. [Next]_vars /\ ~TypeEarly => UNCHANGED early
        BY DEF Next, ProcessStep, Begin, Loop, Sleep, Decrypt, Dial, Handshake, NewSession,
               StartCommand, StartFails, RemoteEnds, ConnectionLost, Wait, CloseSession, Prompt, Pump, Copy,
               Answer, Tick, BootUp, vars, inputVars
    <3> QED BY <3>1
  <2>3. CASE ~TypeEarly
    <3>1. Listening
        BY <1>2, <2>2, <2>3 DEF HearsInv, Listening
    <3>2. CASE Tick \/ BootUp \/ UNCHANGED vars
      <4>1. UNCHANGED <<command, job, pc, inputVars>>
          BY <3>2 DEF Tick, BootUp, vars, processVars
      <4> QED BY <3>1, <4>1
              DEF Listening, Hears, ReplaceWaits, Taken, Flushing, inputVars
    <3> QED BY <2>3, <3>1, <3>2, HearsConnection, HearsSession, HearsQuestion, HearsInput
            DEF Next, ProcessStep
  <2> QED BY <2>1, <2>3
<1> QED BY <1>1, <1>2 DEF HearsInv

LEMMA HearsInit == Init => HearsInv
<1> SUFFICES ASSUME Init PROVE HearsInv
    OBVIOUS
<1>1. <<>> \in Seq(Typed)
    BY EmptySeq
<1>2. PcFits /\ TypedOnly
    BY <1>1 DEF Init, PcFits, Connected, TypedOnly
<1>3. ReplaceWaits
    BY DEF Init, ReplaceWaits
<1>4. Hears
    BY <1>1, <1>3 DEF Init, Hears
<1> QED BY <1>2, <1>4, InvInit DEF HearsInv

\* kubeadm and terraform take no newline of SSHExecutor.Wait for the answer of an
\* operator who types only when asked (runner/ssh.go), whatever the timing of the
\* goroutines, as long as they are done before the next local command asks.
THEOREM OperatorIsHeard == Spec => []PromptHearsOperator
<1>1. HearsInv => PromptHearsOperator
    BY DEF HearsInv, Hears, PromptHearsOperator
<1> QED BY <1>1, HearsInit, HearsNext, PTL DEF Spec

-----------------------------------------------------------------------------
(* An attempt fails only while the machine is down, so when WaitForSSH looks at the *)
(* clock the machine has been up for no longer than the pause.                      *)

Found ==
    /\ up <=> upAt # Never
    /\ This.kind = "wait" /\ keyReadable /\ up =>
        /\ pc = "begin" => upAt = 0
        /\ pc = "sleep" => elapsed <= upAt + timer
        /\ pc = "loop" => elapsed <= upAt + 1

FoundInv == Inv /\ PcFits /\ Found

LEMMA FoundReturn ==
    ASSUME TypeOK, NEW res \in {"ok", "error"}, JobReturns(res)
    PROVE  Found'
<1>1. pc' \in {"begin", "over"} /\ up' \in BOOLEAN /\ upAt' = IF up' THEN 0 ELSE Never
    BY DEF JobReturns
<1> QED BY <1>1 DEF Found, Never

LEMMA FoundGoto ==
    ASSUME TypeOK, Found, NEW step \in Steps \ {"begin", "sleep", "loop"}, Goto(step)
    PROVE  Found'
<1>1. /\ pc' = step /\ UNCHANGED <<keyReadable, up, upAt>>
    BY DEF Goto
<1> QED BY <1>1 DEF Found

LEMMA FoundFails ==
    ASSUME TypeOK, Found, ~(up /\ keyReadable), ConnectFails
    PROVE  Found'
<1>1. CASE This.kind = "wait"
  <2>1. UNCHANGED <<keyReadable, up, upAt>>
      BY <1>1 DEF ConnectFails, Goto
  <2> QED BY <2>1 DEF Found
<1>2. CASE This.kind # "wait"
    BY <1>2, FoundReturn DEF ConnectFails
<1> QED BY <1>1, <1>2

LEMMA FoundNext == FoundInv /\ [Next]_vars => FoundInv'
<1>0. FoundInv /\ [Next]_vars => Inv' /\ PcFits'
    BY InvNext, PcFitsNext DEF FoundInv
<1> SUFFICES ASSUME FoundInv, [Next]_vars PROVE Found'
    BY <1>0 DEF FoundInv
<1> TypeOK /\ Clock /\ Found /\ elapsed \in Nat /\ timer \in Nat /\ upAt \in Nat \cup {Never}
    BY DEF FoundInv, Inv, TypeOK
<1> USE FoundReturn, FoundGoto, FoundFails DEF Steps
<1>1. CASE Loop \/ Decrypt \/ Dial
    BY <1>1 DEF Loop, Decrypt, Dial
<1>2. CASE Handshake
    BY <1>2 DEF Handshake, ConnectedForWait
<1>3. CASE NewSession \/ StartCommand \/ StartFails \/ RemoteEnds \/ ConnectionLost \/ Wait \/ CloseSession
           \/ Prompt
    BY <1>3 DEF NewSession, StartCommand, StartFails, RemoteEnds, ConnectionLost, Wait, CloseSession, Prompt
<1>4. CASE Sleep
  <2>1. /\ pc = "sleep" /\ timer = 1 /\ pc' = "loop" /\ elapsed' = elapsed
        /\ UNCHANGED <<command, job, keyReadable, up, upAt>>
      BY <1>4 DEF Sleep, Goto
  <2> QED BY <2>1 DEF Found, This
<1>5. CASE Begin
  <2>1. /\ pc = "begin" /\ elapsed' = elapsed /\ UNCHANGED <<command, job, keyReadable, up, upAt>>
        /\ pc' \in {"loop", "decrypt", "prompt"}
      BY <1>5, ThisType DEF Begin, Goto, Job
  <2>2. This.kind = "wait" => elapsed = 0
      BY <2>1 DEF Clock
  <2>3. up => upAt \in Nat
      BY DEF Found
  <2> QED BY <2>1, <2>2, <2>3 DEF Found, This
<1>6. CASE Pump \/ Copy \/ Answer \/ TypeEarly \/ UNCHANGED vars
  <2>1. UNCHANGED <<command, job, keyReadable, pc, up, upAt, elapsed, timer>>
      BY <1>6 DEF Pump, Copy, Answer, TypeEarly, vars, processVars, timeVars
  <2> QED BY <2>1 DEF Found, This
<1>7. CASE Tick
  <2>1. /\ timer' = timer + 1 /\ elapsed' = elapsed + 1 /\ timer < Longest
        /\ UNCHANGED <<command, job, keyReadable, pc, up, upAt>>
      BY <1>7 DEF Tick, processVars
  <2>2. pc \notin {"loop", "begin"}
      BY <2>1 DEF Longest
  <2>3. up => upAt \in Nat
      BY DEF Found
  <2> QED BY <2>1, <2>2, <2>3 DEF Found, This
<1>8. CASE BootUp
  <2>1. /\ upAt' = elapsed /\ up' = TRUE
        /\ UNCHANGED <<command, job, keyReadable, pc, elapsed, timer>>
      BY <1>8 DEF BootUp, processVars
  <2>2. This.kind = "wait" /\ pc = "begin" => elapsed = 0
      BY DEF Clock
  <2> QED BY <2>1, <2>2 DEF Found, This, Never
<1> QED
  BY <1>1, <1>2, <1>3, <1>4, <1>5, <1>6, <1>7, <1>8 DEF Next, ProcessStep

\* WaitForSSH (client/machine.go) does not give up on a machine that has come up early
\* enough for one more attempt, if the private key can be decrypted.
THEOREM WaitDoesNotMiss == Spec => WaitFindsMachine
<1>1. Init => FoundInv
  <2>1. Init => Found
      BY DEF Init, Found
  <2> QED BY <2>1, InvInit, HearsInit DEF HearsInv, FoundInv
<1>2. FoundInv /\ [Next]_vars =>
        [ pc = "loop" /\ pc' \notin {"loop", "decrypt"} /\ keyReadable
          => upAt = Never \/ upAt + AttemptTime > Timeout ]_vars
  <2> SUFFICES ASSUME FoundInv, [Next]_vars, pc = "loop", pc' \notin {"loop", "decrypt"},
                      keyReadable, upAt # Never
               PROVE  upAt + AttemptTime > Timeout
      OBVIOUS
  <2>1. Loop
      BY DEF Next, ProcessStep, Begin, Loop, Sleep, Decrypt, Dial, Handshake, NewSession,
             StartCommand, StartFails, RemoteEnds, ConnectionLost, Wait, CloseSession, Prompt, Pump, Copy,
             Answer, TypeEarly, Tick, BootUp, vars, processVars
  <2>2. Expired
      BY <2>1 DEF Loop, Goto
  <2>3. This.kind = "wait"
      BY DEF FoundInv, PcFits
  <2>4. elapsed <= upAt + 1 /\ upAt \in Nat /\ elapsed \in Nat
      BY <2>3 DEF FoundInv, Found, Inv, TypeOK
  <2> QED BY <2>2, <2>4, TimesAssumption DEF Expired, AttemptTime
<1> QED BY <1>1, <1>2, FoundNext, PTL DEF Spec, WaitFindsMachine

=============================================================================
