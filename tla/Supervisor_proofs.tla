-------------------------- MODULE Supervisor_proofs --------------------------
(***************************************************************************)
(* For every number of inputs and lines: one active turn at a time, an     *)
(* idle timer that never runs under it, and a supervisor that never leaves *)
(* before `killed` landed nor, but for a report in flight, in silence.     *)
(***************************************************************************)
EXTENDS Supervisor, SequenceTheorems, TLAPS

\* The tracker is empty before the launch is recorded, and while an interrupt is
\* being recorded.
TrackerEmpty ==
    main # "up" \/ watcher \in {"aborting", "interrupting"} => turns = <<>>

\* The launch settles once; when it fails there is no child.
LaunchOrder ==
    /\ child = "starting" => main = "settling"
    /\ main = "failing" => child = "failed"

\* The exit handler runs once the child is gone.
ExitHandled == exit # "none" => child \in {"ok", "bad"}

\* A claimed terminal event has landed, is being reported, or is the fallback.
ClaimBacked ==
    terminalEmitted /\ ~told /\ Live
        => exit = "synthesising" \/ \E n \in 1..Len(stdout) : stdout[n].at = "reporting"

\* A reason without a request is a claim whose error is being reported; a request
\* that is over has left its event.
ReasonBacked ==
    ~told => /\ ShuttingDown /\ shutdown.killed = "none" => crash = "reporting"
             /\ shutdown.killed # "landed"
             /\ crash # "reported"

\* The input the watcher is handling has been sent.
InputPending == watcher # "next" => cursor < Len(inbox)

TurnInv ==
    /\ OneTurn
    /\ TimerOnlyWhenIdle
    /\ TrackerEmpty
    /\ InputPending
    /\ LaunchOrder

EndInv ==
    /\ ExitHandled
    /\ ClaimBacked
    /\ ReasonBacked
    /\ KilledBeforeExit
    /\ OutcomeLostOnlyInFlight

IInv == TypeOK /\ TurnInv /\ EndInv

-----------------------------------------------------------------------------
(* Operators                                                               *)

\* Whatever the event, the registry entry stays an entry.
LEMMA ApplyType ==
  ASSUME NEW w \in WorkerStates, NEW ev
  PROVE  Apply(w, ev) \in WorkerStates
<1>1. LifecycleAfter(w, ev) \in Lifecycles
  BY DEF LifecycleAfter, Lifecycles, WorkerStates
<1>2. QED
  BY <1>1 DEF Apply, WorkerStates, Activities

\* A landing keeps the types and never takes back that an outcome was told.
LEMMA LandType ==
  ASSUME TypeOK, NEW ev, Land(ev)
  PROVE  worker' \in WorkerStates /\ told' \in BOOLEAN /\ (told => told')
BY ApplyType DEF TypeOK, Land

\* The landing of done, error or killed tells the outcome.
LEMMA LandTells ==
  ASSUME NEW ev, Land(ev), ev.kind \in {"done", "error", "killed"}
  PROVE  told'
BY DEF Land

\* A request keeps the types; afterwards there is a request and a reason.
LEMMA RequestType ==
  ASSUME TypeOK, NEW reason \in Reasons, Request(reason)
  PROVE  /\ shutdown' \in ShutdownStates
         /\ stdin' \in {"open", "ended", "destroyed"}
         /\ shutdown'.killed # "none"
         /\ shutdown.killed = "landed" <=> shutdown'.killed = "landed"
BY DEF TypeOK, Request, ShuttingDown, ShutdownStates

\* What a pop leaves of the stack.
LEMMA FinishType ==
  ASSUME TypeOK, OneTurn, turns # <<>>, Finish
  PROVE  turns' = <<>> /\ turns' \in Seq(Inputs) /\ idleTimer' = "armed"
<1>1. Len(turns) = 1
  <2>1. turns \in Seq(Inputs)
    BY DEF TypeOK
  <2>2. Len(turns) \in Nat \ {0}
    BY <2>1, EmptySeq
  <2>3. Len(turns) <= 1
    BY Zenon DEF OneTurn
  <2>4. \A k \in Nat \ {0} : k <= 1 => k = 1
    OBVIOUS
  <2>5. QED
    BY <2>2, <2>3, <2>4, Zenon
<1>2. turns' = <<>>
  <2>1. turns' = SubSeq(turns, 1, Len(turns) - 1)
    BY Zenon DEF Finish
  <2>2. Len(turns) - 1 \in Int /\ Len(turns) - 1 < 1
    BY <1>1
  <2>3. QED
    BY <2>1, <2>2, SubSeqEmpty
<1>3. turns' \in Seq(Inputs)
  BY <1>2, EmptySeq
<1>4. QED
  BY <1>1, <1>2, <1>3 DEF Finish

\* A push on the empty stack.
LEMMA BeginType ==
  ASSUME TypeOK, NEW i \in Inputs, turns = <<>>, Begin(i)
  PROVE  turns' \in Seq(Inputs) /\ Len(turns') = 1 /\ idleTimer' = "off"
BY DEF TypeOK, Begin

\* The watcher's input is one of the inputs.
LEMMA InputType ==
  ASSUME TypeOK, cursor < Len(inbox)
  PROVE  Input \in Inputs
BY BoundsAssumption DEF TypeOK, Input, Inputs

\* The updates of the shutdown state.
LEMMA ShutdownUpdate ==
  ASSUME NEW s \in ShutdownStates
  PROVE  /\ [s EXCEPT !.killed = "landed"] \in ShutdownStates
         /\ \A r \in Reasons : [s EXCEPT !.reason = r] \in ShutdownStates
         /\ \A l \in {"term", "kill"} : [s EXCEPT !.ladder = l] \in ShutdownStates
BY DEF ShutdownStates

\* A handler that moves on.
LEMMA LineUpdate ==
  ASSUME NEW s \in Seq(StdoutLines), NEW n \in 1..Len(s),
         NEW at \in {"reporting", "closing", "closed"}
  PROVE  /\ [s EXCEPT ![n].at = at] \in Seq(StdoutLines)
         /\ Len([s EXCEPT ![n].at = at]) = Len(s)
         /\ \A m \in 1..Len(s) : [s EXCEPT ![n].at = at][m].at = IF m = n THEN at ELSE s[m].at
<1> DEFINE line == [s[n] EXCEPT !.at = at]
<1>1. s[n] \in StdoutLines
  OBVIOUS
<1>2. line \in StdoutLines /\ line.at = at
  BY <1>1 DEF StdoutLines
<1>3. [s EXCEPT ![n] = line] \in Seq(StdoutLines)
  BY <1>2, ExceptSeq
<1>4. QED
  BY <1>2, <1>3, ExceptSeq

\* The supervisor leaves.
LEMMA DepartType == Depart => proc' = "exited" /\ proc' # "live" /\ pidFile' \in BOOLEAN
BY DEF Depart

-----------------------------------------------------------------------------

\* Nothing runs, is claimed or is told at the start.
LEMMA InitIInv == Init => IInv
<1> SUFFICES ASSUME Init PROVE IInv
  OBVIOUS
<1>1. TypeOK
  <2>1. worker \in WorkerStates
    BY DEF Init, Unknown, WorkerStates, Lifecycles, Activities
  <2>2. shutdown \in ShutdownStates
    BY DEF Init, ShutdownStates
  <2>3. pidFile \in BOOLEAN /\ terminalEmitted \in BOOLEAN /\ told \in BOOLEAN
    BY DEF Init
  <2>4. QED
    BY <2>1, <2>2, <2>3, BoundsAssumption DEF Init, TypeOK
<1>2. TurnInv
  BY DEF Init, TurnInv, OneTurn, TimerOnlyWhenIdle, TrackerEmpty, InputPending, LaunchOrder
<1>3. EndInv
  BY DEF Init, EndInv, ExitHandled, ClaimBacked, ReasonBacked, KilledBeforeExit,
         OutcomeLostOnlyInFlight, ShuttingDown
<1>4. QED
  BY <1>1, <1>2, <1>3 DEF IInv

\* Every step keeps the types.
LEMMA TypeStep == TypeOK /\ TurnInv /\ [Next]_vars => TypeOK'
<1> SUFFICES ASSUME TypeOK, TurnInv, [Next]_vars PROVE TypeOK'
  OBVIOUS
<1>1. CASE ChildSpawns
  BY <1>1
  DEF TypeOK, ChildSpawns, ending, turnVars, inputVars, log, Live, ShuttingDown
<1>2. CASE SpawnFails
  BY <1>2
  DEF TypeOK, SpawnFails, ending, turnVars, inputVars, log, Live
<1>3. CASE FailureLands
  BY <1>3, DepartType, LandType
  DEF TypeOK, FailureLands, ending, turnVars, inputVars, Live
<1>4. CASE SpawnedLands
  BY <1>4, LandType
  DEF TypeOK, SpawnedLands, ending, inputVars, Live
<1>5. CASE HandshakeEnds
  BY <1>5
  DEF TypeOK, HandshakeEnds, ending, turnVars, inputVars, log, Live
<1>6. CASE HandshakeErrorLands
  BY <1>6, LandType, RequestType
  DEF TypeOK, HandshakeErrorLands, turnVars, inputVars, Live, Reasons
<1>7. CASE StopRequested
  BY <1>7, RequestType
  DEF TypeOK, StopRequested, process, turnVars, inputVars, log, Live, Reasons
<1>8. CASE IdleFires
  BY <1>8, RequestType
  DEF TypeOK, IdleFires, process, inputVars, log, Live, GivesWay, Reasons
<1>9. CASE LadderSteps
  <2>1. shutdown' \in ShutdownStates
    BY <1>9, ShutdownUpdate DEF TypeOK, LadderSteps, NextRung
  <2>2. QED
    BY <1>9, <2>1 DEF TypeOK, LadderSteps, process, turnVars, inputVars, log
<1>10. CASE KilledLands
  <2>1. shutdown' \in ShutdownStates
    BY <1>10, ShutdownUpdate DEF TypeOK, KilledLands
  <2>2. worker' \in WorkerStates /\ told' \in BOOLEAN
    BY <1>10, LandType DEF KilledLands
  <2>3. proc' \in {"live", "exited", "dead"} /\ pidFile' \in BOOLEAN
    BY <1>10, DepartType DEF TypeOK, KilledLands
  <2>4. QED
    BY <1>10, <2>1, <2>2, <2>3 DEF TypeOK, KilledLands, turnVars, inputVars
<1>11. ASSUME NEW code \in {"ok", "bad"}, ChildExits(code) PROVE TypeOK'
  <2>1. proc' \in {"live", "exited", "dead"} /\ pidFile' \in BOOLEAN
    BY <1>11, DepartType DEF TypeOK, ChildExits, AwaitKilled
  <2>2. terminalEmitted' \in BOOLEAN
    BY <1>11 DEF TypeOK, ChildExits
  <2>3. exit' \in {"none", "synthesising", "waiting"}
    BY <1>11 DEF TypeOK, ChildExits, AwaitKilled
  <2>4. QED
    BY <1>11, <2>1, <2>2, <2>3 DEF TypeOK, ChildExits, turnVars, inputVars, log
<1>12. CASE FallbackLands
  BY <1>12, DepartType, LandType
  DEF TypeOK, FallbackLands, turnVars, inputVars, Live, AwaitKilled
<1>13. CASE WorkerErrors
  <2>1. shutdown' \in ShutdownStates
    BY <1>13, ShutdownUpdate DEF TypeOK, WorkerErrors, ShutdownStates, Reasons
  <2>2. QED
    BY <1>13, <2>1 DEF TypeOK, WorkerErrors, process, turnVars, inputVars, log
<1>14. CASE CrashErrorLands
  BY <1>14, LandType, RequestType
  DEF TypeOK, CrashErrorLands, process, turnVars, inputVars, Live, Reasons
<1>15. CASE WorkerAnswers
  BY <1>15, BoundsAssumption
  DEF TypeOK, WorkerAnswers, process, ending, turnVars, log, Live, Prints, StdoutLines,
      Inputs
<1>16. CASE WorkerPrintsGarbage
  BY <1>16, BoundsAssumption
  DEF TypeOK, WorkerPrintsGarbage, process, ending, turnVars, inputVars, log, Live, Prints,
      StdoutLines, Inputs
<1>17. ASSUME NEW n \in 1..MaxLines, ReadLine(n) PROVE TypeOK'
  <2>1. stdout' \in Seq(StdoutLines)
    BY <1>17, LineUpdate DEF TypeOK, ReadLine, LineAt
  <2>2. terminalEmitted' \in BOOLEAN
    BY <1>17 DEF ReadLine
  <2>3. QED
    BY <1>17, <2>1, <2>2 DEF TypeOK, ReadLine, process, ending, turnVars, inputVars, log
<1>18. ASSUME NEW n \in 1..MaxLines, ReportLands(n) PROVE TypeOK'
  <2>1. stdout' \in Seq(StdoutLines)
    <3>1. stdout \in Seq(StdoutLines) /\ n \in 1..Len(stdout)
      BY <1>18 DEF TypeOK, ReportLands, LineAt
    <3>2. \/ stdout' = [stdout EXCEPT ![n].at = "closed"]
          \/ stdout' = [stdout EXCEPT ![n].at = "closing"]
      BY <1>18 DEF ReportLands
    <3>3. \A at \in {"closing", "closed"} : [stdout EXCEPT ![n].at = at] \in Seq(StdoutLines)
      BY <3>1, LineUpdate
    <3>4. QED
      BY <3>2, <3>3, Zenon
  <2>2. turns' \in Seq(Inputs) /\ idleTimer' \in {"armed", "off"}
    <3>1. CASE turns = <<>>
      BY <1>18, <3>1 DEF TypeOK, ReportLands, turnVars
    <3>2. CASE turns # <<>>
      BY <1>18, <3>2, FinishType DEF TurnInv, ReportLands
    <3>3. QED
      BY <3>1, <3>2
  <2>3. worker' \in WorkerStates /\ told' \in BOOLEAN
    BY <1>18, LandType DEF ReportLands
  <2>4. QED
    BY <1>18, <2>1, <2>2, <2>3 DEF TypeOK, ReportLands, process, ending, inputVars
<1>19. ASSUME NEW n \in 1..MaxLines, FinishLands(n) PROVE TypeOK'
  <2>1. stdout' \in Seq(StdoutLines)
    BY <1>19, LineUpdate DEF TypeOK, FinishLands, LineAt
  <2>2. worker' \in WorkerStates /\ told' \in BOOLEAN
    BY <1>19, LandType DEF FinishLands
  <2>3. QED
    BY <1>19, <2>1, <2>2 DEF TypeOK, FinishLands, process, ending, turnVars, inputVars
<1>20. ASSUME NEW kind \in {"message", "interrupt"}, Send(kind) PROVE TypeOK'
  <2>1. inbox \in Seq({"message", "interrupt"}) /\ inbox' = Append(inbox, kind)
    BY <1>20 DEF TypeOK, Send
  <2>2. inbox' \in Seq({"message", "interrupt"}) /\ Len(inbox') = Len(inbox) + 1
    BY <2>1, AppendProperties
  <2>3. Len(inbox') <= MaxInputs
    BY <1>20, <2>1, <2>2, LenProperties, BoundsAssumption DEF Send
  <2>4. QED
    BY <1>20, <2>2, <2>3 DEF TypeOK, Send, process, ending, turnVars, log
<1>21. CASE DropUnready
  BY <1>21, BoundsAssumption
  DEF TypeOK, DropUnready, process, ending, turnVars, log, Watching, Input, Live, TurnInv,
      InputPending, Inputs
<1>22. CASE BeginMessage
  BY <1>22, BeginType, BoundsAssumption
  DEF TypeOK, BeginMessage, process, ending, log, Watching, HasInput, Input, NoActiveTurn,
      Live, TurnInv, InputPending, Inputs
<1>23. CASE AbortTurn
  BY <1>23, FinishType
  DEF TypeOK, AbortTurn, process, ending, turnVars, log, Watching, HasInput, Live, TurnInv
<1>24. CASE AbortedLands
  BY <1>24, LandType
  DEF TypeOK, AbortedLands, process, ending, turnVars, Watching, Live
<1>25. CASE InterruptedLands
  BY <1>25, LandType, BeginType, BoundsAssumption
  DEF TypeOK, InterruptedLands, process, ending, Watching, Input, Live, TurnInv,
      InputPending, Inputs, TrackerEmpty
<1>26. CASE StartedLands
  <2>1. Input \in Inputs
    BY <1>26, InputType DEF TurnInv, InputPending, StartedLands, Watching
  <2>2. owed' \in Seq(Inputs)
    BY <1>26, <2>1 DEF TypeOK, StartedLands
  <2>3. cursor' \in 0..MaxInputs
    BY <1>26, <2>1, BoundsAssumption DEF StartedLands, Inputs
  <2>4. worker' \in WorkerStates /\ told' \in BOOLEAN
    BY <1>26, LandType DEF StartedLands
  <2>5. QED
    BY <1>26, <2>2, <2>3, <2>4 DEF TypeOK, StartedLands, ending, turnVars
<1>27. CASE UNCHANGED vars
  BY <1>27
  DEF TypeOK, vars, process, ending, turnVars, inputVars, log
<1>28. QED
  BY <1>1, <1>2, <1>3, <1>4, <1>5, <1>6, <1>7, <1>8, <1>9, <1>10, <1>11, <1>12, <1>13, <1>14, <1>15, <1>16, <1>17, <1>18, <1>19, <1>20, <1>21, <1>22, <1>23, <1>24, <1>25, <1>26, <1>27
  DEF Next, Launch, Appends, Environment

\* Turns only begin on an empty stack.
LEMMA TurnStep == TypeOK /\ TurnInv /\ [Next]_vars => TurnInv'
<1> SUFFICES ASSUME TypeOK, TurnInv, [Next]_vars PROVE TurnInv'
  OBVIOUS
<1>1. CASE ChildSpawns
  BY <1>1
  DEF TypeOK, TurnInv, OneTurn, TimerOnlyWhenIdle, TrackerEmpty, InputPending, LaunchOrder,
      ChildSpawns, ending, turnVars, inputVars, log, Live, ShuttingDown
<1>2. CASE SpawnFails
  BY <1>2
  DEF TypeOK, TurnInv, OneTurn, TimerOnlyWhenIdle, TrackerEmpty, InputPending, LaunchOrder,
      SpawnFails, ending, turnVars, inputVars, log, Live
<1>3. CASE FailureLands
  BY <1>3
  DEF TypeOK, TurnInv, OneTurn, TimerOnlyWhenIdle, TrackerEmpty, InputPending, LaunchOrder,
      FailureLands, ending, turnVars, inputVars, Live, Depart
<1>4. CASE SpawnedLands
  BY <1>4
  DEF TypeOK, TurnInv, OneTurn, TimerOnlyWhenIdle, TrackerEmpty, InputPending, LaunchOrder,
      SpawnedLands, ending, inputVars, Live
<1>5. CASE HandshakeEnds
  BY <1>5
  DEF TypeOK, TurnInv, OneTurn, TimerOnlyWhenIdle, TrackerEmpty, InputPending, LaunchOrder,
      HandshakeEnds, ending, turnVars, inputVars, log, Live
<1>6. CASE HandshakeErrorLands
  BY <1>6
  DEF TypeOK, TurnInv, OneTurn, TimerOnlyWhenIdle, TrackerEmpty, InputPending, LaunchOrder,
      HandshakeErrorLands, turnVars, inputVars, Live
<1>7. CASE StopRequested
  BY <1>7
  DEF TypeOK, TurnInv, OneTurn, TimerOnlyWhenIdle, TrackerEmpty, InputPending, LaunchOrder,
      StopRequested, process, turnVars, inputVars, log, Live
<1>8. CASE IdleFires
  BY <1>8
  DEF TypeOK, TurnInv, OneTurn, TimerOnlyWhenIdle, TrackerEmpty, InputPending, LaunchOrder,
      IdleFires, process, inputVars, log, Live, GivesWay
<1>9. CASE LadderSteps
  BY <1>9
  DEF TypeOK, TurnInv, OneTurn, TimerOnlyWhenIdle, TrackerEmpty, InputPending, LaunchOrder,
      LadderSteps, process, turnVars, inputVars, log, Live, ChildRunning, NextRung
<1>10. CASE KilledLands
  BY <1>10
  DEF TypeOK, TurnInv, OneTurn, TimerOnlyWhenIdle, TrackerEmpty, InputPending, LaunchOrder,
      KilledLands, turnVars, inputVars, Live, Depart
<1>11. ASSUME NEW code \in {"ok", "bad"}, ChildExits(code) PROVE TurnInv'
  BY <1>11
  DEF TypeOK, TurnInv, OneTurn, TimerOnlyWhenIdle, TrackerEmpty, InputPending, LaunchOrder,
      ChildExits, turnVars, inputVars, log, Live, AwaitKilled, NeedsFallback, Depart
<1>12. CASE FallbackLands
  BY <1>12
  DEF TypeOK, TurnInv, OneTurn, TimerOnlyWhenIdle, TrackerEmpty, InputPending, LaunchOrder,
      FallbackLands, turnVars, inputVars, Live, AwaitKilled, Depart
<1>13. CASE WorkerErrors
  BY <1>13
  DEF TypeOK, TurnInv, OneTurn, TimerOnlyWhenIdle, TrackerEmpty, InputPending, LaunchOrder,
      WorkerErrors, process, turnVars, inputVars, log, Live
<1>14. CASE CrashErrorLands
  BY <1>14
  DEF TypeOK, TurnInv, OneTurn, TimerOnlyWhenIdle, TrackerEmpty, InputPending, LaunchOrder,
      CrashErrorLands, process, turnVars, inputVars, Live
<1>15. CASE WorkerAnswers
  BY <1>15
  DEF TypeOK, TurnInv, OneTurn, TimerOnlyWhenIdle, TrackerEmpty, InputPending, LaunchOrder,
      WorkerAnswers, process, ending, turnVars, log, Live, Prints
<1>16. CASE WorkerPrintsGarbage
  BY <1>16
  DEF TypeOK, TurnInv, OneTurn, TimerOnlyWhenIdle, TrackerEmpty, InputPending, LaunchOrder,
      WorkerPrintsGarbage, process, ending, turnVars, inputVars, log, Live, Prints
<1>17. ASSUME NEW n \in 1..MaxLines, ReadLine(n) PROVE TurnInv'
  BY <1>17
  DEF TypeOK, TurnInv, OneTurn, TimerOnlyWhenIdle, TrackerEmpty, InputPending, LaunchOrder,
      ReadLine, process, ending, turnVars, inputVars, log, Live, LineAt
<1>18. ASSUME NEW n \in 1..MaxLines, ReportLands(n) PROVE TurnInv'
  BY <1>18, FinishType
  DEF TypeOK, TurnInv, OneTurn, TimerOnlyWhenIdle, TrackerEmpty, InputPending, LaunchOrder,
      ReportLands, process, ending, turnVars, inputVars, Live, LineAt
<1>19. ASSUME NEW n \in 1..MaxLines, FinishLands(n) PROVE TurnInv'
  BY <1>19
  DEF TypeOK, TurnInv, OneTurn, TimerOnlyWhenIdle, TrackerEmpty, InputPending, LaunchOrder,
      FinishLands, process, ending, turnVars, inputVars, Live, LineAt
<1>20. ASSUME NEW kind \in {"message", "interrupt"}, Send(kind) PROVE TurnInv'
  BY <1>20
  DEF TypeOK, TurnInv, OneTurn, TimerOnlyWhenIdle, TrackerEmpty, InputPending, LaunchOrder,
      Send, process, ending, turnVars, log, Live
<1>21. CASE DropUnready
  BY <1>21
  DEF TypeOK, TurnInv, OneTurn, TimerOnlyWhenIdle, TrackerEmpty, InputPending, LaunchOrder,
      DropUnready, process, ending, turnVars, log, Watching, Input, Live
<1>22. CASE BeginMessage
  <2>1. Len(turns') = 1 /\ idleTimer' = "off"
    BY <1>22, InputType, BeginType DEF BeginMessage, HasInput, NoActiveTurn
  <2>2. QED
    BY <1>22, <2>1
    DEF TurnInv, OneTurn, TimerOnlyWhenIdle, TrackerEmpty, InputPending, LaunchOrder,
        BeginMessage, process, HasInput, Watching
<1>23. CASE AbortTurn
  BY <1>23, FinishType
  DEF TypeOK, TurnInv, OneTurn, TimerOnlyWhenIdle, TrackerEmpty, InputPending, LaunchOrder,
      AbortTurn, process, ending, turnVars, log, Watching, HasInput, Live
<1>24. CASE AbortedLands
  BY <1>24
  DEF TypeOK, TurnInv, OneTurn, TimerOnlyWhenIdle, TrackerEmpty, InputPending, LaunchOrder,
      AbortedLands, process, ending, turnVars, Watching, Live
<1>25. CASE InterruptedLands
  <2>1. cursor < Len(inbox) /\ turns = <<>>
    BY <1>25 DEF TurnInv, TrackerEmpty, InputPending, InterruptedLands, Watching
  <2>2. Len(turns') = 1 /\ idleTimer' = "off"
    BY <1>25, <2>1, InputType, BeginType DEF InterruptedLands
  <2>3. QED
    BY <1>25, <2>1, <2>2
    DEF TurnInv, OneTurn, TimerOnlyWhenIdle, TrackerEmpty, InputPending, LaunchOrder,
        InterruptedLands, process, Watching
<1>26. CASE StartedLands
  BY <1>26
  DEF TypeOK, TurnInv, OneTurn, TimerOnlyWhenIdle, TrackerEmpty, InputPending, LaunchOrder,
      StartedLands, ending, turnVars, Watching, Input, Live
<1>27. CASE UNCHANGED vars
  BY <1>27
  DEF TypeOK, TurnInv, OneTurn, TimerOnlyWhenIdle, TrackerEmpty, InputPending, LaunchOrder,
      vars, process, ending, turnVars, inputVars, log
<1>28. QED
  BY <1>1, <1>2, <1>3, <1>4, <1>5, <1>6, <1>7, <1>8, <1>9, <1>10, <1>11, <1>12, <1>13, <1>14, <1>15, <1>16, <1>17, <1>18, <1>19, <1>20, <1>21, <1>22, <1>23, <1>24, <1>25, <1>26, <1>27
  DEF Next, Launch, Appends, Environment

\* Nothing ends unseen.
LEMMA EndStep == TypeOK /\ TurnInv /\ EndInv /\ [Next]_vars => EndInv'
<1> SUFFICES ASSUME TypeOK, TurnInv, EndInv, [Next]_vars PROVE EndInv'
  OBVIOUS
<1>1. CASE ChildSpawns
  BY <1>1
  DEF TypeOK, EndInv, ExitHandled, ClaimBacked, ReasonBacked, KilledBeforeExit,
      OutcomeLostOnlyInFlight, ShuttingDown, Live, ChildSpawns, ending, turnVars,
      inputVars, log
<1>2. CASE SpawnFails
  BY <1>2
  DEF TypeOK, EndInv, ExitHandled, ClaimBacked, ReasonBacked, KilledBeforeExit,
      OutcomeLostOnlyInFlight, ShuttingDown, Live, SpawnFails, ending, turnVars, inputVars,
      log
<1>3. CASE FailureLands
  <2>1. told'
    BY <1>3, LandTells DEF FailureLands, SupervisorError, Plain
  <2>2. child' = "failed" /\ proc' # "live"
    BY <1>3, DepartType DEF TurnInv, LaunchOrder, FailureLands
  <2>3. QED
    BY <1>3, <2>1, <2>2
    DEF EndInv, ExitHandled, ClaimBacked, ReasonBacked, KilledBeforeExit,
        OutcomeLostOnlyInFlight, FailureLands, ending, Live
<1>4. CASE SpawnedLands
  BY <1>4, LandType
  DEF TypeOK, EndInv, ExitHandled, ClaimBacked, ReasonBacked, KilledBeforeExit,
      OutcomeLostOnlyInFlight, ShuttingDown, Live, SpawnedLands, ending, inputVars
<1>5. CASE HandshakeEnds
  BY <1>5
  DEF TypeOK, EndInv, ExitHandled, ClaimBacked, ReasonBacked, KilledBeforeExit,
      OutcomeLostOnlyInFlight, ShuttingDown, Live, HandshakeEnds, ending, turnVars,
      inputVars, log
<1>6. CASE HandshakeErrorLands
  BY <1>6, LandType, LandTells, RequestType
  DEF TypeOK, EndInv, ExitHandled, ClaimBacked, ReasonBacked, KilledBeforeExit,
      OutcomeLostOnlyInFlight, ShuttingDown, Live, HandshakeErrorLands, turnVars,
      inputVars, SupervisorError, Plain, Reasons, Request
<1>7. CASE StopRequested
  BY <1>7, RequestType
  DEF TypeOK, EndInv, ExitHandled, ClaimBacked, ReasonBacked, KilledBeforeExit,
      OutcomeLostOnlyInFlight, ShuttingDown, Live, StopRequested, process, turnVars,
      inputVars, log, Reasons, Request
<1>8. CASE IdleFires
  BY <1>8, RequestType
  DEF TypeOK, EndInv, ExitHandled, ClaimBacked, ReasonBacked, KilledBeforeExit,
      OutcomeLostOnlyInFlight, ShuttingDown, Live, IdleFires, process, inputVars, log,
      GivesWay, Reasons, Request
<1>9. CASE LadderSteps
  BY <1>9
  DEF TypeOK, EndInv, ExitHandled, ClaimBacked, ReasonBacked, KilledBeforeExit,
      OutcomeLostOnlyInFlight, ShuttingDown, Live, LadderSteps, process, turnVars,
      inputVars, log, ChildRunning, NextRung
<1>10. CASE KilledLands
  <2>1. told'
    <3> DEFINE killed == [Plain("killed") EXCEPT !.by = "supervisor",
                                                 !.crash = shutdown.reason = "crash"]
    <3>1. killed.kind = "killed"
      BY DEF Plain
    <3>2. QED
      BY <1>10, <3>1, LandTells DEF KilledLands
  <2>2. shutdown'.killed = "landed"
    BY <1>10 DEF TypeOK, ShutdownStates, KilledLands
  <2>3. QED
    BY <1>10, <2>1, <2>2
    DEF EndInv, ExitHandled, ClaimBacked, ReasonBacked, KilledBeforeExit,
        OutcomeLostOnlyInFlight, KilledLands, turnVars, inputVars
<1>11. ASSUME NEW code \in {"ok", "bad"}, ChildExits(code) PROVE EndInv'
  <2>1. exit = "none" /\ child' \in {"ok", "bad"}
    BY <1>11 DEF EndInv, ExitHandled, ChildExits
  <2>2. CASE NeedsFallback
    BY <1>11, <2>1, <2>2
    DEF EndInv, ExitHandled, ClaimBacked, ReasonBacked, KilledBeforeExit,
        OutcomeLostOnlyInFlight, ChildExits, NeedsFallback, ShuttingDown, Live, log
  <2>3. CASE ~NeedsFallback /\ shutdown.killed = "writing"
    BY <1>11, <2>1, <2>3
    DEF EndInv, ExitHandled, ClaimBacked, ReasonBacked, KilledBeforeExit,
        OutcomeLostOnlyInFlight, ChildExits, NeedsFallback, AwaitKilled, ShuttingDown, Live, log
  <2>4. CASE ~NeedsFallback /\ shutdown.killed # "writing"
    <3>1. proc' = "exited" /\ exit' = "none"
      BY <1>11, <2>1, <2>4, DepartType DEF ChildExits, AwaitKilled
    <3>2. UNCHANGED <<shutdown, crash, stdout, told, terminalEmitted>>
      BY <1>11, <2>4 DEF ChildExits, log
    <3>3. shutdown.killed \in {"none", "landed"}
      BY <2>4 DEF TypeOK, ShutdownStates
    <3>4. ~told => crash = "reporting" \/ \E n \in 1..Len(stdout) : stdout[n].at = "reporting"
      BY <1>11, <2>1, <2>4, <3>3
      DEF EndInv, ClaimBacked, ReasonBacked, NeedsFallback, ChildExits
    <3>5. QED
      BY <2>1, <3>1, <3>2, <3>3, <3>4
      DEF EndInv, ExitHandled, ClaimBacked, ReasonBacked, KilledBeforeExit,
          OutcomeLostOnlyInFlight, ShuttingDown, Live
  <2>5. QED
    BY <2>2, <2>3, <2>4
<1>12. CASE FallbackLands
  <2>1. told'
    <3> DEFINE fallback == [Plain(IF child = "ok" THEN "done" ELSE "error")
                              EXCEPT !.synthesized = TRUE]
    <3>1. fallback.kind \in {"done", "error"}
      BY DEF Plain
    <3>2. QED
      BY <1>12, <3>1, LandTells DEF FallbackLands
  <2>2. exit' # "none" => child' \in {"ok", "bad"}
    BY <1>12 DEF EndInv, ExitHandled, FallbackLands
  <2>3. proc' = "exited" => shutdown'.killed \in {"none", "landed"}
    BY <1>12 DEF TypeOK, ShutdownStates, FallbackLands, AwaitKilled, Live
  <2>4. QED
    BY <2>1, <2>2, <2>3
    DEF EndInv, ExitHandled, ClaimBacked, ReasonBacked, KilledBeforeExit,
        OutcomeLostOnlyInFlight
<1>13. CASE WorkerErrors
  BY <1>13, NoneAssumption
  DEF TypeOK, EndInv, ExitHandled, ClaimBacked, ReasonBacked, KilledBeforeExit,
      OutcomeLostOnlyInFlight, ShuttingDown, Live, WorkerErrors, process, turnVars,
      inputVars, log, Reasons
<1>14. CASE CrashErrorLands
  BY <1>14, LandType, LandTells, RequestType
  DEF TypeOK, EndInv, ExitHandled, ClaimBacked, ReasonBacked, KilledBeforeExit,
      OutcomeLostOnlyInFlight, ShuttingDown, Live, CrashErrorLands, process, turnVars,
      inputVars, SupervisorError, Plain, Reasons, Request
<1>15. CASE WorkerAnswers
  BY <1>15
  DEF TypeOK, EndInv, ExitHandled, ClaimBacked, ReasonBacked, KilledBeforeExit,
      OutcomeLostOnlyInFlight, ShuttingDown, Live, WorkerAnswers, process, ending,
      turnVars, log, Prints
<1>16. CASE WorkerPrintsGarbage
  BY <1>16
  DEF TypeOK, EndInv, ExitHandled, ClaimBacked, ReasonBacked, KilledBeforeExit,
      OutcomeLostOnlyInFlight, ShuttingDown, Live, WorkerPrintsGarbage, process, ending,
      turnVars, inputVars, log, Prints
<1>17. ASSUME NEW n \in 1..MaxLines, ReadLine(n) PROVE EndInv'
  BY <1>17
  DEF TypeOK, EndInv, ExitHandled, ClaimBacked, ReasonBacked, KilledBeforeExit,
      OutcomeLostOnlyInFlight, ShuttingDown, Live, ReadLine, process, ending, turnVars,
      inputVars, log, LineAt
<1>18. ASSUME NEW n \in 1..MaxLines, ReportLands(n) PROVE EndInv'
  BY <1>18, LandType, LandTells
  DEF TypeOK, EndInv, ExitHandled, ClaimBacked, ReasonBacked, KilledBeforeExit,
      OutcomeLostOnlyInFlight, ShuttingDown, Live, ReportLands, process, ending, turnVars,
      inputVars, LineAt, SupervisorError, Plain
<1>19. ASSUME NEW n \in 1..MaxLines, FinishLands(n) PROVE EndInv'
  BY <1>19, LandType
  DEF TypeOK, EndInv, ExitHandled, ClaimBacked, ReasonBacked, KilledBeforeExit,
      OutcomeLostOnlyInFlight, ShuttingDown, Live, FinishLands, process, ending, turnVars,
      inputVars, LineAt
<1>20. ASSUME NEW kind \in {"message", "interrupt"}, Send(kind) PROVE EndInv'
  BY <1>20
  DEF TypeOK, EndInv, ExitHandled, ClaimBacked, ReasonBacked, KilledBeforeExit,
      OutcomeLostOnlyInFlight, ShuttingDown, Live, Send, process, ending, turnVars, log
<1>21. CASE DropUnready
  BY <1>21
  DEF TypeOK, EndInv, ExitHandled, ClaimBacked, ReasonBacked, KilledBeforeExit,
      OutcomeLostOnlyInFlight, ShuttingDown, Live, DropUnready, process, ending, turnVars,
      log, Watching, Input
<1>22. CASE BeginMessage
  BY <1>22
  DEF TypeOK, EndInv, ExitHandled, ClaimBacked, ReasonBacked, KilledBeforeExit,
      OutcomeLostOnlyInFlight, ShuttingDown, Live, BeginMessage, process, ending, log,
      Watching, HasInput, Input, NoActiveTurn
<1>23. CASE AbortTurn
  BY <1>23
  DEF TypeOK, EndInv, ExitHandled, ClaimBacked, ReasonBacked, KilledBeforeExit,
      OutcomeLostOnlyInFlight, ShuttingDown, Live, AbortTurn, process, ending, turnVars,
      log, Watching, HasInput
<1>24. CASE AbortedLands
  BY <1>24, LandType
  DEF TypeOK, EndInv, ExitHandled, ClaimBacked, ReasonBacked, KilledBeforeExit,
      OutcomeLostOnlyInFlight, ShuttingDown, Live, AbortedLands, process, ending, turnVars,
      Watching
<1>25. CASE InterruptedLands
  BY <1>25, LandType
  DEF TypeOK, EndInv, ExitHandled, ClaimBacked, ReasonBacked, KilledBeforeExit,
      OutcomeLostOnlyInFlight, ShuttingDown, Live, InterruptedLands, process, ending,
      Watching, Input
<1>26. CASE StartedLands
  BY <1>26, LandType
  DEF TypeOK, EndInv, ExitHandled, ClaimBacked, ReasonBacked, KilledBeforeExit,
      OutcomeLostOnlyInFlight, ShuttingDown, Live, StartedLands, ending, turnVars,
      Watching, Input
<1>27. CASE UNCHANGED vars
  BY <1>27
  DEF TypeOK, EndInv, ExitHandled, ClaimBacked, ReasonBacked, KilledBeforeExit,
      OutcomeLostOnlyInFlight, ShuttingDown, Live, vars, process, ending, log
<1>28. QED
  BY <1>1, <1>2, <1>3, <1>4, <1>5, <1>6, <1>7, <1>8, <1>9, <1>10, <1>11, <1>12, <1>13, <1>14, <1>15, <1>16, <1>17, <1>18, <1>19, <1>20, <1>21, <1>22, <1>23, <1>24, <1>25, <1>26, <1>27
  DEF Next, Launch, Appends, Environment

\* The invariant is inductive.
LEMMA Invariance == Spec => []IInv
<1>1. IInv /\ [Next]_vars => IInv'
  BY TypeStep, TurnStep, EndStep DEF IInv
<1>2. QED
  BY InitIInv, <1>1, PTL DEF Spec

\* The variables keep their types.
THEOREM TypeCorrect == Spec => []TypeOK
<1>1. IInv => TypeOK
  BY DEF IInv
<1>2. QED
  BY Invariance, <1>1, PTL

\* There is never a second active turn, whatever the interrupts, late results and
\* unparsable lines that TurnTracker sees.
THEOREM OneTurnTheorem == Spec => []OneTurn
<1>1. IInv => OneTurn
  BY DEF IInv, TurnInv
<1>2. QED
  BY Invariance, <1>1, PTL

\* The idle timer never runs under an active turn.
THEOREM TimerTheorem == Spec => []TimerOnlyWhenIdle
<1>1. IInv => TimerOnlyWhenIdle
  BY DEF IInv, TurnInv
<1>2. QED
  BY Invariance, <1>1, PTL

\* The supervisor of a launched worker never leaves before a requested `killed` landed.
THEOREM KilledTheorem == Spec => []KilledBeforeExit
<1>1. IInv => KilledBeforeExit
  BY DEF IInv, EndInv
<1>2. QED
  BY Invariance, <1>1, PTL

\* It never leaves in silence, but for a report whose append the exit overtook.
THEOREM OutcomeTheorem == Spec => []OutcomeLostOnlyInFlight
<1>1. IInv => OutcomeLostOnlyInFlight
  BY DEF IInv, EndInv
<1>2. QED
  BY Invariance, <1>1, PTL
=============================================================================
