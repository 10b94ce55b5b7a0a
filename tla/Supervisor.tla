----------------------------- MODULE Supervisor -----------------------------
(***************************************************************************)
(* The supervisor of one channel worker: it launches the provider process, *)
(* feeds it the messages and interrupts addressed to the worker, turns its *)
(* output into channel events, and funnels every way of ending it through  *)
(* one shutdown controller.                                                *)
(*                                                                         *)
(* Node runs one callback at a time, so an action is one callback with the *)
(* microtasks behind it.  Every appendEvent suspends its caller; the event *)
(* lands later, in an order the channel lock decides, and the caller goes  *)
(* on in the step where it lands.  An append still in flight when the      *)
(* process exits is lost.                                                  *)
(***************************************************************************)
EXTENDS Naturals, Sequences, WorkerRegistry

CONSTANTS
    None,
    MaxInputs,  \* bound: messages and interrupts sent to the worker
    MaxLines    \* bound: terminal lines the worker prints

\* "stop" stands for explicit-kill, timeout and idle-timeout, which differ only in
\* the text of the `killed` event.
Reasons == {"stop", "crash"}
Inputs == 1..MaxInputs

\* killed: the promise of the `killed` append; ladder: the last rung taken.
ShutdownStates == [reason : Reasons \cup {None}, killed : {"none", "writing", "landed"},
                   ladder : {"none", "grace", "term", "kill"}]

ASSUME NoneAssumption == None \notin Reasons
ASSUME BoundsAssumption == MaxInputs \in Nat /\ MaxLines \in Nat

\* A line the adapter turns into done or error: the input it answers, 0 for a line
\* it cannot parse, and how far its handler is.
StdoutLines == [of : 0..MaxInputs, at : {"buffered", "reporting", "closing", "closed"}]

VARIABLES
    proc,       \* the supervisor process: live, exited, or dead without cleanup
    pidFile,    \* its pid file exists
    child,      \* the provider process: starting, failed, running, or its exit code
    main,       \* runSupervisor: settling, failing, bailed, recording, up
    handshake,  \* pending, ready, reporting, failed
    shutdown,   \* [reason, killed, ladder] of the shutdown controller
    exit,       \* the exit handler: none, synthesising, waiting
    crash,      \* the post-spawn error handler: none, reporting, reported
    terminalEmitted,
    turns,      \* TurnTracker: a stack of input seqs
    idleTimer,  \* armed or off
    inbox,      \* the kinds of the inputs sent to the worker so far
    watcher,    \* runInboxWatcher: next, aborting, interrupting, starting
    cursor,     \* the inbox cursor, in memory and on disk
    stdin,      \* the worker's stdin: open, ended, destroyed
    owed,       \* inputs the worker received and has not answered
    stdout,     \* lines printed by the worker, with their handlers
    worker,     \* the worker in the registry: the fold of the landed events
    told        \* history: some done, error or killed has landed

process == <<proc, pidFile, child, main, handshake>>
ending == <<shutdown, exit, crash>>
turnVars == <<turns, idleTimer>>
inputVars == <<inbox, watcher, cursor, owed>>
log == <<worker, told>>
vars == <<process, ending, terminalEmitted, turnVars, inputVars, stdin, stdout, log>>

TypeOK ==
    /\ proc \in {"live", "exited", "dead"}
    /\ pidFile \in BOOLEAN
    /\ child \in {"starting", "failed", "running", "ok", "bad"}
    /\ main \in {"settling", "failing", "bailed", "recording", "up"}
    /\ handshake \in {"pending", "ready", "reporting", "failed"}
    /\ shutdown \in ShutdownStates
    /\ exit \in {"none", "synthesising", "waiting"}
    /\ crash \in {"none", "reporting", "reported"}
    /\ terminalEmitted \in BOOLEAN
    /\ turns \in Seq(Inputs)
    /\ idleTimer \in {"armed", "off"}
    /\ inbox \in Seq({"message", "interrupt"}) /\ Len(inbox) <= MaxInputs
    /\ watcher \in {"next", "aborting", "interrupting", "starting"}
    /\ cursor \in 0..MaxInputs
    /\ stdin \in {"open", "ended", "destroyed"}
    /\ owed \in Seq(Inputs)
    /\ stdout \in Seq(StdoutLines)
    /\ worker \in WorkerStates
    /\ told \in BOOLEAN

Init ==
    /\ proc = "live"
    /\ pidFile = TRUE
    /\ child = "starting"
    /\ main = "settling"
    /\ handshake = "pending"
    /\ shutdown = [reason |-> None, killed |-> "none", ladder |-> "none"]
    /\ exit = "none"
    /\ crash = "none"
    /\ terminalEmitted = FALSE
    /\ turns = <<>>
    /\ idleTimer = "off"
    /\ inbox = <<>>
    /\ watcher = "next"
    /\ cursor = 0
    /\ stdin = "open"
    /\ owed = <<>>
    /\ stdout = <<>>
    /\ worker = Unknown
    /\ told = FALSE

-----------------------------------------------------------------------------
(* Shared pieces                                                           *)

Live == proc = "live"

\* The event is in the file.
Land(ev) ==
    /\ worker' = Apply(worker, ev)
    /\ told' = (told \/ ev.kind \in {"done", "error", "killed"})

\* An error event signed supervisor:<worker>.
SupervisorError == [Plain("error") EXCEPT !.by = "supervisor"]

ShuttingDown == shutdown.reason # None

\* cleanup() and process.exit.
Depart ==
    /\ proc' = "exited"
    /\ pidFile' = FALSE

\* shutdown.request: the first call claims the reason, unless claim() did, starts
\* the ladder by ending the worker's stdin, and starts to write `killed`.
Request(reason) ==
    IF shutdown.killed # "none" THEN UNCHANGED <<shutdown, stdin>>
    ELSE /\ shutdown' = [reason |-> IF ShuttingDown THEN shutdown.reason ELSE reason,
                         killed |-> "writing", ladder |-> "grace"]
         /\ stdin' = IF stdin = "open" THEN "ended" ELSE stdin

\* Mutant: the hook pauses nothing.
BeginWithoutPause(i) ==
    /\ turns' = Append(turns, i)
    /\ UNCHANGED idleTimer

\* TurnTracker.begin and its hook.
Begin(i) ==
    /\ turns' = Append(turns, i)
    /\ idleTimer' = "off"

\* TurnTracker.finish and abortCurrent: drop the top of the stack.
Finish ==
    /\ turns' = SubSeq(turns, 1, Len(turns) - 1)
    /\ idleTimer' = IF Len(turns) = 1 THEN "armed" ELSE idleTimer

-----------------------------------------------------------------------------
(* Launch                                                                  *)

\* `spawn` fires and the main flow goes on: it bails when a signal came first.
ChildSpawns ==
    /\ Live /\ child = "starting"
    /\ child' = "running"
    /\ main' = IF ShuttingDown THEN "bailed" ELSE "recording"
    /\ UNCHANGED <<proc, pidFile, handshake, ending, terminalEmitted, turnVars,
                   inputVars, stdin, stdout, log>>

\* `error` fires before there is a pid.
SpawnFails ==
    /\ Live /\ child = "starting"
    /\ child' = "failed"
    /\ main' = "failing"
    /\ UNCHANGED <<proc, pidFile, handshake, ending, terminalEmitted, turnVars,
                   inputVars, stdin, stdout, log>>

FailureLands ==
    /\ Live /\ main = "failing"
    /\ Land(SupervisorError)
    /\ Depart
    /\ UNCHANGED <<child, main, handshake, ending, terminalEmitted, turnVars,
                   inputVars, stdin, stdout>>

\* `spawned` is durable: timers, stdout pump and inbox watcher start.
SpawnedLands ==
    /\ Live /\ main = "recording"
    /\ Land(Plain("spawned"))
    /\ main' = "up"
    /\ idleTimer' = "armed"
    /\ UNCHANGED <<proc, pidFile, child, handshake, ending, terminalEmitted, turns,
                   inputVars, stdin, stdout>>

\* The adapter's handshake; an adapter without one is ready at once.
HandshakeEnds ==
    /\ Live /\ main = "up" /\ handshake = "pending"
    /\ handshake' \in {"ready", "reporting"}
    /\ UNCHANGED <<proc, pidFile, child, main, ending, terminalEmitted, turnVars,
                   inputVars, stdin, stdout, log>>

HandshakeErrorLands ==
    /\ Live /\ handshake = "reporting"
    /\ handshake' = "failed"
    /\ Land(SupervisorError)
    /\ Request("crash")
    /\ UNCHANGED <<proc, pidFile, child, main, exit, crash, terminalEmitted, turnVars,
                   inputVars, stdout>>

-----------------------------------------------------------------------------
(* Shutdown                                                                *)

\* A signal (`channel kill`, the spawn guard, a closed terminal) or the lifetime timer.
StopRequested ==
    /\ Live /\ shutdown.killed = "none"
    /\ Request("stop")
    /\ UNCHANGED <<process, exit, crash, terminalEmitted, turnVars, inputVars, stdout, log>>

ChildRunning == child \in {"starting", "running"}

\* What an idle timeout gives way to.
GivesWay == ShuttingDown \/ terminalEmitted \/ ~ChildRunning

IdleFires ==
    /\ Live /\ idleTimer = "armed"
    /\ idleTimer' = "off"
    /\ IF GivesWay
       THEN UNCHANGED <<shutdown, stdin>>
       ELSE Request("stop")
    /\ UNCHANGED <<process, exit, crash, terminalEmitted, turns, inputVars, stdout, log>>

\* Mutant: SIGTERM again and again.
NeverSigkill(rung) == "term"

NextRung(rung) == IF rung = "grace" THEN "term" ELSE "kill"

\* One grace period after the end of stdin comes SIGTERM, after another SIGKILL.
LadderSteps ==
    /\ Live /\ ChildRunning
    /\ shutdown.ladder \in {"grace", "term"}
    /\ shutdown' = [shutdown EXCEPT !.ladder = NextRung(@)]
    /\ UNCHANGED <<process, exit, crash, terminalEmitted, turnVars, inputVars, stdin,
                   stdout, log>>

\* `killed` lands. An exit handler that was waiting for it ends the process.
KilledLands ==
    /\ Live /\ shutdown.killed = "writing"
    /\ shutdown' = [shutdown EXCEPT !.killed = "landed"]
    /\ Land([Plain("killed") EXCEPT !.by = "supervisor", !.crash = shutdown.reason = "crash"])
    /\ IF exit = "waiting" THEN Depart ELSE UNCHANGED <<proc, pidFile>>
    /\ UNCHANGED <<child, main, handshake, exit, crash, terminalEmitted, turnVars,
                   inputVars, stdin, stdout>>

\* Mutant: does not wait.
LeaveAtOnce == Depart /\ UNCHANGED exit

\* The rest of the exit handler: wait for a `killed` under way, clean up, exit.
AwaitKilled ==
    IF shutdown.killed = "writing"
    THEN exit' = "waiting" /\ UNCHANGED <<proc, pidFile>>
    ELSE Depart /\ UNCHANGED exit

\* Mutant: only for a worker whose launch was recorded.
FallbackOnceUp == ~terminalEmitted /\ ~ShuttingDown /\ main = "up"

\* The exit is cold and no adapter event is there or on its way.
NeedsFallback == ~terminalEmitted /\ ~ShuttingDown

\* `exit` fires: finalizeOnExit, whose fallback event must be claimed and landed.
ChildExits(code) ==
    /\ Live /\ child = "running"
    /\ child' = code
    /\ stdin' = "destroyed"
    /\ IF NeedsFallback
       THEN /\ terminalEmitted' = TRUE
            /\ exit' = "synthesising"
            /\ UNCHANGED <<proc, pidFile>>
       ELSE /\ AwaitKilled
            /\ UNCHANGED terminalEmitted
    /\ UNCHANGED <<main, handshake, shutdown, crash, turnVars, inputVars, stdout, log>>

FallbackLands ==
    /\ Live /\ exit = "synthesising"
    /\ Land([Plain(IF child = "ok" THEN "done" ELSE "error") EXCEPT !.synthesized = TRUE])
    /\ AwaitKilled
    /\ UNCHANGED <<child, main, handshake, shutdown, crash, terminalEmitted, turnVars,
                   inputVars, stdin, stdout>>

\* `error` of a running worker: claim the reason, report it, then request.  Bound:
\* one; a second would only add another error event.
WorkerErrors ==
    /\ Live /\ child = "running" /\ crash = "none"
    /\ crash' = "reporting"
    /\ shutdown' = [shutdown EXCEPT !.reason = IF @ = None THEN "crash" ELSE @]
    /\ UNCHANGED <<process, exit, terminalEmitted, turnVars, inputVars, stdin, stdout, log>>

CrashErrorLands ==
    /\ Live /\ crash = "reporting"
    /\ crash' = "reported"
    /\ Land(SupervisorError)
    /\ Request("crash")
    /\ UNCHANGED <<process, exit, terminalEmitted, turnVars, inputVars, stdout>>

-----------------------------------------------------------------------------
(* Output of the worker                                                    *)

Prints(line) ==
    /\ child = "running" /\ Len(stdout) < MaxLines
    /\ stdout' = Append(stdout, line)

\* The worker ends the turn of the oldest input it has not answered.
WorkerAnswers ==
    /\ Live /\ owed # <<>>
    /\ Prints([of |-> Head(owed), at |-> "buffered"])
    /\ owed' = Tail(owed)
    /\ UNCHANGED <<process, ending, terminalEmitted, turnVars, inbox, watcher, cursor,
                   stdin, log>>

\* It prints a line the adapter reports as an error.
WorkerPrintsGarbage ==
    /\ Live
    /\ Prints([of |-> 0, at |-> "buffered"])
    /\ UNCHANGED <<process, ending, terminalEmitted, turnVars, inputVars, stdin, log>>

LineAt(n, at) == n \in 1..Len(stdout) /\ stdout[n].at = at

\* The pump hands the next line to a handler of its own, which claims the terminal
\* event before it appends it.
ReadLine(n) ==
    /\ Live /\ main = "up"
    /\ LineAt(n, "buffered") /\ \A m \in 1..(n - 1) : ~LineAt(m, "buffered")
    /\ stdout' = [stdout EXCEPT ![n].at = "reporting"]
    /\ terminalEmitted' = TRUE
    /\ UNCHANGED <<process, ending, turnVars, inputVars, stdin, log>>

\* done lands (or error: they count the same), and whatever turn is on top of the stack is finished.
ReportLands(n) ==
    /\ Live /\ LineAt(n, "reporting")
    /\ Land(Plain("done"))
    /\ IF turns = <<>>
       THEN /\ stdout' = [stdout EXCEPT ![n].at = "closed"]
            /\ UNCHANGED turnVars
       ELSE /\ stdout' = [stdout EXCEPT ![n].at = "closing"]
            /\ Finish
    /\ UNCHANGED <<process, ending, terminalEmitted, inputVars, stdin>>

FinishLands(n) ==
    /\ Live /\ LineAt(n, "closing")
    /\ stdout' = [stdout EXCEPT ![n].at = "closed"]
    /\ Land(Plain("turn_finished"))
    /\ UNCHANGED <<process, ending, terminalEmitted, turnVars, inputVars, stdin>>

-----------------------------------------------------------------------------
(* Input of the worker                                                     *)

\* Somebody sends a message or requests an interrupt.
Send(kind) ==
    /\ Live /\ Len(inbox) < MaxInputs
    /\ kind \in {"message", "interrupt"}
    /\ inbox' = Append(inbox, kind)
    /\ UNCHANGED <<process, ending, terminalEmitted, turnVars, watcher, cursor, owed,
                   stdin, stdout, log>>

\* The input the watcher is at.
Input == cursor + 1

Watching(at) == Live /\ main = "up" /\ watcher = at

HasInput(kind) == cursor < Len(inbox) /\ inbox[Input] = kind

\* Never ready in sixty seconds: the input is skipped for good.
DropUnready ==
    /\ Watching("next") /\ cursor < Len(inbox)
    /\ handshake # "ready"
    /\ cursor' = Input
    /\ UNCHANGED <<process, ending, terminalEmitted, turnVars, inbox, watcher, owed,
                   stdin, stdout, log>>

\* Mutant: does not wait for the active turn.
WithoutWaiting == TRUE

\* waitForActiveTurnToFinish
NoActiveTurn == turns = <<>>

\* A message waits for the active turn to finish and starts its own.
BeginMessage ==
    /\ Watching("next") /\ HasInput("message") /\ handshake = "ready"
    /\ NoActiveTurn
    /\ Begin(Input)
    /\ watcher' = "starting"
    /\ UNCHANGED <<process, ending, terminalEmitted, inbox, cursor, owed, stdin, stdout, log>>

\* An interrupt aborts it instead.
AbortTurn ==
    /\ Watching("next") /\ HasInput("interrupt") /\ handshake = "ready"
    /\ IF turns = <<>>
       THEN watcher' = "interrupting" /\ UNCHANGED turnVars
       ELSE watcher' = "aborting" /\ Finish
    /\ UNCHANGED <<process, ending, terminalEmitted, inbox, cursor, owed, stdin, stdout, log>>

AbortedLands ==
    /\ Watching("aborting")
    /\ watcher' = "interrupting"
    /\ Land(Plain("turn_finished"))
    /\ UNCHANGED <<process, ending, terminalEmitted, turnVars, inbox, cursor, owed, stdin, stdout>>

InterruptedLands ==
    /\ Watching("interrupting")
    /\ watcher' = "starting"
    /\ Land(Plain("interrupted"))
    /\ Begin(Input)
    /\ UNCHANGED <<process, ending, terminalEmitted, inbox, cursor, owed, stdin, stdout>>

\* turn_started lands, the input is written to stdin and the cursor saved.  After
\* stdin was ended the write raises an `error` nobody listens to, which ends the
\* supervisor; after it was destroyed the write does nothing.
StartedLands ==
    /\ Watching("starting")
    /\ watcher' = "next"
    /\ Land(Plain("turn_started"))
    /\ cursor' = Input
    /\ owed' = IF stdin = "open" THEN Append(owed, Input) ELSE owed
    /\ proc' = IF stdin = "ended" THEN "dead" ELSE proc
    /\ UNCHANGED <<pidFile, child, main, handshake, ending, terminalEmitted, turnVars,
                   inbox, stdin, stdout>>

-----------------------------------------------------------------------------

Appends ==
    \/ SpawnedLands
    \/ FailureLands
    \/ HandshakeErrorLands
    \/ KilledLands
    \/ FallbackLands
    \/ CrashErrorLands
    \/ AbortedLands
    \/ InterruptedLands
    \/ StartedLands
    \/ \E n \in 1..MaxLines : ReportLands(n) \/ FinishLands(n)

Launch == ChildSpawns \/ SpawnFails

\* What the worker and its users may do, or not.
Environment ==
    \/ StopRequested
    \/ WorkerErrors
    \/ WorkerAnswers
    \/ WorkerPrintsGarbage
    \/ \E kind \in {"message", "interrupt"} : Send(kind)

Next ==
    \/ Launch
    \/ Appends
    \/ HandshakeEnds
    \/ IdleFires
    \/ LadderSteps
    \/ \E code \in {"ok", "bad"} : ChildExits(code)
    \/ \E n \in 1..MaxLines : ReadLine(n)
    \/ DropUnready
    \/ BeginMessage
    \/ AbortTurn
    \/ Environment

\* SIGKILL leaves the worker no choice.
ChildReaped == shutdown.ladder = "kill" /\ ChildExits("bad")

Fairness ==
    /\ WF_vars(Launch)
    /\ WF_vars(SpawnedLands)
    /\ WF_vars(FailureLands)
    /\ WF_vars(HandshakeErrorLands)
    /\ WF_vars(KilledLands)
    /\ WF_vars(FallbackLands)
    /\ WF_vars(CrashErrorLands)
    /\ WF_vars(IdleFires)
    /\ WF_vars(LadderSteps)
    /\ WF_vars(ChildReaped)

Spec == Init /\ [][Next]_vars /\ Fairness

-----------------------------------------------------------------------------
(* Properties                                                              *)

\* The exit of the worker never overtakes the `killed` event of a shutdown that was
\* requested: the supervisor leaves only after it landed.  A launch that failed
\* leaves an error instead.
KilledBeforeExit ==
    proc = "exited" /\ shutdown.killed # "none" => shutdown.killed = "landed" \/ child = "failed"

\* There is never a second active turn: messages wait for the tracker to be empty
\* and interrupts empty it, whatever the output handlers finish in between.
OneTurn == Len(turns) <= 1

\* The idle timer only runs while the tracker is empty, through interrupts, late
\* results and nested finishes: no turn is killed for being idle.
TimerOnlyWhenIdle == idleTimer = "armed" => turns = <<>>

\* The only way for a supervisor to leave without a done, error or killed in the
\* file is that the worker's exit overtook a report that was being written.
OutcomeLostOnlyInFlight ==
    proc = "exited" /\ ~told
        => crash = "reporting" \/ \E n \in 1..Len(stdout) : stdout[n].at = "reporting"

\* Once a shutdown has a reason the supervisor goes away, however deaf the worker.
ShutdownCompletes == ShuttingDown ~> ~Live

=============================================================================
