--------------------------- MODULE WorkerClients ---------------------------
(***************************************************************************)
(* The library calls that follow one worker through the durable log of its *)
(* channel: watchWorkerInbox, strict sendMessage, interruptWorker and      *)
(* reconcileWorkerLiveness.  Each reads the log, decides, and appends or   *)
(* follows later; the worker is spawned, works, ends, crashes and is       *)
(* spawned again meanwhile.  An event's seq is its place in the log.       *)
(***************************************************************************)
EXTENDS Naturals, Sequences, FiniteSets, FiniteSetsExt, SequencesExt, WorkerRegistry

CONSTANTS
    None,           \* no value
    MaxEvents,      \* bound: length of the log
    MaxSpawns       \* bound: spawns of the worker

Policies == {"explicitOnly", "broadcastAndExplicit"}

\* An event of the channel.  to: "worker", or None for a broadcast; of: the
\* message an undeliverable event is about; policy: of a spawned event.
Event(kind) == [kind |-> kind, by |-> "worker", synthesized |-> FALSE, crash |-> FALSE,
                to |-> None, of |-> 0, policy |-> None]

VARIABLES
    log,
    up,             \* the supervisor: "down", "launched" (before spawned) or "announced"
    working,        \* it is in a turn
    spawns,         \* how often the worker was spawned
    watch,          \* the inbox watch, or None
    send,           \* the strict send between its message and its verdict, or None
    reconcile,      \* the reconcile between its probe and its append, or None
    interrupt       \* the interrupt between its request and its outcome, or None

vars == <<log, up, working, spawns, watch, send, reconcile, interrupt>>
clientVars == <<watch, send, reconcile, interrupt>>
workerVars == <<up, working, spawns>>

TypeOK ==
    /\ Len(log) \in 0..MaxEvents
    /\ up \in {"down", "launched", "announced"} /\ working \in BOOLEAN /\ spawns \in 0..MaxSpawns
    /\ watch = None \/ watch.policy \in Policies
    /\ reconcile \in (0..MaxEvents) \cup {None}

Room == Len(log) < MaxEvents
Publish(ev) == Room /\ log' = Append(log, ev)

\* reduceWorkerRegistry, for this worker.
Registry(events) ==
    FoldLeft(LAMBDA w, ev : IF ev.kind \in EventKinds THEN Apply(w, ev) ELSE w, Unknown, events)

\* The inbox policy of the registry: the one of the last spawn.
PolicyOf(events) ==
    LET spawned == {i \in DOMAIN events : events[i].kind = "spawned"}
    IN  IF spawned = {} THEN "explicitOnly" ELSE events[Max(spawned)].policy

\* isTerminalForWorker
EndsWorker(ev) ==
    \/ ev.kind = "killed"
    \/ ev.kind = "done" /\ ev.synthesized
    \/ ev.kind = "error" /\ (ev.synthesized \/ ev.by = "supervisor")

\* matchesInboxPolicy; the worker's own messages are left out.
InboxMatch(ev, policy) ==
    ev.kind = "message" /\ (ev.to = "worker" \/ policy = "broadcastAndExplicit")

Init ==
    /\ log = <<>> /\ up = "down" /\ working = FALSE /\ spawns = 0
    /\ watch = None /\ send = None /\ reconcile = None /\ interrupt = None

-----------------------------------------------------------------------------
(* The worker.                                                              *)

Launch ==
    /\ up = "down" /\ spawns < MaxSpawns
    /\ up' = "launched" /\ spawns' = spawns + 1
    /\ UNCHANGED <<log, working, clientVars>>

Announce ==
    /\ up = "launched" /\ up' = "announced"
    /\ \E policy \in Policies : Publish([Event("spawned") EXCEPT !.policy = policy])
    /\ UNCHANGED <<working, spawns, clientVars>>

TurnChanges ==
    /\ up = "announced" /\ working' = ~working
    /\ Publish(Event(IF working THEN "turn_finished" ELSE "turn_started"))
    /\ UNCHANGED <<up, spawns, clientVars>>

\* Killed, or ended with an error: a terminal event and a supervisor that exits.
WorkerEnds ==
    /\ up = "announced" /\ up' = "down" /\ working' = FALSE
    /\ \E kind \in {"killed", "error"} : Publish([Event(kind) EXCEPT !.by = "supervisor"])
    /\ UNCHANGED <<spawns, clientVars>>

\* The supervisor dies without a word.
WorkerCrashes ==
    /\ up # "down" /\ up' = "down" /\ working' = FALSE
    /\ UNCHANGED <<log, spawns, clientVars>>

\* sendMessage with the default mode.
SendMessage ==
    /\ \E to \in {"worker", None} : Publish([Event("message") EXCEPT !.to = to])
    /\ UNCHANGED <<workerVars, clientVars>>

-----------------------------------------------------------------------------
(* watchWorkerInbox.                                                        *)

\* findGenerationFloorSeq: the last terminal event before the last spawn.
GenerationFloor(events) ==
    LET spawned == {i \in DOMAIN events : events[i].kind = "spawned"}
        ended == {i \in DOMAIN events : EndsWorker(events[i]) /\ \E s \in spawned : i < s}
    IN  IF ended = {} THEN 0 ELSE Max(ended)

\* A watch that trusts the cursor it is given.
BeginAsGiven(cursor) == cursor

\* Where the watch begins: fromStart, an older cursor, or from now.
BeginAt(cursor) == Max({cursor, GenerationFloor(log)})

WatchInbox ==
    /\ watch = None
    /\ Registry(log) # Unknown /\ ~Terminal(Registry(log))
    /\ \E begin \in {BeginAt(cursor) : cursor \in 0..Len(log)} \cup {Len(log)} :
          watch' = [policy |-> PolicyOf(log), begin |-> begin, at |-> begin, read |-> Len(log),
                    got |-> <<>>, over |-> FALSE]
    /\ UNCHANGED <<log, workerVars, send, reconcile, interrupt>>

\* The next event of the tail: a terminal one ends the watch.
WatchNext ==
    /\ watch # None /\ ~watch.over /\ watch.at < Len(log)
    /\ LET ev == log[watch.at + 1]
       IN  watch' = [watch EXCEPT
              !.at = @ + 1,
              !.over = EndsWorker(ev),
              !.got = IF ~EndsWorker(ev) /\ InboxMatch(ev, watch.policy)
                      THEN Append(@, watch.at + 1) ELSE @]
    /\ UNCHANGED <<log, workerVars, send, reconcile, interrupt>>

-----------------------------------------------------------------------------
(* sendMessage with requireRunningWorker, interruptWorker, reconcile.       *)

SendStrict ==
    /\ send = None
    /\ Publish([Event("message") EXCEPT !.to = "worker"])
    /\ send' = [message |-> Len(log) + 1]
    /\ UNCHANGED <<workerVars, watch, reconcile, interrupt>>

\* classifyDelivery, on the log read after the message is durable.
Classify ==
    /\ send # None /\ send' = None
    /\ LET w == Registry(log)
       IN  IF w = Unknown \/ Terminal(w)
           THEN Publish([Event("undeliverable") EXCEPT !.of = send.message])
           ELSE UNCHANGED log
    /\ UNCHANGED <<workerVars, watch, reconcile, interrupt>>

\* interrupt_requested; the runtime is asked only about a worker that runs.
RequestInterrupt ==
    /\ interrupt = None
    /\ Publish(Event("interrupt_requested"))
    /\ LET w == Registry(log)
       IN  interrupt' = IF w = Unknown \/ Terminal(w) THEN None ELSE [read |-> Len(log)]
    /\ UNCHANGED <<workerVars, watch, send, reconcile>>

\* The runtime answers, and the outcome is recorded.
RecordInterrupt ==
    /\ interrupt # None /\ interrupt' = None
    /\ Publish(Event("interrupted"))
    /\ working' \in {FALSE, working}
    /\ UNCHANGED <<up, spawns, watch, send, reconcile>>

\* reconcileWorkerLiveness up to its append: not terminal, and the pid is gone.
Probe ==
    /\ reconcile = None
    /\ Registry(log) # Unknown /\ ~Terminal(Registry(log)) /\ up = "down"
    /\ reconcile' = Len(log)
    /\ UNCHANGED <<log, workerVars, watch, send, interrupt>>

AppendReconciled ==
    /\ reconcile # None /\ reconcile' = None
    /\ Publish([Event("error") EXCEPT !.by = "supervisor", !.synthesized = TRUE])
    /\ UNCHANGED <<workerVars, watch, send, interrupt>>

Next ==
    \/ Launch \/ Announce \/ TurnChanges \/ WorkerEnds \/ WorkerCrashes \/ SendMessage
    \/ WatchInbox \/ WatchNext \/ SendStrict \/ Classify
    \/ RequestInterrupt \/ RecordInterrupt \/ Probe \/ AppendReconciled

Spec == Init /\ [][Next]_vars

-----------------------------------------------------------------------------
(* The watch "does not cross a terminal event into a later respawn", nor    *)
(* reach back before one: no terminal event lies between the first message  *)
(* it may yield and the last it has, it has yielded every match up to its   *)
(* place, and only the end of the generation it was opened on stops it.     *)
InboxOneGeneration ==
    watch # None =>
        LET ended == {i \in DOMAIN log : EndsWorker(log[i])}
            low == watch.begin + 1
            high == IF watch.over THEN watch.at - 1 ELSE watch.at
        IN  /\ \A i \in ended : ~(low <= i /\ i <= high)
            /\ watch.got = SelectSeq([n \in 1..watch.at |-> n],
                              LAMBDA n : n >= low /\ InboxMatch(log[n], watch.policy))
            /\ watch.over => watch.at > watch.read
=============================================================================
