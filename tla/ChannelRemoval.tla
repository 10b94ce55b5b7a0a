--------------------------- MODULE ChannelRemoval ---------------------------
(***************************************************************************)
(* The commands that destroy a channel: channel rm, channel prune, create  *)
(* --force and the end of channel run.  Each lists the pid files, signals  *)
(* the live supervisors one after the other, waits 1.5 s, kills what is    *)
(* left and wipes the directory, while workers are spawned and supervisors *)
(* close.  A supervisor gives its child 3 s before it signals it.          *)
(***************************************************************************)
EXTENDS Naturals, FiniteSets

CONSTANTS
    Workers,        \* worker names
    None,           \* no value
    MaxLaunches,    \* bound: launches of one worker name
    MaxRemovals     \* bound: removals begun

VARIABLES
    dir,            \* "missing", "channel", or "ghost": recreated by an append alone
    ephemeral,      \* the create event says so
    pid,            \* worker -> its pid file exists
    config,         \* workers whose supervisor config exists
    supervisor,     \* worker -> "none", "launched", "ready", "closing" or "gone"
    child,          \* worker -> "none", "alive" or "dead"
    remover,        \* the removal under way, or None
    run,            \* channel run: "off", "created", "watching", "kept" or "removed"
    done,           \* the run's worker has emitted done
    \* History, read by no guard:
    launches,       \* worker -> launches so far
    removals,
    listed          \* worker -> the launch a removal listed as live

fileVars == <<dir, ephemeral, pid, config>>
procVars == <<supervisor, child>>
runVars == <<run, done>>
history == <<launches, removals, listed>>
vars == <<fileVars, procVars, remover, runVars, history>>

Removers == [why : {"rm", "prune", "force", "run"}, todo : SUBSET Workers,
             at : Workers \cup {None}]

TypeOK ==
    /\ dir \in {"missing", "channel", "ghost"} /\ ephemeral \in BOOLEAN
    /\ pid \in [Workers -> BOOLEAN] /\ config \subseteq Workers
    /\ supervisor \in [Workers -> {"none", "launched", "ready", "closing", "gone"}]
    /\ child \in [Workers -> {"none", "alive", "dead"}]
    /\ remover \in Removers \cup {None}
    /\ launches \in [Workers -> 0..MaxLaunches] /\ removals \in 0..MaxRemovals

Init ==
    /\ dir = "missing" /\ ephemeral = FALSE /\ pid = [w \in Workers |-> FALSE]
    /\ config = {}
    /\ supervisor = [w \in Workers |-> "none"] /\ child = [w \in Workers |-> "none"]
    /\ remover = None /\ run = "off" /\ done = FALSE
    /\ launches = [w \in Workers |-> 0] /\ removals = 0
    /\ listed = [w \in Workers |-> 0]

Alive(w) == supervisor[w] \in {"launched", "ready", "closing"}

-----------------------------------------------------------------------------
(* Channels and their workers.                                              *)

\* createChannel without --force.
Create ==
    /\ dir = "missing" /\ dir' = "channel"
    /\ ephemeral' \in BOOLEAN
    /\ UNCHANGED <<pid, config, procVars, remover, runVars, history>>

\* spawnLocked: the name is free, and the supervisor is forked.
Fork(w) ==
    /\ dir # "missing" /\ launches[w] < MaxLaunches /\ ~Alive(w)
    /\ supervisor' = [supervisor EXCEPT ![w] = "launched"]
    /\ child' = [child EXCEPT ![w] = "none"]
    /\ launches' = [launches EXCEPT ![w] = @ + 1]
    /\ config' = config \cup {w}
    /\ UNCHANGED <<dir, ephemeral, pid, remover, removals, listed>>

Launch(w) == Fork(w) /\ UNCHANGED runVars

\* ... and its pid is written; in a wiped directory the write fails.
WritePid(w) ==
    /\ Alive(w) /\ ~pid[w] /\ dir # "missing"
    /\ pid' = [pid EXCEPT ![w] = TRUE]
    /\ UNCHANGED <<dir, ephemeral, config, procVars, remover, runVars, history>>

\* The supervisor reads its config and starts the child; without one it exits.
Start(w) ==
    /\ supervisor[w] = "launched"
    /\ \/ /\ w \in config
          /\ supervisor' = [supervisor EXCEPT ![w] = "ready"]
          /\ child' = [child EXCEPT ![w] = "alive"]
          /\ UNCHANGED fileVars
       \/ /\ w \notin config
          /\ supervisor' = [supervisor EXCEPT ![w] = "gone"]
          /\ UNCHANGED <<fileVars, child>>
    /\ UNCHANGED <<remover, runVars, history>>

\* An append of a process that resolved the channel before it was wiped.
LateAppend ==
    /\ dir = "missing" /\ \E w \in Workers : supervisor[w] \in {"ready", "closing"}
    /\ dir' = "ghost" /\ ephemeral' = FALSE
    /\ UNCHANGED <<pid, config, procVars, remover, runVars, history>>

\* The child ends; its supervisor records it, removes its files and exits.
ChildEnds(w) ==
    /\ child[w] = "alive" /\ supervisor[w] \in {"ready", "closing"}
    /\ child' = [child EXCEPT ![w] = "dead"]
    /\ supervisor' = [supervisor EXCEPT ![w] = "gone"]
    /\ pid' = [pid EXCEPT ![w] = FALSE]
    /\ UNCHANGED <<dir, ephemeral, config, remover, runVars, history>>

-----------------------------------------------------------------------------
(* The removals.  Only one is under way at a time.                          *)

Live == {w \in Workers : pid[w] /\ Alive(w)}

Begin(why) ==
    /\ remover = None /\ removals < MaxRemovals /\ dir # "missing"
    /\ remover' = [why |-> why, todo |-> {w \in Workers : pid[w]}, at |-> None]
    /\ listed' = [w \in Workers |-> IF w \in Live THEN launches[w] ELSE listed[w]]
    /\ removals' = removals + 1
    /\ UNCHANGED <<fileVars, procVars, launches>>

BeginRm == Begin("rm") /\ UNCHANGED runVars
BeginForce == Begin("force") /\ UNCHANGED runVars

\* channelPrune: --all and --idle take any channel without a live worker,
\* --ephemeral only those marked so.
BeginPrune == Live = {} /\ Begin("prune") /\ UNCHANGED runVars

\* SIGTERM; a supervisor that has not installed its handlers dies of it.
Signal ==
    /\ remover # None /\ remover.at = None
    /\ \E w \in remover.todo :
          /\ remover' = [remover EXCEPT !.todo = @ \ {w}, !.at = IF Alive(w) THEN w ELSE None]
          /\ supervisor' = [supervisor EXCEPT
                ![w] = CASE @ = "launched" -> "gone" [] @ = "ready" -> "closing" [] OTHER -> @]
    /\ UNCHANGED <<fileVars, child, runVars, history>>

\* A removal that does not look again when its patience ends.
WaitOnly ==
    /\ remover # None /\ remover.at # None
    /\ remover' = [remover EXCEPT !.at = None]
    /\ UNCHANGED <<fileVars, procVars, runVars, history>>

\* The supervisor is gone, or is killed when 1.5 s have passed.  Its child is not.
Await ==
    /\ remover # None /\ remover.at # None
    /\ supervisor' = [supervisor EXCEPT ![remover.at] = "gone"]
    /\ remover' = [remover EXCEPT !.at = None]
    /\ UNCHANGED <<fileVars, child, runVars, history>>

\* rmSync; create --force then appends the create event of a new channel.
Wipe ==
    /\ remover # None /\ remover.at = None /\ remover.todo = {}
    /\ dir' = IF remover.why = "force" THEN "channel" ELSE "missing"
    /\ ephemeral' = FALSE
    /\ pid' = [w \in Workers |-> FALSE] /\ config' = {}
    /\ remover' = None
    /\ run' = IF remover.why = "run" THEN "removed" ELSE run
    /\ UNCHANGED <<procVars, done, history>>

-----------------------------------------------------------------------------
(* channel run: create, spawn, send, watch for done, and clean up.          *)

RunCreate ==
    /\ run = "off" /\ dir = "missing"
    /\ run' = "created" /\ dir' = "channel" /\ ephemeral' = TRUE
    /\ UNCHANGED <<pid, config, procVars, remover, done, history>>

RunSpawn ==
    /\ run = "created" /\ run' = "watching"
    /\ \E w \in Workers : Fork(w)
    /\ UNCHANGED <<done>>

\* The worker's turn ends while the run watches for it.
WorkerDone ==
    /\ run = "watching" /\ ~done /\ \E w \in Workers : supervisor[w] = "ready"
    /\ done' = TRUE
    /\ UNCHANGED <<fileVars, procVars, remover, run, history>>

\* Success removes the channel; an error, a kill or a timeout keeps it.
RunSucceeds == run = "watching" /\ done /\ Begin("run") /\ UNCHANGED runVars

RunFails ==
    /\ run \in {"created", "watching"} /\ (run = "created" => dir # "channel")
    /\ run' = "kept"
    /\ UNCHANGED <<fileVars, procVars, remover, done, history>>

Next ==
    \/ Create \/ LateAppend
    \/ \E w \in Workers : Launch(w) \/ WritePid(w) \/ Start(w) \/ ChildEnds(w)
    \/ BeginRm \/ BeginForce \/ BeginPrune \/ Signal \/ Await \/ Wipe
    \/ RunCreate \/ RunSpawn \/ WorkerDone \/ RunSucceeds \/ RunFails

Spec == Init /\ [][Next]_vars

-----------------------------------------------------------------------------
(* A removal leaves no supervisor it listed: when the directory has been    *)
(* wiped, whatever launch of a worker was live at the listing has ended,    *)
(* through slow shutdowns, late starts and new launches of the same name.   *)
ListedStopped ==
    \A w \in Workers :
        remover = None /\ listed[w] # 0 /\ listed[w] = launches[w] => ~Alive(w)

=============================================================================
