----------------------------- MODULE MCClients -----------------------------
(* Those who read a channel's log in folds and write it, side by side: the   *)
(* thread commands, and the library calls on one worker.                     *)
(* part picks the machine that moves; the other stays as it began.           *)
EXTENDS Naturals, Sequences, FiniteSets, TLC

CONSTANTS None, Keys, Entries, Clients,
          MaxEvents, MaxLog, MaxSpawns

VARIABLES
    part,
    log, pending,
    events, up, working, spawns, watch, send, reconcile, interrupt

T == INSTANCE Threads
W == INSTANCE WorkerClients WITH log <- events, MaxEvents <- MaxLog

threadVars == <<log, pending>>
workerVars == <<events, up, working, spawns, watch, send, reconcile, interrupt>>

Init ==
    /\ part \in {"threads", "workers"}
    /\ T!Init /\ W!Init

StepThreads == part = "threads" /\ T!Next /\ UNCHANGED <<part, workerVars>>
StepWorkers == part = "workers" /\ W!Next /\ UNCHANGED <<part, threadVars>>

vars == <<part, threadVars, workerVars>>

Next == StepThreads \/ StepWorkers

Spec == Init /\ [][Next]_vars

\* One library call on the worker at a time, but for a watch, which a reconcile with an
\* old reading may end while the worker lives: the property judges neither that end nor
\* what two other calls do to each other.
FewCalls ==
    \/ send = None /\ interrupt = None
    \/ Cardinality({i \in 1..4 : <<watch, send, reconcile, interrupt>>[i] # None}) <= 1

\* No thread key is special.
Symmetry == Permutations(Keys)

(* A thread's timeline is complete, and thread show and the board show the  *)
(* same thread. Both are about the log alone, and a log that is reached     *)
(* while a checked event waits is also reached without it.                  *)
ThreadsAgree == part = "threads" /\ pending = [c \in Clients |-> None] => T!TimelineComplete /\ T!ShowAgreesWithBoard

(* An inbox shows one incarnation of a worker (see WorkerClients).          *)
InboxOneGeneration == part = "workers" => W!InboxOneGeneration
=============================================================================
