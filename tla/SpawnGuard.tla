----------------------------- MODULE SpawnGuard -----------------------------
(***************************************************************************)
(* `channel spawn` with its worker budget, `channel kill`, and the         *)
(* supervisors they start and stop.  They meet in the runtime files of a   *)
(* worker: pid, config, spawnlock, reservation.  Every client is a process *)
(* of its own that runs one command; a step is one file-system call or     *)
(* signal, or a stretch nobody can tell from one.                          *)
(***************************************************************************)
EXTENDS Naturals, FiniteSets, TLC, WorkerRegistry

CONSTANTS
    Workers,        \* worker names of one project bucket
    Clients,        \* processes that run `channel spawn` and `channel kill`
    MaxSups,        \* bound: supervisors ever launched
    MaxLive,        \* the worker budget
    Crashes,        \* whether clients and supervisors may be killed from outside
    None            \* no file, nobody

Sups == 1..MaxSups

ASSUME BoundsAssumption == MaxSups \in Nat /\ MaxLive \in Nat \ {0}
ASSUME CrashesAssumption == Crashes \in BOOLEAN
ASSUME NoneAssumption ==
    None \notin Sups /\ None \notin Workers /\ None \notin Clients /\ None # "present"

\* pid holds a supervisor, spawnlock the client that stamped it.
RuntimeFiles == [pid : Sups \cup {None}, config : {"present", None},
                 spawnlock : Clients \cup {None}, reservation : {"present", None}]

VARIABLES
    files,      \* the runtime files of each worker
    guardLock,  \* .worker-guard.lock
    at,         \* where each client is in its command
    target,     \* the worker its command is about
    victim,     \* the supervisor it waits for, or has forked
    expired,    \* supervisors it has found idle for too long
    culled,     \* workers whose supervisor it has signalled
    supOf,      \* the worker of each supervisor
    supAt,      \* where each supervisor is in its life
    registry,   \* what the events in the log say of each worker
    undisturbed \* history: no mishap has disturbed the files

locals == <<target, victim, expired, culled>>
clientVars == <<at, locals>>
supVars == <<supOf, supAt>>
outside == <<supVars, registry, undisturbed>>
vars == <<files, guardLock, clientVars, supVars, registry, undisturbed>>

Launching == {"prepare", "fork", "pid"}

SpawnLocations == {"scan", "cull", "count", "lock", "recheck"} \cup Launching

KillLocations == {"inspect", "wait", "rm-pid", "rm-config", "rm-spawnlock"}

\* A client between taking the spawnlock and releasing it.
Inside(c) == at[c] \in {"recheck"} \cup Launching \cup KillLocations

\* forked: no signal handlers yet;  recording: the append of `spawned` is in flight;
\* leaving / stopping: asked to stop before / after it landed;  rm-*: about to
\* remove that file on its way out.
SupLocations == {"unborn", "forked", "recording", "up", "leaving", "stopping", "rm-pid",
                 "rm-config", "rm-spawnlock", "rm-reservation", "dead"}

TypeOK ==
    /\ files \in [Workers -> RuntimeFiles]
    /\ guardLock \in Clients \cup {None}
    /\ at \in [Clients -> {"idle", "return"} \cup SpawnLocations \cup KillLocations]
    /\ target \in [Clients -> Workers \cup {None}]
    /\ victim \in [Clients -> Sups \cup {None}]
    /\ expired \in [Clients -> SUBSET Sups]
    /\ culled \in [Clients -> SUBSET Workers]
    /\ supOf \in [Sups -> Workers \cup {None}]
    /\ supAt \in [Sups -> SupLocations]
    /\ registry \in [Workers -> WorkerStates]
    /\ undisturbed \in BOOLEAN

Init ==
    /\ files = [w \in Workers |->
                  [pid |-> None, config |-> None, spawnlock |-> None, reservation |-> None]]
    /\ guardLock = None
    /\ at = [c \in Clients |-> "idle"]
    /\ target = [c \in Clients |-> None]
    /\ victim = [c \in Clients |-> None]
    /\ expired = [c \in Clients |-> {}]
    /\ culled = [c \in Clients |-> {}]
    /\ supOf = [s \in Sups |-> None]
    /\ supAt = [s \in Sups |-> "unborn"]
    /\ registry = [w \in Workers |-> Unknown]
    /\ undisturbed = TRUE

-----------------------------------------------------------------------------
(* Shared pieces                                                           *)

\* Mutant: takes a process for dead until its supervisor code runs.
AliveOnceBooted(s) == s # None /\ supAt[s] \notin {"unborn", "forked", "dead"}

Alive(s) == s # None /\ supAt[s] \notin {"unborn", "dead"}

\* A supervisor nobody has asked to stop and whose worker has not ended.
Serving(s) == supAt[s] \in {"forked", "recording", "up"}

Goto(c, l) == at' = [at EXCEPT ![c] = l]

SupGoes(s, l) == supAt' = [supAt EXCEPT ![s] = l]

Write(w, file, content) == files' = [files EXCEPT ![w] = [@ EXCEPT ![file] = content]]

Land(w, ev) == registry' = [registry EXCEPT ![w] = Apply(@, ev)]

\* Where a SIGTERM takes a supervisor: before its handlers are installed it dies.
AfterSigterm(l) ==
    CASE l = "forked" -> "dead"
      [] l = "recording" -> "leaving"
      [] l = "up" -> "stopping"
      [] OTHER -> l

\* withLock on the spawnlock. The mutual exclusion it is there for is lost when
\* the file of a client still inside was removed.
TakeSpawnlock(c, w, l) ==
    /\ files[w].spawnlock = None
    /\ Write(w, "spawnlock", c)
    /\ Goto(c, l)
    /\ target' = [target EXCEPT ![c] = w]
    /\ undisturbed' = (undisturbed /\ ~\E d \in Clients : target[d] = w /\ Inside(d))
    /\ UNCHANGED <<guardLock, victim, expired, culled, supVars, registry>>

\* The command ends or throws: releaseLock removes the locks that bear its pid.
Return(c) ==
    /\ at[c] = "return"
    /\ files' = [w \in Workers |->
                   IF files[w].spawnlock = c THEN [files[w] EXCEPT !.spawnlock = None]
                   ELSE files[w]]
    /\ guardLock' = IF guardLock = c THEN None ELSE guardLock
    /\ Goto(c, "idle")
    /\ target' = [target EXCEPT ![c] = None]
    /\ victim' = [victim EXCEPT ![c] = None]
    /\ UNCHANGED <<expired, culled, outside>>

-----------------------------------------------------------------------------
(* channel spawn                                                           *)

\* The command starts with the lock of the whole bucket.
TakeGuard(c, w) ==
    /\ at[c] = "idle" /\ guardLock = None
    /\ guardLock' = c
    /\ Goto(c, "scan")
    /\ target' = [target EXCEPT ![c] = w]
    /\ UNCHANGED <<files, victim, expired, culled, outside>>

\* scanLiveWorkers: a worker counts when its supervisor lives and the registry
\* does not say it has ended, or it has a reservation.
Counted(w) ==
    /\ Alive(files[w].pid)
    /\ \/ registry[w] # Unknown /\ ~Terminal(registry[w])
       \/ files[w].reservation # None

\* isIdleCleanupEligible, but for the time that has passed. A worker known only
\* by its reservation has no idleSince.
Eligible(w) ==
    Alive(files[w].pid) /\ registry[w] = [lifecycle |-> "running", activity |-> "idle"]

\* The first scan, and the workers among them that have been idle for too long.
Scan(c) ==
    /\ at[c] = "scan"
    /\ \E ws \in SUBSET {w \in Workers : Eligible(w)} :
          expired' = [expired EXCEPT ![c] = {files[w].pid : w \in ws}]
    /\ Goto(c, "cull")
    /\ UNCHANGED <<files, guardLock, target, victim, culled, outside>>

\* cleanupExpiredIdleWorkers signals them one after the other.
Cull(c) ==
    /\ at[c] = "cull"
    /\ IF expired[c] = {}
       THEN Goto(c, "count") /\ UNCHANGED <<expired, culled, supAt>>
       ELSE \E s \in expired[c] :
              /\ expired' = [expired EXCEPT ![c] = @ \ {s}]
              /\ SupGoes(s, AfterSigterm(supAt[s]))
              /\ culled' = [culled EXCEPT ![c] = IF Alive(s) THEN @ \cup {supOf[s]} ELSE @]
              /\ UNCHANGED at
    /\ UNCHANGED <<files, guardLock, target, victim, supOf, registry, undisturbed>>

\* The second scan leaves out the workers that were signalled.
Count(c) ==
    /\ at[c] = "count"
    /\ IF Cardinality({w \in Workers \ culled[c] : Counted(w)}) < MaxLive
       THEN Goto(c, "lock")
       ELSE Goto(c, "return")
    /\ culled' = [culled EXCEPT ![c] = {}]
    /\ UNCHANGED <<files, guardLock, target, victim, expired, outside>>

\* The name is free unless its pid file names a live process.
NameFree(w) == ~Alive(files[w].pid)

TakeWorkerLock(c) == at[c] = "lock" /\ TakeSpawnlock(c, target[c], "recheck")

\* It does not come free in time, and withLock throws.
GiveUp(c) ==
    /\ at[c] = "lock"
    /\ Goto(c, "return")
    /\ UNCHANGED <<files, guardLock, locals, outside>>

Recheck(c) ==
    /\ at[c] = "recheck"
    /\ Goto(c, IF NameFree(target[c]) THEN "prepare" ELSE "return")
    /\ UNCHANGED <<files, guardLock, locals, outside>>

Prepare(c) ==
    /\ at[c] = "prepare"
    /\ files' = [files EXCEPT ![target[c]] =
                    [@ EXCEPT !.config = "present", !.reservation = "present"]]
    /\ Goto(c, "fork")
    /\ UNCHANGED <<guardLock, locals, outside>>

\* The detached supervisor exists from here.
Fork(c) ==
    /\ at[c] = "fork"
    /\ \E s \in Sups :
          /\ supAt[s] = "unborn" /\ \A r \in 1..(s - 1) : supAt[r] # "unborn"
          /\ SupGoes(s, "forked")
          /\ supOf' = [supOf EXCEPT ![s] = target[c]]
          /\ victim' = [victim EXCEPT ![c] = s]
    /\ Goto(c, "pid")
    /\ UNCHANGED <<files, guardLock, target, expired, culled, registry, undisturbed>>

\* The `error` event of the fork: config and reservation are taken back.
ForkFails(c) ==
    /\ at[c] = "fork"
    /\ files' = [files EXCEPT ![target[c]] = [@ EXCEPT !.config = None, !.reservation = None]]
    /\ Goto(c, "return")
    /\ UNCHANGED <<guardLock, locals, outside>>

WritePid(c) ==
    /\ at[c] = "pid"
    /\ Write(target[c], "pid", victim[c])
    /\ Goto(c, "return")
    /\ UNCHANGED <<guardLock, locals, outside>>

-----------------------------------------------------------------------------
(* channel kill                                                            *)

\* An event `cli:kill` appends about its target.
FromCli(kind) == By(Plain(kind), "cli")

TakeTarget(c, w) == at[c] = "idle" /\ TakeSpawnlock(c, w, "inspect")

\* Nobody there: throw. A dead supervisor: report it and clean up.
NothingToKill(c) ==
    LET w == target[c] IN
    /\ at[c] = "inspect" /\ ~Alive(files[w].pid)
    /\ IF files[w].pid = None
       THEN Goto(c, "return") /\ UNCHANGED registry
       ELSE Goto(c, "rm-pid") /\ Land(w, FromCli("error"))
    /\ UNCHANGED <<files, guardLock, locals, supVars, undisturbed>>

Terminate(c) ==
    LET s == files[target[c]].pid IN
    /\ at[c] = "inspect" /\ Alive(s)
    /\ SupGoes(s, AfterSigterm(supAt[s]))
    /\ victim' = [victim EXCEPT ![c] = s]
    /\ Goto(c, "wait")
    /\ UNCHANGED <<files, guardLock, target, expired, culled, supOf, registry, undisturbed>>

\* SIGKILL, and the `killed` event in the supervisor's place.
Execute(c, s, l) ==
    /\ SupGoes(s, "dead")
    /\ Land(target[c], FromCli("killed"))
    /\ victim' = [victim EXCEPT ![c] = s]
    /\ Goto(c, l)
    /\ UNCHANGED <<files, guardLock, target, expired, culled, supOf, undisturbed>>

\* kill --force
ForceKill(c) ==
    /\ at[c] = "inspect" /\ Alive(files[target[c]].pid)
    /\ Execute(c, files[target[c]].pid, "wait")

Gone(s) == ~Alive(s)

\* The polls that end the wait: the supervisor is gone, or its grace has expired.
WaitEnds(c) ==
    /\ at[c] = "wait" /\ Gone(victim[c])
    /\ Goto(c, "rm-pid")
    /\ UNCHANGED <<files, guardLock, locals, outside>>

GraceExpires(c) ==
    /\ at[c] = "wait" /\ ~Gone(victim[c])
    /\ Execute(c, victim[c], "rm-pid")

\* cleanupFiles, one unlink at a time.
NextRm(l) ==
    CASE l = "rm-pid" -> "rm-config"
      [] l = "rm-config" -> "rm-spawnlock"
      [] l = "rm-spawnlock" -> "return"

FileOf(l) ==
    CASE l = "rm-pid" -> "pid"
      [] l = "rm-config" -> "config"
      [] l = "rm-spawnlock" -> "spawnlock"
      [] l = "rm-reservation" -> "reservation"

Tidy(c) ==
    /\ at[c] \in {"rm-pid", "rm-config", "rm-spawnlock"}
    /\ Write(target[c], FileOf(at[c]), None)
    /\ Goto(c, NextRm(at[c]))
    /\ UNCHANGED <<guardLock, locals, outside>>

-----------------------------------------------------------------------------
(* Supervisors                                                             *)

\* Mutant: relies on the pid file of its parent.
BootWithoutPid(s) ==
    /\ supAt[s] = "forked"
    /\ SupGoes(s, IF files[supOf[s]].config = None THEN "dead" ELSE "recording")
    /\ UNCHANGED <<files, guardLock, clientVars, supOf, registry, undisturbed>>

\* Without its config it dies at once; otherwise it writes its own pid file, starts
\* the worker and installs its signal handlers.
Boot(s) ==
    /\ supAt[s] = "forked"
    /\ IF files[supOf[s]].config = None
       THEN SupGoes(s, "dead") /\ UNCHANGED files
       ELSE SupGoes(s, "recording") /\ Write(supOf[s], "pid", s)
    /\ UNCHANGED <<guardLock, clientVars, supOf, registry, undisturbed>>

SpawnedLands(s) ==
    /\ supAt[s] = "recording"
    /\ SupGoes(s, "up")
    /\ Land(supOf[s], Plain("spawned"))
    /\ UNCHANGED <<files, guardLock, clientVars, supOf, undisturbed>>

\* A turn of the worker begins or ends.
Turn(s, kind) ==
    /\ supAt[s] = "up" /\ kind \in {"turn_started", "turn_finished"}
    /\ Land(supOf[s], Plain(kind))
    /\ UNCHANGED <<files, guardLock, clientVars, supVars, undisturbed>>

\* A timer of its own, a signal of the user or a failed worker stops it.
Stops(s) ==
    /\ supAt[s] \in {"recording", "up"}
    /\ SupGoes(s, AfterSigterm(supAt[s]))
    /\ UNCHANGED <<files, guardLock, clientVars, supOf, registry, undisturbed>>

Killed == By(Plain("killed"), "supervisor")
Failed == By(Plain("error"), "supervisor")
Fallback == [Plain("done") EXCEPT !.synthesized = TRUE]

\* What a supervisor may leave in the registry: `spawned` may land on either side
\* of the last event, or be lost; a worker that reported before gets no fallback;
\* a worker that never started leaves an error.
Legacies(w, l) ==
    CASE l = "recording" -> {Apply(w, Failed), Apply(w, Fallback),
                             Apply(Apply(w, Plain("spawned")), Fallback),
                             Apply(Apply(w, Fallback), Plain("spawned"))}
      [] l = "up" -> {w, Apply(w, Fallback)}
      [] l = "leaving" -> {Apply(w, Killed), Apply(Apply(w, Killed), Plain("spawned"))}
      [] l = "stopping" -> {Apply(w, Killed)}

\* Its worker has exited, unasked or at the end of a shutdown.
WorkerExits(s) ==
    /\ supAt[s] \in {"recording", "up", "leaving", "stopping"}
    /\ SupGoes(s, "rm-pid")
    /\ \E w \in Legacies(registry[supOf[s]], supAt[s]) :
          registry' = [registry EXCEPT ![supOf[s]] = w]
    /\ UNCHANGED <<files, guardLock, clientVars, supOf, undisturbed>>

\* Somebody else is launching, or has launched, this worker meanwhile.
Succeeded(s) ==
    \/ \E r \in Sups \ {s} : supOf[r] = supOf[s] /\ Serving(r)
    \/ \E c \in Clients : target[c] = supOf[s] /\ at[c] \in Launching

NextExit(l) ==
    CASE l = "rm-pid" -> "rm-config"
      [] l = "rm-config" -> "rm-spawnlock"
      [] l = "rm-spawnlock" -> "rm-reservation"
      [] l = "rm-reservation" -> "dead"

\* cleanup() removes whatever bears the name, its own or not.
Leave(s) ==
    LET w == supOf[s] IN
    /\ supAt[s] \in {"rm-pid", "rm-config", "rm-spawnlock", "rm-reservation"}
    /\ Write(w, FileOf(supAt[s]), None)
    /\ undisturbed' = (undisturbed /\ ~(supAt[s] # "rm-spawnlock" /\ Succeeded(s)))
    /\ SupGoes(s, NextExit(supAt[s]))
    /\ UNCHANGED <<guardLock, clientVars, supOf, registry>>

-----------------------------------------------------------------------------
(* Crashes                                                                 *)

\* The locks of a client that died are stale, and as good as free. A supervisor
\* it has forked but not yet written the pid of is on its own.
ClientCrashes(c) ==
    /\ Crashes /\ at[c] # "idle"
    /\ files' = [w \in Workers |->
                   IF files[w].spawnlock = c THEN [files[w] EXCEPT !.spawnlock = None]
                   ELSE files[w]]
    /\ guardLock' = IF guardLock = c THEN None ELSE guardLock
    /\ Goto(c, "idle")
    /\ target' = [target EXCEPT ![c] = None]
    /\ victim' = [victim EXCEPT ![c] = None]
    /\ expired' = [expired EXCEPT ![c] = {}]
    /\ culled' = [culled EXCEPT ![c] = {}]
    /\ undisturbed' = (undisturbed /\ at[c] # "pid")
    /\ UNCHANGED <<supVars, registry>>

SupCrashes(s) ==
    /\ Crashes /\ Alive(s)
    /\ SupGoes(s, "dead")
    /\ UNCHANGED <<files, guardLock, clientVars, supOf, registry, undisturbed>>

-----------------------------------------------------------------------------

Spawn(c) ==
    \/ \E w \in Workers : TakeGuard(c, w)
    \/ Scan(c)
    \/ Cull(c)
    \/ Count(c)
    \/ TakeWorkerLock(c)
    \/ GiveUp(c)
    \/ Recheck(c)
    \/ Prepare(c)
    \/ Fork(c)
    \/ ForkFails(c)
    \/ WritePid(c)

Kill(c) ==
    \/ \E w \in Workers : TakeTarget(c, w)
    \/ NothingToKill(c)
    \/ Terminate(c)
    \/ ForceKill(c)
    \/ WaitEnds(c)
    \/ GraceExpires(c)
    \/ Tidy(c)

Supervise(s) ==
    \/ Boot(s)
    \/ SpawnedLands(s)
    \/ \E kind \in {"turn_started", "turn_finished"} : Turn(s, kind)
    \/ Stops(s)
    \/ WorkerExits(s)
    \/ Leave(s)

Next ==
    \/ \E c \in Clients : Spawn(c) \/ Kill(c) \/ Return(c) \/ ClientCrashes(c)
    \/ \E s \in Sups : Supervise(s) \/ SupCrashes(s)

Spec == Init /\ [][Next]_vars

-----------------------------------------------------------------------------
(* Properties                                                              *)

\* `channel kill` and the guard find every serving supervisor by its pid file
\* (supervisor.ts: "Self-pid file lets `pactile channel kill` find us").
UpIsFindable == \A s \in Sups : supAt[s] = "up" => files[supOf[s]].pid = s

\* Only three mishaps can hide a running supervisor: two clients inside the
\* spawnlock of a worker, a supervisor that removes the files of its successor, a
\* spawner that dies between the fork and the pid file.
FindableUndisturbed == undisturbed => UpIsFindable

\* Nor make a worker run twice.
OnceUndisturbed ==
    undisturbed =>
        \A r, s \in Sups : Serving(r) /\ Serving(s) /\ supOf[r] = supOf[s] => r = s

-----------------------------------------------------------------------------
(* Checking. The properties promise nothing after a mishap. *)
Followed == undisturbed
Symmetry == Permutations(Workers) \cup Permutations(Clients)
=============================================================================
