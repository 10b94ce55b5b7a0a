------------------------------ MODULE FileLock ------------------------------
(***************************************************************************)
(* The advisory lock file that serialises every writer of a channel:       *)
(* withLock / acquireLock / releaseLock of store/lock.ts.  One lock path;  *)
(* a task is one call of withLock, and the tasks of one Node process share *)
(* its pid and its thread.  Every file-system call is a step of its own,   *)
(* so processes interleave between any two of them, while a synchronous    *)
(* stretch of code excludes the other tasks of the same process.           *)
(***************************************************************************)

CONSTANTS
    Tasks,      \* calls of withLock
    Pids,       \* operating-system process ids
    PidOf,      \* the process each task runs in
    NoPid,      \* an empty lock file: created but not yet stamped
    NoFile      \* nothing at the lock path

LockFiles == [by : Tasks, pid : Pids \cup {NoPid}]

ASSUME PidOfAssumption == PidOf \in [Tasks -> Pids]
ASSUME NoPidAssumption == NoPid \notin Pids
ASSUME NoFileAssumption == NoFile \notin LockFiles

VARIABLES
    lockFile,   \* what is at the lock path; by names the creator, hence the inode
    alive,      \* alive[p]: process.kill(p, 0) succeeds
    pc,         \* where each task is in withLock
    seen,       \* the pid a task read from the lock file
    \* History, read by no guard:
    fresh,      \* the file at the path is still the one the task read
    raced       \* some unlink acted on outdated evidence

vars == <<lockFile, alive, pc, seen, fresh, raced>>

\* idle: outside withLock;  open: about to openSync(wx);  stamp: created, pid not
\* yet written;  check / judge / unlink: checkAndStealStale;  backoff: after a
\* failed attempt;  held: running fn;  remove: releaseLock found its own pid.
Locations == {"idle", "open", "stamp", "check", "judge", "unlink", "backoff",
              "held", "remove"}

\* Locations inside a synchronous stretch: no other task of the process runs.
MidStretch == {"stamp", "check", "judge", "unlink", "remove"}

\* A task that created the lock file and has not given it up.
Holding(t) == pc[t] \in {"stamp", "held", "remove"}

\* A task may take a step: its process lives and its thread is free.
CanRun(t) ==
    /\ alive[PidOf[t]]
    /\ \A u \in Tasks \ {t} : PidOf[u] = PidOf[t] => pc[u] \notin MidStretch

TypeOK ==
    /\ lockFile \in LockFiles \cup {NoFile}
    /\ alive \in [Pids -> BOOLEAN]
    /\ pc \in [Tasks -> Locations]
    /\ seen \in [Tasks -> Pids \cup {NoPid}]
    /\ fresh \in [Tasks -> BOOLEAN]
    /\ raced \in BOOLEAN

Init ==
    /\ lockFile = NoFile
    /\ alive = [p \in Pids |-> TRUE]
    /\ pc = [t \in Tasks |-> "idle"]
    /\ seen = [t \in Tasks |-> NoPid]
    /\ fresh = [t \in Tasks |-> FALSE]
    /\ raced = FALSE

Goto(t, l) == pc' = [pc EXCEPT ![t] = l]

\* The path now leads to another inode, or to none.
Replaced == fresh' = [t \in Tasks |-> FALSE]

\* What these tasks read goes out of scope.
Forget(ts) ==
    /\ seen' = [t \in Tasks |-> IF t \in ts THEN NoPid ELSE seen[t]]
    /\ fresh' = [t \in Tasks |-> IF t \in ts THEN FALSE ELSE fresh[t]]

-----------------------------------------------------------------------------
(* acquireLock                                                             *)

Call(t) ==
    /\ CanRun(t) /\ pc[t] = "idle"
    /\ Goto(t, "open")
    /\ UNCHANGED <<lockFile, alive, seen, fresh, raced>>

\* Mutant: opens with "w".
WxWithoutExcl == TRUE

\* openSync(lockFile, "wx") creates the file exclusively or fails with EEXIST.
WxSucceeds == lockFile = NoFile

Open(t) ==
    /\ CanRun(t) /\ pc[t] = "open"
    /\ \/ /\ WxSucceeds
          /\ lockFile' = [by |-> t, pid |-> NoPid]
          /\ Goto(t, "stamp")
          /\ Replaced
       \/ /\ ~WxSucceeds
          /\ Goto(t, "check")
          /\ UNCHANGED <<lockFile, fresh>>
    /\ UNCHANGED <<alive, seen, raced>>

\* String(process.pid)
StampValue(t) == PidOf[t]

\* writeSync goes to the inode this task opened, still at the path or not.
Stamp(t) ==
    /\ CanRun(t) /\ pc[t] = "stamp"
    /\ lockFile' = IF lockFile # NoFile /\ lockFile.by = t
                   THEN [lockFile EXCEPT !.pid = StampValue(t)]
                   ELSE lockFile
    /\ Goto(t, "held")
    /\ UNCHANGED <<alive, seen, fresh, raced>>

\* writeSync fails (no space): the error is not EEXIST, so acquireLock throws
\* and leaves the empty file behind.
StampFails(t) ==
    /\ CanRun(t) /\ pc[t] = "stamp"
    /\ Goto(t, "idle")
    /\ UNCHANGED <<lockFile, alive, seen, fresh, raced>>

\* checkAndStealStale: readFileSync, which throws when the file has vanished.
ReadHolder(t) ==
    /\ CanRun(t) /\ pc[t] = "check"
    /\ \/ /\ lockFile = NoFile
          /\ Goto(t, "backoff")
          /\ UNCHANGED <<seen, fresh>>
       \/ /\ lockFile # NoFile
          /\ seen' = [seen EXCEPT ![t] = lockFile.pid]
          /\ fresh' = [fresh EXCEPT ![t] = TRUE]
          /\ Goto(t, "judge")
    /\ UNCHANGED <<lockFile, alive, raced>>

\* Mutant: any pid but the task's own is stale.
StaleWhenForeign(t) == seen[t] # PidOf[t]

\* An empty file, or the pid of a process that is gone, is a stale lock.
LooksStale(t) == seen[t] = NoPid \/ ~alive[seen[t]]

Judge(t) ==
    /\ CanRun(t) /\ pc[t] = "judge"
    /\ IF LooksStale(t)
       THEN Goto(t, "unlink") /\ UNCHANGED <<seen, fresh>>
       ELSE Goto(t, "backoff") /\ Forget({t})
    /\ UNCHANGED <<lockFile, alive, raced>>

\* The evidence of an unlink is outdated when the file is no longer the one
\* that was read, or was read before its living creator stamped it.
Outdated(t) == ~fresh[t] \/ (seen[t] = NoPid /\ Holding(lockFile.by))

Steal(t) ==
    /\ CanRun(t) /\ pc[t] = "unlink"
    /\ \/ /\ lockFile = NoFile
          /\ Goto(t, "backoff")
          /\ UNCHANGED <<lockFile, fresh, raced>>
       \/ /\ lockFile # NoFile
          /\ lockFile' = NoFile
          /\ raced' = (raced \/ Outdated(t))
          /\ Replaced
          /\ Goto(t, "open")
    /\ seen' = [seen EXCEPT ![t] = NoPid]
    /\ UNCHANGED alive

\* Either the deadline has passed and acquireLock throws, or it sleeps and retries.
Backoff(t) ==
    /\ CanRun(t) /\ pc[t] = "backoff"
    /\ \/ Goto(t, "idle")
       \/ Goto(t, "open")
    /\ UNCHANGED <<lockFile, alive, seen, fresh, raced>>

-----------------------------------------------------------------------------
(* releaseLock                                                             *)

\* Reads the file and goes on to unlink it only when it bears this pid.
Release(t) ==
    /\ CanRun(t) /\ pc[t] = "held"
    /\ IF lockFile # NoFile /\ lockFile.pid = PidOf[t]
       THEN Goto(t, "remove") /\ fresh' = [fresh EXCEPT ![t] = TRUE]
       ELSE Goto(t, "idle") /\ UNCHANGED fresh
    /\ UNCHANGED <<lockFile, alive, seen, raced>>

\* unlinkSync removes whatever is at the path by then.
Remove(t) ==
    /\ CanRun(t) /\ pc[t] = "remove"
    /\ lockFile' = NoFile
    /\ raced' = (raced \/ (lockFile # NoFile /\ ~fresh[t]))
    /\ Replaced
    /\ Goto(t, "idle")
    /\ UNCHANGED <<alive, seen>>

-----------------------------------------------------------------------------
(* Processes                                                               *)

\* SIGKILL or power loss at any point; the lock file stays.
Crash(p) ==
    /\ alive[p]
    /\ alive' = [alive EXCEPT ![p] = FALSE]
    /\ pc' = [t \in Tasks |-> IF PidOf[t] = p THEN "idle" ELSE pc[t]]
    /\ Forget({t \in Tasks : PidOf[t] = p})
    /\ UNCHANGED <<lockFile, raced>>

\* The system hands the pid out again, to another process that uses the lock.
Respawn(p) ==
    /\ ~alive[p]
    /\ alive' = [alive EXCEPT ![p] = TRUE]
    /\ UNCHANGED <<lockFile, pc, seen, fresh, raced>>

Acquire(t) ==
    \/ Open(t)
    \/ Stamp(t)
    \/ StampFails(t)
    \/ ReadHolder(t)
    \/ Judge(t)
    \/ Steal(t)
    \/ Backoff(t)

Next ==
    \/ \E t \in Tasks : Call(t) \/ Acquire(t) \/ Release(t) \/ Remove(t)
    \/ \E p \in Pids : Crash(p) \/ Respawn(p)

\* The synchronous stretches run to their end and timers fire; nothing obliges
\* a caller to ask for the lock or the function it protects to return.
Fairness == \A t \in Tasks : WF_vars(Acquire(t)) /\ WF_vars(Remove(t))

Spec == Init /\ [][Next]_vars /\ Fairness

-----------------------------------------------------------------------------
(* Properties                                                              *)

\* At most one task is inside withLock's function: what the callers of
\* withLock rely on (lock.ts, "atomic creation across processes").
MutualExclusion ==
    \A t, u \in Tasks : pc[t] = "held" /\ pc[u] = "held" => t = u

\* The lock excludes as long as no unlink acted on outdated evidence: the
\* windows between open and write, and between read and unlink, are the only
\* ways to two holders, whatever crashes, failed writes and reused pids occur.
ExclusiveUnlessRaced == ~raced => MutualExclusion

\* A contender that read a stamped file, found its process dead and finds the
\* same file still in place never takes the lock of a task that holds it.
StampedHolderSpared ==
    \A t \in Tasks :
        pc[t] = "unlink" /\ fresh[t] /\ seen[t] # NoPid
            => lockFile # NoFile /\ ~Holding(lockFile.by)

=============================================================================
