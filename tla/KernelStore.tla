---------------------------- MODULE KernelStore ----------------------------
(***************************************************************************)
(* The task kernel: kernel.json, the task.json projected from it, and the  *)
(* lock file both are written under. A client is one run of task.py or     *)
(* pool.py: it reads task.json, asks the kernel for its revision, and then *)
(* sends a command that the kernel applies under the lock - kernel.json    *)
(* first, task.json after it. Any step may be the last of its process.     *)
(* A record is abstracted to its status and its list of linked pool items. *)
(***************************************************************************)
EXTENDS Naturals, Sequences, FiniteSets

CONSTANTS
    Clients,        \* processes that run commands on the task
    Items, Gates,   \* pool items to link, gates to record
    Moves,          \* target phases of bare transitions
    LegacyStatuses, \* statuses a task older than its kernel may have
    NoKernel, NoProjection, Absent, Torn, Free, None,
    MaxCommands,    \* bound: commands of each client
    MaxCrashes,     \* bound: processes that die
    MaxFailures     \* bound: writes of task.json that fail

Phases == {"open", "define", "approve", "execute", "verify", "integrate", "close"}
PhaseEdges == {<<"open", "define">>, <<"define", "approve">>, <<"approve", "execute">>,
               <<"execute", "verify">>, <<"verify", "integrate">>, <<"verify", "close">>,
               <<"integrate", "close">>}
Statuses == {"planning", "in_progress", "review", "completed"}

HopsToExecute == [open |-> <<"define", "approve", "execute">>,
                  define |-> <<"approve", "execute">>,
                  approve |-> <<"execute">>,
                  execute |-> <<>>]
HopsToClose == [open |-> <<"define", "approve", "execute", "verify", "close">>,
                define |-> <<"approve", "execute", "verify", "close">>,
                approve |-> <<"execute", "verify", "close">>,
                execute |-> <<"verify", "close">>,
                verify |-> <<"close">>,
                integrate |-> <<"close">>,
                close |-> <<>>]
LegacyPhase == [planning |-> "define", in_progress |-> "execute",
                review |-> "verify", completed |-> "close"]

Projections == [status : Statuses, links : SUBSET Items]

ASSUME LegacyAssumption == LegacyStatuses \subseteq Statuses
ASSUME MovesAssumption == Moves \subseteq Phases
ASSUME BoundsAssumption == MaxCommands \in Nat /\ MaxCrashes \in Nat /\ MaxFailures \in Nat

\* What a command may be, with the argument its idempotency key is built from.
Commands ==
    [op : {"create", "start", "archive", "repair", "edit"}, arg : {""}]
        \cup [op : {"link", "unlink"}, arg : Items]
        \cup [op : {"gate"}, arg : Gates]
        \cup [op : {"move"}, arg : Moves]

\* The commands whose client sends back the record it found in task.json.
SendsRecord == {"start", "archive", "link", "unlink", "edit"}

\* An idempotency key; n tells apart the keys that are made afresh.
AuditKeys == [op : {"create", "start", "archive", "edit", "link", "unlink", "gate", "move", "hop"},
              arg : {""} \cup Items \cup Gates \cup Phases, n : Nat]
Audits == [key : AuditKeys, phase : Phases, rev : Nat]
Kernels == [rev : Nat, phase : Phases, audit : SUBSET Audits, proj : Projections \cup {NoProjection}]

\* What a client holds between its read of task.json and its answer.
Requests == [cmd : Commands, record : Projections \cup {None}, rev : Nat,
             seen : Projections \cup {Absent, Torn, None}]

ASSUME MarksAssumption ==
    /\ Absent \notin Projections /\ Torn \notin Projections /\ NoProjection \notin Projections
    /\ Absent # Torn
    /\ NoKernel \notin Kernels
    /\ Free \notin [by : Clients, holder : {"alive", "dead", "unstamped"}]

VARIABLES
    kernel,     \* kernel.json
    task,       \* task.json
    lock,       \* kernel.json.lock: who made it, and whether its pid is there and alive
    pc,         \* where each client is
    request,    \* its command, the record it read and the revision it expects
    plan,       \* the snapshot, or the record, it is about to write
    reply,      \* what the kernel answered
    spent,      \* commands begun by each client, crashes and failures so far
    \* History, read by no guard:
    acked,      \* keys of the commands that answered with a commit
    damaged,    \* a crash or a failure came between the two files, and no write since mended it
    raced       \* a lock was removed that a live process held

files == <<kernel, task>>
clientVars == <<pc, request, plan, reply>>
history == <<acked, damaged, raced>>
vars == <<files, lock, clientVars, spent, history>>

Steps == {"idle", "loaded", "ready", "stealing", "locked", "planned", "persisted",
          "writing", "staged", "checked", "releasing"}
Replies == {"none", "committed", "replayed", "repaired", "in-sync", "cas-mismatch", "half", "refused"}

TypeOK ==
    /\ kernel \in Kernels \cup {NoKernel}
    /\ task \in Projections \cup {Absent, Torn}
    /\ lock \in [by : Clients, holder : {"alive", "dead", "unstamped"}] \cup {Free}
    /\ pc \in [Clients -> Steps]
    /\ request \in [Clients -> Requests \cup {None}]
    /\ plan \in [Clients -> Kernels \cup {None}]
    /\ reply \in [Clients -> Replies]
    /\ spent \in [commands : [Clients -> 0..MaxCommands], crashes : 0..MaxCrashes,
                  failures : 0..MaxFailures]
    /\ acked \subseteq AuditKeys
    /\ damaged \in BOOLEAN /\ raced \in BOOLEAN

Init ==
    /\ kernel = NoKernel
    /\ task \in {Absent} \cup [status : LegacyStatuses, links : {{}}]
    /\ lock = Free
    /\ pc = [c \in Clients |-> "idle"]
    /\ request = [c \in Clients |-> None]
    /\ plan = [c \in Clients |-> None]
    /\ reply = [c \in Clients |-> "none"]
    /\ spent = [commands |-> [c \in Clients |-> 0], crashes |-> 0, failures |-> 0]
    /\ acked = {} /\ damaged = FALSE /\ raced = FALSE

-----------------------------------------------------------------------------
(* Reading the two files. *)

Parses == task \in Projections

\* readKernelUnlocked succeeds.
Readable == Parses \/ (task = Absent /\ kernel # NoKernel)

\* The snapshot it returns: a task without a kernel gets a virtual one.
Current ==
    IF kernel # NoKernel THEN kernel
    ELSE [rev |-> 0, phase |-> LegacyPhase[task.status], audit |-> {}, proj |-> NoProjection]

\* The record a gate or a patch starts from: the kernel's, else task.json's.
BaseRecord == IF Current.proj # NoProjection THEN Current.proj ELSE task

HasProjection == kernel # NoKernel /\ kernel.proj # NoProjection

InSync == HasProjection => task = kernel.proj

Op(c) == request[c].cmd.op
Arg(c) == request[c].cmd.arg
Sent(c) == request[c].record

\* The key its client builds: from the time for a start, from the revision for
\* an edit, from the command alone for the others.
KeyOf(c) ==
    [op |-> Op(c), arg |-> Arg(c),
     n |-> CASE Op(c) = "start" -> Current.rev + 1
             [] Op(c) = "edit" -> request[c].rev
             [] OTHER -> 0]

\* Mutant: only the last entry of the audit is compared.
PriorOfLast(c) == {entry \in Current.audit : entry.key = KeyOf(c) /\ entry.rev = Current.rev}

Prior(c) == {entry \in Current.audit : entry.key = KeyOf(c)}

Go(c, step) == pc' = [pc EXCEPT ![c] = step]
Answer(c, answer) ==
    /\ Go(c, "releasing")
    /\ reply' = [reply EXCEPT ![c] = answer]

-----------------------------------------------------------------------------
(* The client before it sends its command. *)

\* task.py reads task.json; a link of a linked item, or an unlink of one that is
\* not linked, sends nothing.
Load(c) ==
    \E cmd \in Commands :
        /\ pc[c] = "idle" /\ spent.commands[c] < MaxCommands
        /\ cmd.op \in SendsRecord => Parses
        /\ cmd.op = "link" => cmd.arg \notin task.links
        /\ cmd.op = "unlink" => cmd.arg \in task.links
        /\ spent' = [spent EXCEPT !.commands[c] = @ + 1]
        /\ request' = [request EXCEPT ![c] =
                [cmd |-> cmd, record |-> IF cmd.op \in SendsRecord THEN task ELSE None,
                 rev |-> 0, seen |-> None]]
        /\ Go(c, IF cmd.op = "create" THEN "ready" ELSE "loaded")
        /\ UNCHANGED <<files, lock, plan, reply, history>>

\* kernel_expected_revision: the read command, under the lock.
ReadRevision(c) ==
    /\ pc[c] = "loaded" /\ Op(c) # "repair"
    /\ lock = Free /\ Parses
    /\ request' = [request EXCEPT ![c].rev = Current.rev]
    /\ Go(c, "ready")
    /\ UNCHANGED <<files, lock, plan, reply, spent, history>>

\* inspectTaskProjection: both files, without the lock.
Inspect(c) ==
    /\ pc[c] = "loaded" /\ Op(c) = "repair"
    /\ HasProjection
    /\ request' = [request EXCEPT ![c].rev = kernel.rev, ![c].seen = task]
    /\ Go(c, "ready")
    /\ UNCHANGED <<files, lock, plan, reply, spent, history>>

\* The read found no task, no projection or a torn file, or waited in vain.
ReadFails(c) ==
    /\ pc[c] = "loaded"
    /\ \/ Op(c) # "repair" /\ (~Parses \/ lock # Free)
       \/ Op(c) = "repair" /\ ~HasProjection
    /\ Go(c, "idle")
    /\ request' = [request EXCEPT ![c] = None]
    /\ UNCHANGED <<files, lock, plan, reply, spent, history>>

-----------------------------------------------------------------------------
(* The lock. *)

\* Mutant: an existing lock file does not keep anybody out.
AcquireAnyway(c) ==
    /\ pc[c] = "ready"
    /\ Op(c) = "move" => task # Absent
    /\ lock' = [by |-> c, holder |-> "alive"]
    /\ Go(c, "locked")
    /\ UNCHANGED <<files, request, plan, reply, spent, history>>

\* bare transitions refuse a directory without task.json before they lock it
AcquireLock(c) ==
    /\ pc[c] = "ready" /\ lock = Free
    /\ Op(c) = "move" => task # Absent
    /\ lock' = [by |-> c, holder |-> "alive"]
    /\ Go(c, "locked")
    /\ UNCHANGED <<files, request, plan, reply, spent, history>>

\* A process dies between creating the lock file and writing its pid to it.
DieUnstamped(c) ==
    /\ pc[c] = "ready" /\ lock = Free /\ spent.crashes < MaxCrashes
    /\ lock' = [by |-> c, holder |-> "unstamped"]
    /\ spent' = [spent EXCEPT !.crashes = @ + 1]
    /\ Go(c, "idle")
    /\ request' = [request EXCEPT ![c] = None]
    /\ UNCHANGED <<files, plan, reply, history>>

\* stealStaleLock reads the pid of a process that is gone; a lock without one is
\* never stale.
FindStale(c) ==
    /\ pc[c] = "ready" /\ lock # Free
    /\ lock.holder = "dead"
    /\ Go(c, "stealing")
    /\ UNCHANGED <<files, lock, request, plan, reply, spent, history>>

\* ... and then removes whatever lock is there by now.
StealLock(c) ==
    /\ pc[c] = "stealing"
    /\ raced' = (raced \/ (lock # Free /\ lock.holder = "alive"))
    /\ lock' = Free
    /\ Go(c, "ready")
    /\ UNCHANGED <<files, request, plan, reply, spent, acked, damaged>>

\* LOCK_TIMEOUT, or NOT_FOUND before the lock of a bare transition.
GiveUp(c) ==
    /\ pc[c] = "ready"
    /\ lock # Free \/ (Op(c) = "move" /\ task = Absent)
    /\ Go(c, "idle")
    /\ request' = [request EXCEPT ![c] = None]
    /\ UNCHANGED <<files, lock, plan, reply, spent, history>>

-----------------------------------------------------------------------------
(* The commands, under the lock. *)

\* The snapshot after a command: one revision and one audit entry for every
\* phase on the way, or one of each for a change inside the phase.
Hopped(k, key, hops) ==
    [k EXCEPT
        !.rev = @ + (IF hops = <<>> THEN 1 ELSE Len(hops)),
        !.phase = IF hops = <<>> THEN @ ELSE hops[Len(hops)],
        !.audit = @ \cup
            IF hops = <<>> THEN {[key |-> key, phase |-> k.phase, rev |-> k.rev + 1]}
            ELSE {[key |-> IF i = Len(hops) THEN key
                           ELSE [op |-> "hop", arg |-> hops[i], n |-> k.rev + i],
                   phase |-> hops[i], rev |-> k.rev + i] : i \in DOMAIN hops}]

\* Mutant: a bare transition may go anywhere.
AdmittedOffEdge(c) ==
    /\ request[c].rev = Current.rev
    /\ Op(c) = "start" => Current.phase \in DOMAIN HopsToExecute
    /\ Op(c) \in {"gate", "link", "unlink", "edit"} => BaseRecord \in Projections
    /\ Op(c) \in {"link", "unlink", "edit"} => Sent(c).status = BaseRecord.status

\* The revision is the expected one, the edge is legal, a patch keeps the status.
Admitted(c) ==
    /\ request[c].rev = Current.rev
    /\ Op(c) = "start" => Current.phase \in DOMAIN HopsToExecute
    /\ Op(c) = "move" => <<Current.phase, Arg(c)>> \in PhaseEdges
    /\ Op(c) \in {"gate", "link", "unlink", "edit"} => BaseRecord \in Projections
    /\ Op(c) \in {"link", "unlink", "edit"} => Sent(c).status = BaseRecord.status

Creates(c) == Op(c) = "create" /\ kernel = NoKernel

\* A command whose key the audit holds is answered from it ...
Replay(c) ==
    /\ pc[c] = "locked" /\ Op(c) # "repair" /\ ~Creates(c)
    /\ Readable /\ Prior(c) # {}
    /\ Op(c) = "move" => \E entry \in Prior(c) : entry.phase = Arg(c)
    /\ Op(c) # "move" => ~(task = Absent /\ kernel.proj # NoProjection)
    /\ Answer(c, "replayed")
    /\ UNCHANGED <<files, lock, request, plan, spent, history>>

\* ... unless task.json is missing: then the same snapshot is written again.
Reproject(c) ==
    /\ pc[c] = "locked" /\ Op(c) \notin {"repair", "move"} /\ ~Creates(c)
    /\ Readable /\ Prior(c) # {}
    /\ task = Absent /\ kernel.proj # NoProjection
    /\ plan' = [plan EXCEPT ![c] = kernel]
    /\ Go(c, "planned")
    /\ UNCHANGED <<files, lock, request, reply, spent, history>>

Serves(c, op) == pc[c] = "locked" /\ Op(c) = op

\* A new command computes the snapshot that follows the one it read.
PlanNext(c, hops, projection) ==
    /\ Readable /\ Prior(c) = {} /\ Admitted(c)
    /\ plan' = [plan EXCEPT ![c] = [Hopped(Current, KeyOf(c), hops) EXCEPT !.proj = projection]]
    /\ Go(c, "planned")
    /\ UNCHANGED <<files, lock, request, reply, spent, history>>

Create(c) ==
    /\ pc[c] = "locked" /\ Creates(c)
    /\ plan' = [plan EXCEPT ![c] =
          [rev |-> 1, phase |-> "define",
           audit |-> {[key |-> KeyOf(c), phase |-> "define", rev |-> 1]},
           proj |-> [status |-> "planning", links |-> {}]]]
    /\ Go(c, "planned")
    /\ UNCHANGED <<files, lock, request, reply, spent, history>>

\* A bare transition leaves the record of the kernel as it is.
Transition(c) == Serves(c, "move") /\ PlanNext(c, <<Arg(c)>>, Current.proj)

Start(c) ==
    Serves(c, "start") /\ PlanNext(c, HopsToExecute[Current.phase], [Sent(c) EXCEPT !.status = "in_progress"])

\* A gate is recorded in the kernel's own record, whatever the client has seen.
RecordGate(c) == Serves(c, "gate") /\ PlanNext(c, <<>>, BaseRecord)

Archive(c) ==
    Serves(c, "archive") /\ PlanNext(c, HopsToClose[Current.phase], [Sent(c) EXCEPT !.status = "completed"])

\* A patch puts the record of its client, changed, in place of the kernel's.
Patch(c) ==
    \/ Serves(c, "link") /\ PlanNext(c, <<>>, [Sent(c) EXCEPT !.links = @ \cup {Arg(c)}])
    \/ Serves(c, "unlink") /\ PlanNext(c, <<>>, [Sent(c) EXCEPT !.links = @ \ {Arg(c)}])
    \/ Serves(c, "edit") /\ PlanNext(c, <<>>, Sent(c))

\* CORRUPT_STATE, NOT_FOUND, REVISION_CONFLICT, INVALID_TRANSITION, and the create of
\* a task that has a kernel from another create.
Refuse(c) ==
    /\ pc[c] = "locked" /\ Op(c) # "repair" /\ ~Creates(c)
    /\ \/ ~Readable
       \/ Prior(c) = {} /\ (Op(c) = "create" \/ ~Admitted(c))
    /\ Answer(c, "refused")
    /\ UNCHANGED <<files, lock, request, plan, spent, history>>

\* kernel.json is replaced by a rename; a bare transition ends here.
Persist(c) ==
    /\ pc[c] = "planned"
    /\ kernel' = plan[c]
    /\ IF Op(c) = "move" THEN Answer(c, "committed") /\ damaged' = damaged
       ELSE Go(c, "persisted") /\ damaged' = TRUE /\ UNCHANGED reply
    /\ UNCHANGED <<task, lock, request, plan, spent, acked, raced>>

\* writeTaskRecord refuses to replace a file that does not parse, and may fail:
\* HALF_CONVERSION, kernel.json stands.
ProjectionFails(c) ==
    /\ pc[c] = "persisted"
    /\ \/ task = Torn /\ UNCHANGED spent
       \/ /\ task # Torn /\ spent.failures < MaxFailures
          /\ spent' = [spent EXCEPT !.failures = @ + 1]
    /\ Answer(c, "half")
    /\ UNCHANGED <<files, lock, request, plan, history>>

\* writeFileSync first empties the file ...
Truncate(c) ==
    /\ pc[c] = "persisted" /\ task # Torn
    /\ task' = Torn
    /\ Go(c, "writing")
    /\ UNCHANGED <<kernel, lock, request, plan, reply, spent, history>>

\* Mutant: the record the client sent is written.
WriteSent(c) ==
    /\ pc[c] = "writing"
    /\ task' = IF Sent(c) = None THEN plan[c].proj ELSE Sent(c)
    /\ damaged' = FALSE
    /\ Answer(c, "committed")
    /\ UNCHANGED <<kernel, lock, request, plan, spent, acked, raced>>

\* ... and then fills it.
WriteTask(c) ==
    /\ pc[c] = "writing"
    /\ task' = plan[c].proj
    /\ damaged' = FALSE
    /\ Answer(c, "committed")
    /\ UNCHANGED <<kernel, lock, request, plan, spent, acked, raced>>

-----------------------------------------------------------------------------
(* repairTaskProjection, under the same lock. *)

\* Both files are what the caller saw: stage the record beside task.json.
StageRepair(c) ==
    /\ pc[c] = "locked" /\ Op(c) = "repair"
    /\ HasProjection
    /\ IF request[c].rev # kernel.rev \/ request[c].seen # task
       THEN Answer(c, "cas-mismatch") /\ UNCHANGED plan
       ELSE IF InSync THEN Answer(c, "in-sync") /\ UNCHANGED plan
       ELSE /\ plan' = [plan EXCEPT ![c] = kernel]
            /\ Go(c, "staged")
            /\ UNCHANGED reply
    /\ UNCHANGED <<files, lock, request, spent, history>>

\* The second look, immediately before the rename.
RecheckRepair(c) ==
    /\ pc[c] = "staged"
    /\ IF plan[c].rev # kernel.rev \/ request[c].seen # task
       THEN Answer(c, "cas-mismatch")
       ELSE Go(c, "checked") /\ UNCHANGED reply
    /\ UNCHANGED <<files, lock, request, plan, spent, history>>

InstallRepair(c) ==
    /\ pc[c] = "checked"
    /\ task' = plan[c].proj
    /\ damaged' = FALSE
    /\ Answer(c, "repaired")
    /\ UNCHANGED <<kernel, lock, request, plan, spent, acked, raced>>

-----------------------------------------------------------------------------
(* The end of a command, and of a process. *)

Holds(c) == lock # Free /\ lock.by = c /\ lock.holder = "alive"

\* releaseLockSync removes the lock if it still holds this pid; the client gets
\* its answer.
Release(c) ==
    /\ pc[c] = "releasing"
    /\ lock' = IF Holds(c) THEN Free ELSE lock
    /\ acked' = IF reply[c] = "committed" /\ Op(c) # "create"
                THEN acked \cup {entry.key : entry \in {e \in plan[c].audit : e.rev = plan[c].rev}}
                ELSE acked
    /\ Go(c, "idle")
    /\ reply' = [reply EXCEPT ![c] = "none"]
    /\ request' = [request EXCEPT ![c] = None]
    /\ plan' = [plan EXCEPT ![c] = None]
    /\ UNCHANGED <<files, spent, damaged, raced>>

Die(c) ==
    /\ pc[c] \notin {"idle", "loaded", "ready"} /\ spent.crashes < MaxCrashes
    /\ spent' = [spent EXCEPT !.crashes = @ + 1]
    /\ lock' = IF Holds(c) THEN [lock EXCEPT !.holder = "dead"] ELSE lock
    /\ Go(c, "idle")
    /\ reply' = [reply EXCEPT ![c] = "none"]
    /\ request' = [request EXCEPT ![c] = None]
    /\ plan' = [plan EXCEPT ![c] = None]
    /\ UNCHANGED <<files, history>>

Next ==
    \E c \in Clients :
        \/ Load(c) \/ ReadRevision(c) \/ Inspect(c) \/ ReadFails(c)
        \/ AcquireLock(c) \/ DieUnstamped(c) \/ FindStale(c) \/ StealLock(c) \/ GiveUp(c)
        \/ Replay(c) \/ Reproject(c) \/ Refuse(c)
        \/ Create(c) \/ Transition(c) \/ Start(c) \/ RecordGate(c) \/ Archive(c) \/ Patch(c)
        \/ Persist(c) \/ ProjectionFails(c) \/ Truncate(c) \/ WriteTask(c)
        \/ StageRepair(c) \/ RecheckRepair(c) \/ InstallRepair(c)
        \/ Release(c) \/ Die(c)

Spec == Init /\ [][Next]_vars

-----------------------------------------------------------------------------
(* Properties. *)

\* kernel.json and task.json agree, except between a crash or a failed write and
\* the next write of task.json that succeeds (or after a live lock was stolen).
SyncedUnlessDamaged == ~damaged /\ ~raced => InSync

\* A command that answered with a commit stays in the audit: no later command, of
\* this or another client, writes a snapshot that was computed without it.
AckedApplied == ~raced /\ acked # {} =>
    kernel # NoKernel /\ acked \subseteq {entry.key : entry \in kernel.audit}

\* A key is applied once, however often its command is sent again, also after the
\* crash of a process that had applied it and told nobody.
AppliedOnce == kernel # NoKernel =>
    \A e, f \in kernel.audit : e.key = f.key => e = f

\* The audit explains the state: it has one entry for every revision, each a legal
\* step from the one before, and the last is where the task is.
AuditExplains == kernel # NoKernel =>
    /\ {entry.rev : entry \in kernel.audit} = 1..kernel.rev
    /\ \A e, f \in kernel.audit :
          f.rev = e.rev + 1 => f.phase = e.phase \/ <<e.phase, f.phase>> \in PhaseEdges
    /\ \E entry \in kernel.audit : entry.rev = kernel.rev /\ entry.phase = kernel.phase

\* in_progress is reached only by execution, completed only by closing.
Fits(status, phase) ==
    /\ status = "in_progress" => phase \in {"execute", "verify", "integrate", "close"}
    /\ status = "completed" => phase = "close"

\* The status that other tools read never runs ahead of the phase, whatever status
\* a task had before its kernel and whichever client's record is written.
StatusFollowsPhase == HasProjection /\ ~raced => Fits(kernel.proj.status, kernel.phase)

\* A repair replaces exactly the bytes its caller saw, under the revision it saw.
RepairsWhatWasSeen ==
    [][\A c \in Clients : pc[c] = "checked" /\ pc'[c] = "releasing" /\ ~raced =>
          task = request[c].seen /\ kernel.rev = request[c].rev]_vars

\* What link_item_task and print_kernel_error promise: a link that was answered is in
\* task.json, also when it is the command sent again after a half conversion.
LinkedBothSides ==
    \A c \in Clients :
        pc[c] = "releasing" /\ Op(c) = "link" /\ reply[c] \in {"committed", "replayed"} =>
            task \in Projections /\ Arg(c) \in task.links

NoPhase == "none"

Lifecycle == INSTANCE TaskLifecycle WITH
    phase <- IF kernel = NoKernel THEN NoPhase ELSE kernel.phase,
    revision <- IF kernel = NoKernel THEN 0 ELSE kernel.rev

\* The store implements the abstract lifecycle as long as its lock excludes.
ImplementsLifecycle == Lifecycle!Init /\ [][Lifecycle!Next \/ raced]_<<kernel>>
=============================================================================
