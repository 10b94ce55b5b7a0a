# Pactile in TLA+

A formal model of the parts of this repository in which order, interruption and
concurrency decide whether the program is right: channels and the supervisors that run
workers on them, the task kernel, the lifecycle of an installation, the projections laid
over a project, and the protocols over plain files around them. TLC checks the models on
small instances; TLAPS proves the theorems for every value of the constants.

`PROJECT.json` lists the components, the runs, the lines every definition stands for, the
theorems, and the hazards of the code, each at its line, with the properties that watch it.

## 1. The system

Pactile has no server. Everybody who takes part is a separate operating-system process on
one project directory: CLI commands, scripts of the hosts (`task.py`, `pool.py`), one
detached *supervisor* per worker, and the provider program (codex, claude) it drives.
Nothing but files, locks made of files, and signals connects them, and any of them may be
killed between two file-system calls.

    channel commands        supervisor --- stdin/stdout --- provider program
       |    \  fork, SIGTERM   /  |
       |     +----------------+   |        task.py, pool.py        init, update, exit
       v                          v             |                        |
    <channel>.lock, events.jsonl, .seq     kernel.json.lock        lifecycle journals,
    pid, spawnlock, worker-guard.lock      kernel.json, task.json  generations, install state
                                                |                        |
                                          topology, providers,     projection.lock, journal,
                                          quality gates            ledger, claims, host files

| Component | State | Operations | What is hard | What makes it correct |
|---|---|---|---|---|
| channel file lock | the lock file and the pid in it | acquire, steal a stale lock, back off, release | no two of its file-system calls are atomic; crashes; reused pids | exclusion, a living holder is not robbed |
| channel event log | `events.jsonl`, the `.seq` sidecar | append with an idempotency key, reconcile, read by cursor | appends that stop half-way, two implementations, retries | numbering, no lost or double event, cursors that skip nothing |
| watch and wait | byte offset and carry of a tail; cursors of a bucket | tail, fan, checkpoint | torn last lines, replaced files, consumers that die with a queue | every event once and in order, at least once across runs |
| supervisor | process, shutdown, turns, idle timer, inbox cursor | launch, input, output, interrupt, timers, exit | callbacks interleave at every `await`; appends in flight at exit are lost | one active turn, one outcome, shutdown ends |
| provider adapters | what is pending of a turn | parse a line, send a turn, interrupt | answers, several of a turn, and ends of turns arrive in any order | every answer one message, one done for each turn |
| spawn guard, spawn, kill | runtime files of a worker, bucket lock | budget, clean-up, launch, kill | check and use in different processes; three parties remove the same files | every supervisor can be found, no worker runs twice |
| worker registry, inbox, delivery, interrupts | folds of the log | apply an event; watch, send, reconcile | decisions on a log that has grown since | an inbox shows one incarnation of a worker |
| threads | folds of the log | post, rename, edit context | appends checked against an older log | a timeline is complete, list and show agree |
| create, rm, prune, run | the channel's directory | list, signal, wait, kill, wipe | workers start and end meanwhile | nothing listed survives a removal |
| task kernel store | `kernel.json`, `task.json`, the lock | create, transition, start, gate, patch, archive, repair | two files, retries of applied commands, a lock that may be stolen | commands are applied once, in order, and stay; the files agree |
| topology, providers, quality gates | extras of the task | normalise, probe, build a ledger, start, archive | the same facts in two places, sent in any order; evidence that ages | record and extras agree; a task closes on evidence of what is there |
| artifact migration | task files | scan, deepen, restore | authors write meanwhile, a failure half-way | all or nothing |
| lifecycle orchestrator, exit service, runtime stores | journals, generations, install state | stage, seal, activate, reconcile, detach, roll back, resume | a crash between any two writes, several processes on one transaction | only what was projected counts as active; a retry finishes the same work |
| projection store | ledger, claims, receipts, journal, stages | plan, inspect, apply, recover | a crash in the middle, siblings, users who edit host files | host files and ledger change together; what is not generated stays |
| providers, retrieval, tiles | catalog, facts, claims | probe, resolve, adopt, plan, assess, compile, load | inputs in any order, results used later | nothing is claimed without backing, no dependence on order |
| init, update, template fetching | the project tree, hashes, user state | import, re-init, classify, migrate, download | runs that are cut off, users who edit, downloads that go on | user files are kept, a spec is whole |
| evaluation traces | trace, head, lock | append, read, verify | crash between log and head, readers without a lock | what was returned stays |
| release publishing | tags, tarballs, registry, dist-tags | bump, prepare, publish, promote | jobs that stop and overlap | one version, one commit |
| templates, hooks, tool routing, upgrade | none of their own | copy, render, classify | | not modelled |

## 2. Modules

Components that run concurrently share a module. Independent ones keep modules of their
own, and an `MC*` module puts several of them side by side in one run: its variable `part`
picks the one that moves while the others rest in their initial state. The product of the
state spaces is never built, so each part is explored as if it were alone.

| Module | Models |
|---|---|
| `FileLock` | `store/lock.ts`: one lock path; a task is a call, the tasks of one Node process share its pid and exclude each other in a synchronous stretch |
| `EventLog`, `ChannelLog` | the abstract log, and `appendEvent` of core and CLI with its sidecar; the file as lines, the last possibly torn |
| `ChannelTail`, `ChannelFan` | the tail of one file, and the fan over the channels of a project with its checkpoints |
| `WorkerRegistry` | `reduceWorkerRegistry`: operators only, used by the next three |
| `Supervisor` | `supervisor.ts`, `supervisor/*`: an action is one Node callback with its microtasks; the landing of an append is an action of its own |
| `SpawnGuard` | spawn, kill and the life of supervisors as others see it; a step is one file-system call or signal |
| `WorkerClients` | inbox watch, strict send, interrupt, reconcile on one worker |
| `WorkerAdapters` | codex and claude adapters between the program's lines and the log |
| `Threads`, `ChannelRemoval` | thread commands and their folds; the commands that destroy a channel |
| `TaskLifecycle`, `KernelStore` | the abstract phases and revisions, and the kernel store with its clients, lock, crashes and repair |
| `TaskExtras` | the extras of a task through `legacyKernelExtrasBoundary`: topology and dependencies, then providers and their probes |
| `FullQuality` | the controls, the evidence ledger and the check of a Full task, built and evaluated or written by hand |
| `ArtifactMigration`, `TraceStore`, `TileLoader`, `Releases` | protocols over plain files |
| `MigrationJournal`, `Lifecycle` | the journal and its parser; the transactions of an installation, run by several processes |
| `LifecycleContract` | which requests are accepted and planned, and which retry is the same work |
| `AtomicProjection`, `Projection` | the abstract transaction on host files and their ledger, and the projection store |
| `ProviderResolver`, `Retrieval`, `Tiles` | contracts and resolution, retrieval over time, composition |
| `Update`, `Install`, `TemplateFetch` | update, init with its imports, templates |

An operator whose comment begins with "Mutant" is a variant of the one below it with a
plausible bug. `PROJECT.json` pairs each with a property that TLC finds violated when it
takes the operator's place; no specification uses it.

Three detailed modules are shown to implement an abstract one: `ChannelLog` implements
`EventLog` (`ImplementsLog`), `KernelStore` implements `TaskLifecycle`
(`ImplementsLifecycle`), `Projection` implements `AtomicProjection` (`ImplementsAtomic`:
from the journal on, a transaction counts as done).

## 3. Runs

| Run | Parts and bounds | Shows |
|---|---|---|
| `file_lock` | lock: three calls, two of them in one process; trace: two writers, a reader, three events; loader: three edits; artifacts: four files, two foreign writes; releases: two jobs, two builds, histories cut to the interesting ones by `Followed` | `ExclusiveUnlessRaced`, `StampedHolderSpared`, `CommittedStays`, `LoadedIsReal`, `MigratedWhole`, `ReleasedWhole` |
| `channel_log` | log: both appenders, one key, two kinds, three lines, pages of one; tail: three events in two incarnations of the file; fan: two channels of two events, two runs of the consumer; removal: two workers, two launches, two removals; adapter: two turns of each provider, two answering lines each of one or two blocks, one request unanswered and two lines in work at a time (`FewAtOnce`) | `SeqContract`, `OneEventPerKey`, `FollowersMissNothing`, `ListedStopped`, `AnswersOnceThenDone`, `ImplementsLog`, `EventuallyHandled` |
| `supervisor` | two inputs and two lines of output: an interrupt over a turn, and a late result of the turn it aborted | `KilledBeforeExit`, `OneTurn`, `TimerOnlyWhenIdle`, `OutcomeLostOnlyInFlight`, `ShutdownCompletes` |
| `spawn_guard` | two workers, two clients, two launches, a budget of one, crashes; no further than where `undisturbed` ends (`Followed`) | `FindableUndisturbed`, `OnceUndisturbed` |
| `kernel_store` | two clients with two commands each, a crash, a failed write; extras: four commands, about the family or the providers | `SyncedUnlessDamaged`, `AckedApplied`, `AppliedOnce`, `RecordsHold`, `ImplementsLifecycle` |
| `clients` | threads: three keys, four events; workers: five events, two spawns, one library call at a time or a watch and a reconcile (`FewCalls`); that a reconcile with an old reading ends the watch of a live worker is reached and not judged | `ThreadsAgree`, `InboxOneGeneration` |
| `lifecycle` | two processes, three commands, one fault; contract: requests of every kind, seven retried with one thing changed | `ActiveEarned`, `RefusedOnlyOpen`, `RequestsHold` |
| `update` | two updates, two edits, a stop; install: two legacy contents, three runs, two stops; templates: all option sets, two runs | `RespectsDeletion`, `InstalledWhole`, `KeepsCustom`, `UserWorkKept` |
| `projection` | two adapters, a merged and a whole file, three plans, an edit, a crash; two providers and two claimants; three tiles; a Full task, three edits and the four commands that close it, with two ledgers and three checks written by hand | `RollsForward`, `SiblingsKeepSurfaces`, `ClaimsBacked`, `CompositionsHold`, `ClosedOnItsEvidence`, `ImplementsAtomic` |
| `kernel_store_link`, `projection_claims`, `lifecycle_retry` | as above, smaller | violated: see "findings" in `PROJECT.json` |

The bounds are the least in which the hazards meet: a competitor and a successor, an
interruption and the retry after it, a second adapter or client, an old reading and a
change after it. What the proofs cover has no bound at all. Properties about a part are
conditioned on it in the MC module and defined in the part's own module.

Deadlock is checked in `file_lock`, `channel_log` and `spawn_guard`; in the others a
command that ended has nothing more to do.

A property conditioned on a history variable (`raced`, `glued`, `restarted`,
`undisturbed`, `damaged`, `touched`, `disturbed`) has that form because the plain property
is false; it says that the named mishaps are the *only* ways to lose it.

## 4. Fairness

`Supervisor`: appends land, the idle timer and the kill ladder fire (Node timers), `spawn`
settles, and a process that was sent SIGKILL exits. The provider is obliged to nothing: it
may ignore the end of its stdin, SIGTERM and its inputs. `ChannelFan`: the discovery timer
ticks, the consumer and every tail get the processor, and a consumer's process is started
again. All of it is weak fairness, and nothing else uses any.

## 5. Proofs

The assumptions are those the modules name beside their constants: the marks for "nothing"
are no ordinary values, bounds are naturals, lists name what they should. No theorem
bounds the number of tasks, processes, keys, readers, lines, inputs, workers, clients,
commands, adapters, contents or faults. Each follows from an inductive invariant of the
module it is about (`IInv`, or the one named below), checked by TLC before it was proved.

Where several components share a run, the proof module extends the MC module and the
theorem is about the composed specification (`FollowSpec`, `ProjectSpec`, ...): a step of
another part leaves the component alone, which its invariant has to survive as well. What
the run fixes for the others (their lists, counts and marks) is a constant of the MC
module, given its value in the .cfg and its assumption beside it (`TraceAssumption`,
`LoaderAssumption`, `ReleaseAssumption`, `ArtifactAssumption`, `QualityAssumption`,
`FanAssumption`, `RemovalAssumption`, `AdapterAssumption`, `InstallAssumption`,
`FetchAssumption`). Constraints of a run, such as `Followed` and `FewAtOnce`, are no part of
the specification the theorems are about.

- `FileLock_proofs`:
  - the lock (`ExclusionTheorem`, `SparedTheorem`). A stamp is its creator's pid or absent;
    unless `raced` a holder created the file at the path; a fresh reading of a stamped file
    stays true while its process lives. Exclusion is not inductive without the second: it
    is the file that excludes.
  - the traces (`CommittedTheorem`). The log is at most one line longer than the head; a
    whole line knows its place and all the bodies before it; the heads ever written,
    returned or read are prefixes of one history.
  - the tile loader (`LoadedTheorem`, `TileInv`). Neither nodes nor stamps are used twice,
    so a second reading that finds the same ones finds the same file.
  - releases (`ReleasedTheorem`, `ReleaseInv`). Tags, commits, branches and registry only
    grow, so what a preparation validated, and what a plan, a publication or a promotion saw
    published, is still there when it is acted on.
  - migrated artifacts (`MigratedTheorem`, `ArtifactInv`). A file is written once, to what
    the scan asks; the snapshots kept are what the scan saw; while nothing foreign was
    written a file is as scanned, or its snapshot is kept and it is as asked.
- `ChannelLog_proofs`:
  - the log (`SeqTheorem`, `KeyTheorem`, `AckedTheorem`, `CursorTheorem`, `LogTheorem`).
    Adds what holds in the middle of an append: the number it will write is one more than
    the last in the file, and the line it is at is the last. `LogTheorem` is the refinement:
    each step publishes one event numbered by its place, withdraws the last one, or leaves
    the abstract log alone. The readable lines are related to the file by `Nth`, the line
    at which the n-th of them is placed.
  - `CheckpointTheorem` (`FanInv`), the half of `FollowersMissNothing` that is about
    checkpoints (`AtLeastOnce`). The cursor copied beside a queued event covers nothing that
    is queued behind it, and a live tail stands at its channel's cursor or has skipped
    everything before.
  - `ListedTheorem` (`RemovalInv`). A listed launch of a worker that still lives is on the
    remover's list, so it is signalled and awaited before the directory is wiped; a later
    launch has another number.
  - `AnswerTheorem` (`AdapterInv`). An event of a turn is in at most one place, a task or the
    log, and it is somewhere exactly when the program has said what it stands for: a message
    for each answer (`MessagesOnce`, whatever the turns do), a done for an end with its
    answer, in whichever order they came (`DonesOnce`). The second needs what the adapter
    remembers of the last turn (`OnlyLast`): `final` is "it is answered", `owed` is "it has
    ended and is not answered". Both are lost once a turn is started into another one, or
    answered after the next has started (`overlapped`).
- `Supervisor_proofs` (`OneTurnTheorem`, `TimerTheorem`, `KilledTheorem`,
  `OutcomeTheorem`). `TurnInv` ties the watcher's place to the tracker and the idle timer;
  `EndInv` ties the claim of the terminal slot and the shutdown reason to the append that
  backs them.
- `SpawnGuard_proofs` (`OnceTheorem`, `FindableTheorem`). While nothing has disturbed the
  files, `Order` holds: one client inside each spawnlock, a serving supervisor named by the
  pid file or by the spawner about to write it, and nobody serving a worker whose spawnlock
  is held past the check. "Running once" alone is not inductive.
- `KernelStore_proofs` (`AppliedOnceTheorem`, `AuditTheorem`, `AckedTheorem`,
  `SyncTheorem`, `StatusTheorem`, `RepairTheorem`, `LifecycleTheorem`, `RecordsTheorem`).
  What the audit says of its own history holds of every snapshot a client plans, whoever
  else writes, since a plan is computed from one snapshot alone; what relates the two files
  or two clients needs the lock (`Guarded`) and holds until a live lock is stolen. A bare
  transition keeps a record that is older than the kernel, so `StatusTheorem` needs the
  task file as well. `LifecycleTheorem` is the refinement: a command of several hops is one
  step of n edges. `RecordsTheorem` is about the extras of a task (`ExtrasInv`): whatever
  record and command the boundary is given, the record it makes of them keeps its topology,
  shows every required provider that failed, and is only let through a start or a close with
  its dependencies met and a provider of the knowledge it asks for.
- `Lifecycle_proofs`:
  - `EarnedTheorem`, `SealedTheorem`, `AppendOnlyTheorem`. `Earned` says of every adapter
    that counts as active, or is about to, that a journal holds the event of its
    projection; what a process has read of a journal is a prefix of it, and what a process
    is about to install or to leave behind was earned when it read it.
  - `RefusedTheorem` (`ParsedInv`). Every journal on disk is one the parser accepts. A
    transaction works on a snapshot that parses, is committed in the later steps, has the
    next adapter in progress when it is attempted and recorded, and all of them succeeded
    when it completes; a lemma says that appending an adapter's event in its turn keeps the
    rules of the parser.
  - `OneWorkTheorem` (`DriverInv`), about the contract alone (`ContractSpec`). The journal's
    plan is that of every request that wrote it and of the run in progress, and a plan names
    all that is written (`SamePlanSameWork`): its `validate` action stands where the staged
    files end, so two requests with one plan have as many files, and each action gives back
    the path and the bytes, or the adapter, it was made from. It assumes that a request has
    the fields of its type (`Shaped`) and that no journal is the mark for none. It is the
    part `OneWork` of `RequestsHold`.
- `Projection_proofs`:
  - `RollsTheorem`, `SurfacesTheorem`, `AtomicTheorem`. The lock (`Held`) makes what a run
    read under it stay true but for the user's edits. Every preview comes from a plan the
    planner accepted as a whole (`Sound`), so a journal on disk is the steps of such a
    preview, planned on the ledger it replaces (`IsJournal`); `EffectHolds` says what an
    accepted plan makes of one file and of its entry. Files and ledger disagree while a
    journal is installed, so what relates them (`Accounted`, `Claimed`) is stated with the
    pending transaction counted as done. That is the refinement mapping too: the whole
    transaction happens when its journal is renamed into place, and installing, recovering
    and cleaning up are stutters, except where a file the user had touched is brought to
    what the ledger says. `Passed` is what makes the removal of the journal safe: what a
    run has been past is in place, as far as the user left it.
  - `ClosedTheorem` (`QualityInv`). A ledger that was built carries the numbers of versions
    (`Stamped`), and a check that was evaluated or recorded names the code (`Named`), so
    neither is excused from being compared with what is there. Callers may send any other;
    of one written by hand it says that what it does name is what is there.
- `Update_proofs`:
  - `KeepsCustomTheorem`, `RespectsDeletionTheorem`. A recorded hash is never that of the
    user's own content (`HashesReleased`), so what an analysis takes for new or unmodified
    was not the user's at that time (`Sure`). `Keeping` follows the user's content from
    there: the candidate takes only what was agreed to, touched later or renamed (`Took`),
    the entries still to be carried out overwrite nobody's work and are apart from each
    other (`Clear`), and the snapshot taken before the first of them has what the analysis
    saw (`Safe`). Deletions need a second invariant on top,
    `Deletions`: a path that the candidate leaves without a file but with a hash is one the
    user deleted, or is still to be written after the commit (`Candidate`, `Committed`),
    and so is every absent path whose hash the seal will record (`Recording`). Besides
    `CustomAssumption` (a release ships, or knows, nothing that is a user's own work) they
    assume of manifests that an entry names one file or directory, which is one path of the
    model, and stays on one side of the boundary of a generation (`ItemsAssumption`), that
    no two entries meet at a path (`ApartAssumption`: so are all that update does not drop,
    see `compat/legacy-migrations.ts`), and that no release ships what its manifests move away or
    retires bytes it ships (`ManifestAssumption`): one that did would undo its own entry in
    the same update.
  - `InstalledTheorem` (`InstallInv`). A validated migration has sealed its generation; the
    lifecycle passes the plan of an import only once that migration is complete; and for
    every step of a run that was cut off, what stands in which of the two journals.
  - `UserWorkTheorem` (`FetchInv`). A user's file lies in a directory that exists and, unless
    overwriting was asked for, in none that a download writes or removes; what a download
    has still to write lies inside its own directory, and what it has extracted is a part
    of what it was given.

Not proved, only model-checked:

- liveness (`ShutdownCompletes`, `EventuallyHandled`): neither fairness nor `ENABLED` is
  in the prover's reach;
- the other half of `FollowersMissNothing` (`CaughtUp`), the rest of `RequestsHold`
  (`AcceptedIsPlanned`, `OutlineDecides`), `ThreadsAgree`, `InboxOneGeneration`,
  `ClaimsBacked`, `CompositionsHold`: they say what a fold, a filter or a sort of a
  sequence returns, which needs induction over data.

## 6. What the code does that its documents say otherwise

Three disagreements have runs and stand under "findings". These were met on the way and
are stated here only:

- `lock.ts:4-7`: a contender that reads the lock file between its creation and its stamp
  steals it, so exclusion is lost (`raced`).
- `core/.../store/events.ts:76`, CLI append: it numbers from 1 again after a torn line.
- `supervisor/idle.ts:75`: after the first `done` the idle timer gives way for good.
- `supervisor/shutdown.ts:191`: the exit of the worker overtakes the append of its own
  `done`, and no outcome is recorded.
- `kill.ts:28`, `supervisor.ts:409`: the supervisor being killed removes the spawnlock its
  killer holds; a spawn enters, and the killer removes the new pid file.
- `guard.ts:481-492`: a supervisor that is still starting is judged by the entry its
  predecessor left.
- `adapters/codex.ts:57`: a late answer of an interrupted turn is taken for the next one,
  whose own answer then follows its done. `AnswersOnceThenDone` judges the messages there,
  and not that done.
- `orchestrator.ts:1449` and `1567` disagree on when an adapter counts as active.
- `update.ts:2194` and `2398`: some prompts come after the first deletion is decided.
- `update.ts:1879`, `2735` and `2992`: a path that is free when the update analyses it,
  and that a rename of the same update fills, is still written with this version's file.
  A user's edited file or directory, which the prompts (`update.ts:1364`, `1476`, `1647`)
  say is moved as it is, is then lost there and left in the snapshot only. No manifest
  renames to a path that is still shipped, so today nothing reaches it; the model does, and
  `KeepsCustom` excepts it by name (`Overwritten`).
- `full-quality.ts:474`, `483` and `571`: a ledger or a check without fingerprints is
  compared with nothing, and the kernel takes any that a caller writes
  (`kernel-store.ts:1245`), so a Full task can close on stale evidence. The archive command
  passes no fingerprint of the code either (`kernel-store.ts:1132`): the two records are
  compared with each other only. `ClosedOnItsEvidence` excepts what is written by hand.
- `legacy-import.ts:192`, `init.ts:2070`: an import cut off between the seal and the record
  "staged" cannot be finished by running init again.
- `template-fetcher.ts:941-948`, `legacy-import.ts:217-226`: a download given up by its
  time-out may stop the publication of a later init.
- `init.ts:1583` and `1885`: a package whose template failed is filled, or not, depending
  on the order of the downloads.

Also reached by the models, promised by nobody: `spawned` may land after `killed`; an input
may be written to a stdin the kill ladder has ended; a crash between trace and head wedges
a trace (documented); the lock file of a task whose maker died before its stamp is never
removed; a promotion cut off half-way is stuck once another version is the candidate; a
detach of a capability removes a claim its claimant had before the adoption.

## 7. What is not modelled

- Texts, formatting, logging, wording of prompts and reasons; the grammar of yaml and of
  caller references; redaction; the merge of bytes inside a host file (an owned region and
  whether there are foreign bytes are what is left of it).
- Channel log: validation of events, `beforeSeq` pages. Supervisor: appends that fail,
  SIGKILL of itself. Spawn guard: reuse of process ids, `worker-pid`. Removal: one command
  at a time.
- Task kernel: `validateComposition` and the rendering of task maps, whose inputs the
  commands carry as data; the migrate scan, which writes nothing.
- Lifecycle: purge, exit receipts. Update: `update.skip`, configuration sections, dry run,
  the report. Init: the monorepo layout. Releases: notes, deprecation, authentication.
- Templates, hooks, scripts of the hosts beyond their calls to the kernel, the routing of
  tools, `upgrade` (runs the package manager) and `migrate` (init under another name).

## 8. Plan

The properties left to the model checker are about folds, filters and sorts of sequences
of any length, and about liveness. What could still be modelled are the routing of tools,
whose decisions the projection takes as data, and the monorepo layout of `init`.
