------------------------------- MODULE Install -------------------------------
(***************************************************************************)
(* The init command (cli/src/commands/init.ts) on one checkout: the first  *)
(* install, the import of a legacy .cstl tree, the re-init, and what each   *)
(* leaves behind for the next run when it is cut off.  The canonical part   *)
(* of an import goes through two journals, the one of the migration         *)
(* (migration/transaction.ts) inside the one of the lifecycle; the user     *)
(* state of the legacy tree is published after both.  For an init that      *)
(* imports nothing the lifecycle is one step here (module Lifecycle).       *)
(*                                                                          *)
(* A legacy tree is one content: of its managed files, which become the     *)
(* generation, and of its user files, which do not.  A content names a      *)
(* generation, and the transactions that import it.                         *)
(***************************************************************************)
EXTENDS Naturals, Sequences

CONSTANTS
    Legacies,       \* contents of the legacy tree
    Template,       \* what init writes by itself
    Mine,           \* what the user writes
    None,
    MaxRuns, MaxStops, MaxEdits     \* bounds

Contents == Legacies \cup {Template}

\* Template, Mine and None are none of the Legacies.

VARIABLES
    legacy,     \* .cstl, or None
    exists,     \* there is a .pactile directory
    live,       \* its managed files
    user,       \* its user files
    tasks,      \* the onboarding tasks: none, hollow (a directory only), full
    install,    \* install-state.json
    gens,       \* generation directories
    migration, lifecycle,   \* the two journals of each import
    locks,      \* lock files a process left when it was killed
    run,        \* the init command that runs
    spent

disk == <<legacy, exists, live, user, tasks, install, gens, migration, lifecycle, locks>>
vars == <<disk, run, spent>>

\* The user files in the order they are published.
UserFiles == <<"developer", "spec", "tasks">>
Files == {"developer", "spec", "tasks"}
Tasks == {"bootstrap", "join"}

Before == {"planned", "backed-up", "staged", "validated"}
After == {"committed", "degraded"}

TasksEmpty == user["tasks"] = None /\ \A t \in Tasks : tasks[t] = "none"
Pointer(op, gen) == [op |-> op, gen |-> gen]

Idle == [at |-> "idle"]
At(step) == run.at = step
Go(step) == run' = [run EXCEPT !.at = step]
Stop == run' = Idle

TypeOK ==
    /\ legacy \in Legacies \cup {None} /\ exists \in BOOLEAN
    /\ live \in Contents \cup {None}
    /\ user \in [Files -> Contents \cup {Mine, None}]
    /\ tasks \in [Tasks -> {"none", "hollow", "full"}]
    /\ install = None \/ install \in [op : {"canonical", "import", "plain"}, gen : Contents]
    /\ gens \in [Contents -> {"absent", "staging", "sealed"}]
    /\ migration \in [Legacies -> {None, "committed", "completed"} \cup Before]
    /\ lifecycle \in [Legacies -> {None, "completed"} \cup Before \cup After]
    /\ locks \subseteq {"migration", "lifecycle"} \X Legacies

\* A project that never had Pactile, with or without a legacy tree, or the
\* fresh clone of one that has (its runtime directory is not in git).
Init ==
    /\ legacy \in Legacies \cup {None}
    /\ exists \in BOOLEAN
    /\ live = IF exists THEN Template ELSE None
    /\ user = [f \in Files |-> IF exists /\ f # "developer" THEN Mine ELSE None]
    /\ tasks = [t \in Tasks |-> IF exists /\ t = "bootstrap" THEN "full" ELSE "none"]
    /\ install = None
    /\ gens = [g \in Contents |-> "absent"]
    /\ migration = [l \in Legacies |-> None] /\ lifecycle = [l \in Legacies |-> None]
    /\ locks = {}
    /\ run = Idle
    /\ spent = [runs |-> 0, stops |-> 0, edits |-> 0]

-----------------------------------------------------------------------------
(* How a run begins.                                                        *)

\* inspectLegacyInitContext: an import needs a source and a project without
\* .pactile, or the journal of an import that did not end.
Recoverable == exists /\ \E l \in Legacies : lifecycle[l] \in Before \cup After
ImportAccepted == legacy # None /\ (~exists \/ Recoverable)
PlainAccepted == exists \/ legacy = None

\* The flags that matter later, as they were when the run began.
Command(import, named) ==
    [at     |-> "build",
     import |-> import,
     first  |-> ~exists,
     hadDev |-> user["developer"] # None \/ import,
     named  |-> named,          \* a developer name is known
     from   |-> IF import THEN legacy ELSE IF live = None THEN Template ELSE live,
     next   |-> 1]              \* the user file to publish

Begin(r) ==
    /\ At("idle") /\ spent.runs < MaxRuns
    /\ run' = r
    /\ spent' = [spent EXCEPT !.runs = @ + 1]
    /\ UNCHANGED disk

Import == \E named \in BOOLEAN : ImportAccepted /\ Begin(Command(TRUE, named))

\* The full flow: a first init, one that --force or --skip-existing or the menu
\* asks for, and the recovery of one that left no task (issue #204).
FullInit == \E named \in BOOLEAN : PlainAccepted /\ Begin(Command(FALSE, named))

\* handleReinit: a developer is added, or nothing is (the platforms it may add
\* are in module Lifecycle).
Reinit ==
    /\ exists /\ ~TasksEmpty
    /\ Begin([Command(FALSE, TRUE) EXCEPT !.at = "developer"])

\* The build root is private; what it holds is decided here: the legacy tree,
\* or the live view, completed with templates.  The first journal makes the
\* directory before it is written.
Build ==
    /\ At("build")
    /\ exists' = TRUE
    /\ Go(IF run.import THEN "open" ELSE "plain")
    /\ UNCHANGED <<legacy, live, user, tasks, install, gens, migration, lifecycle, locks, spent>>

\* The lifecycle of a plain init, up to the live view.
PlainCommit ==
    /\ At("plain")
    /\ gens[run.from] # "staging"
    /\ gens' = [gens EXCEPT ![run.from] = "sealed"]
    /\ install' = Pointer("plain", run.from)
    /\ live' = run.from
    /\ IF run.first THEN Go("publish") ELSE IF run.named THEN Go("developer") ELSE Stop
    /\ UNCHANGED <<legacy, exists, user, tasks, migration, lifecycle, locks, spent>>

PlainFails ==
    /\ At("plain") /\ gens[run.from] = "staging"
    /\ Stop
    /\ UNCHANGED <<disk, spent>>

-----------------------------------------------------------------------------
(* Journals.  Both stores write under a lock file that nobody takes over.   *)
(* The lifecycle removes only a lock of its own; the migration store        *)
(* removes whatever is there, so its next write but one gets through.       *)

WriteMigration(state, step) ==
    IF <<"migration", run.from>> \in locks
    THEN /\ locks' = locks \ {<<"migration", run.from>>}
         /\ Stop /\ UNCHANGED migration
    ELSE /\ migration' = [migration EXCEPT ![run.from] = state]
         /\ Go(step) /\ UNCHANGED locks

WriteLifecycle(state, step) ==
    IF <<"lifecycle", run.from>> \in locks
    THEN Stop /\ UNCHANGED lifecycle
    ELSE lifecycle' = [lifecycle EXCEPT ![run.from] = state] /\ Go(step)

Open ==
    /\ At("open")
    /\ IF lifecycle[run.from] = None THEN WriteLifecycle("planned", "migrate")
       ELSE /\ Go(CASE lifecycle[run.from] = "planned" -> "migrate"
                    [] lifecycle[run.from] = "completed" -> "revisit"
                    [] lifecycle[run.from] \in After -> "resume"
                    [] OTHER -> "advance")
            /\ UNCHANGED lifecycle
    /\ UNCHANGED <<legacy, exists, live, user, tasks, install, gens, migration, locks, spent>>

-----------------------------------------------------------------------------
(* runMigrationTransaction.                                                 *)

Migrating(state) == At("migrate") /\ migration[run.from] = state

MigrationNext(state) ==
    CASE state = None -> "planned" [] state = "planned" -> "backed-up"
      [] state = "committed" -> "completed" [] OTHER -> state

MigrationRecords ==
    /\ \E state \in {None, "planned", "committed"} :
          Migrating(state) /\ WriteMigration(MigrationNext(state), "migrate")
    /\ UNCHANGED <<legacy, exists, live, user, tasks, install, gens, lifecycle, spent>>

\* A generation directory that is there is refused, sealed or not.
MigrationStages ==
    /\ Migrating("backed-up")
    /\ IF gens[run.from] = "absent"
       THEN gens' = [gens EXCEPT ![run.from] = "staging"] /\ Go("seal")
       ELSE Stop /\ UNCHANGED gens
    /\ UNCHANGED <<legacy, exists, live, user, tasks, install, migration, lifecycle, locks, spent>>

MigrationSeals ==
    /\ At("seal")
    /\ gens' = [gens EXCEPT ![run.from] = "sealed"]
    /\ Go("sealed")
    /\ UNCHANGED <<legacy, exists, live, user, tasks, install, migration, lifecycle, locks, spent>>

MigrationStaged ==
    /\ At("sealed")
    /\ WriteMigration("staged", "migrate")
    /\ UNCHANGED <<legacy, exists, live, user, tasks, install, gens, lifecycle, spent>>

MigrationValidates ==
    /\ Migrating("staged")
    /\ IF gens[run.from] = "sealed" THEN WriteMigration("validated", "migrate")
       ELSE Stop /\ UNCHANGED <<migration, locks>>
    /\ UNCHANGED <<legacy, exists, live, user, tasks, install, gens, lifecycle, spent>>

MigrationActivates ==
    /\ Migrating("validated")
    /\ install' = Pointer("canonical", run.from)
    /\ Go("activated")
    /\ UNCHANGED <<legacy, exists, live, user, tasks, gens, migration, lifecycle, locks, spent>>

MigrationCommitted ==
    /\ At("activated")
    /\ WriteMigration("committed", "migrate")
    /\ UNCHANGED <<legacy, exists, live, user, tasks, install, gens, lifecycle, spent>>

\* The lifecycle goes on when the migration is complete.
MigrationDone ==
    /\ Migrating("completed")
    /\ WriteLifecycle("backed-up", "advance")
    /\ UNCHANGED <<legacy, exists, live, user, tasks, install, gens, migration, locks, spent>>

-----------------------------------------------------------------------------
(* The lifecycle of an import, on the generation the migration made.        *)

Advancing(state) == At("advance") /\ lifecycle[run.from] = state

\* ensureGeneration and validateGeneration find the sealed generation.
Advance ==
    /\ \/ Advancing("backed-up") /\ WriteLifecycle("staged", "advance")
       \/ Advancing("staged") /\ WriteLifecycle("validated", "advance")
    /\ UNCHANGED <<legacy, exists, live, user, tasks, install, gens, migration, locks, spent>>

\* commitInstallState for a legacy source: the migration's commit must stand.
Activate ==
    /\ Advancing("validated") \/ At("reopen")
    /\ IF install # None /\ install.gen = run.from
       THEN /\ install' = Pointer("import", run.from)
            /\ Go("commit")
       ELSE UNCHANGED install /\ Stop
    /\ UNCHANGED <<legacy, exists, live, user, tasks, gens, migration, lifecycle, locks, spent>>

RecordCommit ==
    /\ At("commit")
    /\ WriteLifecycle("committed", "materialize")
    /\ UNCHANGED <<legacy, exists, live, user, tasks, install, gens, migration, locks, spent>>

\* A completed import is only refreshed, unless its adapters or its pointer are gone.
Revisit ==
    /\ At("revisit")
    /\ \/ install = Pointer("import", run.from) /\ live' = run.from /\ Go("publish")
       \/ UNCHANGED live /\ Go("reopen")
    /\ UNCHANGED <<legacy, exists, user, tasks, install, gens, migration, lifecycle, locks, spent>>

Materialize ==
    /\ At("materialize") \/ At("resume")
    /\ live' = run.from
    /\ Go("reconcile")
    /\ UNCHANGED <<legacy, exists, user, tasks, install, gens, migration, lifecycle, locks, spent>>

\* reconcileAdapters and finalizeInstallState; the adapters are in Lifecycle.
Reconcile ==
    /\ At("reconcile")
    /\ \E ok \in BOOLEAN :
          WriteLifecycle(IF ok THEN "committed" ELSE "degraded",
                         IF install # Pointer("import", run.from) THEN "stopped"
                         ELSE IF ok THEN "complete" ELSE "publish")
    /\ UNCHANGED <<legacy, exists, live, user, tasks, install, gens, migration, locks, spent>>

Complete ==
    /\ At("complete")
    /\ WriteLifecycle("completed", "publish")
    /\ UNCHANGED <<legacy, exists, live, user, tasks, install, gens, migration, locks, spent>>

\* reportLifecycleResult: an interrupted lifecycle ends the command.
Stopped ==
    /\ At("stopped")
    /\ Stop
    /\ UNCHANGED <<disk, spent>>

-----------------------------------------------------------------------------
(* materializePreparedLegacyUserState: one file at a time, never over       *)
(* another content.  A legacy tree here has a developer and tasks.          *)

Prepared(f) ==
    CASE f = "spec" -> Template
      [] run.import -> run.from
      [] OTHER -> None

\* Mutant: the file is written over what the user made of it.
PublishOver ==
    /\ At("publish") /\ run.next <= Len(UserFiles)
    /\ LET f == UserFiles[run.next] IN
          /\ user' = IF Prepared(f) = None THEN user ELSE [user EXCEPT ![f] = Prepared(f)]
          /\ run' = [run EXCEPT !.next = @ + 1]
    /\ UNCHANGED <<legacy, exists, live, tasks, install, gens, migration, lifecycle, locks, spent>>

Publish ==
    /\ At("publish") /\ run.next <= Len(UserFiles)
    /\ LET f == UserFiles[run.next]
           same == Prepared(f) \in {None, user[f]}
       IN  /\ user' = IF same \/ user[f] # None THEN user ELSE [user EXCEPT ![f] = Prepared(f)]
           /\ run' = IF same \/ user[f] = None THEN [run EXCEPT !.next = @ + 1] ELSE Idle
    /\ UNCHANGED <<legacy, exists, live, tasks, install, gens, migration, lifecycle, locks, spent>>

Published ==
    /\ At("publish") /\ run.next > Len(UserFiles)
    /\ IF run.named THEN Go("developer") ELSE Stop
    /\ UNCHANGED <<disk, spent>>

\* init_developer.py keeps a developer that is there; its failure is silent.
InitDeveloper ==
    /\ At("developer")
    /\ \/ user' = IF user["developer"] = None THEN [user EXCEPT !["developer"] = Mine] ELSE user
       \/ UNCHANGED user
    /\ Go("onboard")
    /\ UNCHANGED <<legacy, exists, live, tasks, install, gens, migration, lifecycle, locks, spent>>

\* The three-branch dispatch, on the flags of the start and the tasks of now.
Onboarding ==
    IF (run.first /\ ~run.import) \/ TasksEmpty THEN "bootstrap"
    ELSE IF ~run.hadDev THEN "join" ELSE None

\* writeTaskSkeleton makes the directory, then the files; a directory that is
\* there is left alone.
Onboard ==
    /\ At("onboard")
    /\ IF Onboarding # None /\ tasks[Onboarding] = "none"
       THEN /\ tasks' = [tasks EXCEPT ![Onboarding] = "hollow"]
            /\ run' = [run EXCEPT !.at = "fill", !.next = Onboarding]
       ELSE UNCHANGED tasks /\ Stop
    /\ UNCHANGED <<legacy, exists, live, user, install, gens, migration, lifecycle, locks, spent>>

Fill ==
    /\ At("fill")
    /\ tasks' = [tasks EXCEPT ![run.next] = "full"]
    /\ Stop
    /\ UNCHANGED <<legacy, exists, live, user, install, gens, migration, lifecycle, locks, spent>>

-----------------------------------------------------------------------------
(* The process is killed; in the middle of a journal write it leaves the    *)
(* lock file of that journal, in the middle of a plain lifecycle perhaps a   *)
(* generation that is not sealed.                                           *)
Writing ==
    CASE At("open") \/ At("advance") \/ At("commit") \/ At("reconcile") \/ At("complete") -> "lifecycle"
      [] At("migrate") \/ At("sealed") \/ At("activated") -> "migration"
      [] OTHER -> None

Kill ==
    /\ ~At("idle") /\ spent.stops < MaxStops
    /\ \/ UNCHANGED <<locks, gens>>
       \/ Writing # None /\ locks' = locks \cup {<<Writing, run.from>>} /\ UNCHANGED gens
       \/ /\ At("plain") /\ gens[run.from] = "absent"
          /\ gens' = [gens EXCEPT ![run.from] = "staging"] /\ UNCHANGED locks
    /\ Stop
    /\ spent' = [spent EXCEPT !.stops = @ + 1]
    /\ UNCHANGED <<legacy, exists, live, user, tasks, install, migration, lifecycle>>

\* The user works in either tree.
UserEdits ==
    /\ spent.edits < MaxEdits
    /\ spent' = [spent EXCEPT !.edits = @ + 1]
    /\ \/ \E l \in Legacies : legacy # None /\ legacy' = l /\ UNCHANGED user
       \/ exists /\ user' = [user EXCEPT !["tasks"] = Mine] /\ UNCHANGED legacy
    /\ UNCHANGED <<exists, live, tasks, install, gens, migration, lifecycle, locks, run>>

Step ==
    \/ Build \/ PlainCommit \/ PlainFails \/ Open
    \/ MigrationRecords \/ MigrationStages \/ MigrationSeals \/ MigrationStaged
    \/ MigrationValidates \/ MigrationActivates \/ MigrationCommitted \/ MigrationDone
    \/ Advance \/ Activate \/ RecordCommit \/ Revisit \/ Materialize \/ Reconcile
    \/ Complete \/ Stopped
    \/ Publish \/ Published \/ InitDeveloper \/ Onboard \/ Fill

Next == Import \/ FullInit \/ Reinit \/ Step \/ Kill \/ UserEdits

Spec == Init /\ [][Next]_vars

-----------------------------------------------------------------------------
(* Properties.                                                              *)

(* What the user has in the project is never replaced by what an import     *)
(* brings, whatever was interrupted and edited before it.                   *)
UserStateKept ==
    [][spent'.edits = spent.edits =>
         \A f \in Files : user[f] # None => user'[f] = user[f]]_vars

(* The pointer names an imported generation only when that generation was   *)
(* sealed and validated by the migration, and the lifecycle takes it over   *)
(* only from a migration that was completed.                                *)
ImportStaged ==
    \A l \in Legacies :
        /\ install \in {Pointer("canonical", l), Pointer("import", l)} =>
              gens[l] = "sealed" /\ migration[l] \in {"validated", "committed", "completed"}
        /\ install = Pointer("import", l) => migration[l] = "completed"

(* init.ts: user files are published "only after canonical activation       *)
(* succeeds": none of them comes from a tree whose import was not           *)
(* committed.                                                               *)
PublishedAfterCommit ==
    \A f \in Files : user[f] \in Legacies =>
        lifecycle[user[f]] \in After \cup {"completed"}

=============================================================================
