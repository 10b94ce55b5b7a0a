------------------------------- MODULE Update -------------------------------
(***************************************************************************)
(* The update command: template files of a CLI version are compared with   *)
(* the files of the project and the hashes recorded for them, the          *)
(* canonical part of the result is built aside and committed by the        *)
(* lifecycle (module Lifecycle) in one step with the version and the       *)
(* hashes, and only then are migrations, deletions and template writes of  *)
(* host files carried out, one by one. The user edits files meanwhile.     *)
(* A hash stands for the content it was computed from.                     *)
(***************************************************************************)
EXTENDS Naturals, Sequences

CONSTANTS
    Canon, Live,    \* paths inside a canonical generation, and host paths
    Versions,
    Templates,      \* what each version ships at each path
    Migrations,     \* manifest entries, in manifest order
    Breaking,       \* versions that are breaking and recommend --migrate
    Custom,         \* contents only a user writes
    None,
    MaxUpdates, MaxEdits, MaxStops   \* bounds

Paths == Canon \cup Live
Unknown == 0

ASSUME PathAssumption == Canon \cap Live = {}
ASSUME VersionAssumption == Versions \subseteq Nat \ {Unknown} /\ Breaking \subseteq Versions
ASSUME BoundsAssumption == {MaxUpdates, MaxEdits, MaxStops} \subseteq Nat

Items == {Migrations[k] : k \in DOMAIN Migrations}
Retires(item) == item.kind = "safe-file-delete"
Renames(item) == item.kind \in {"rename", "rename-dir"}

\* An entry is about one file or one directory, which is one path here. One that
\* crosses the boundary of a generation is refused (canonical-migration-cross-boundary).
ASSUME ItemsAssumption ==
    \A item \in Items :
        /\ item.from \in Paths /\ item.to \in Paths \cup {None}
        /\ Renames(item) <=> item.to # None
        /\ Renames(item) => (item.from \in Canon <=> item.to \in Canon)
\* So are the manifests, but for the read-only legacy roots, which update drops: a path
\* has one entry, and what it is renamed to has none.
ASSUME ApartAssumption ==
    \A k, l \in DOMAIN Migrations :
        /\ Renames(Migrations[k]) => Migrations[k].to # Migrations[l].from
        /\ k # l => /\ Migrations[k].from # Migrations[l].from
                    /\ Renames(Migrations[k]) => Migrations[k].to # Migrations[l].to
\* What a release moves away it does not ship, and it retires no bytes that it ships.
ASSUME ManifestAssumption ==
    \A item \in Items, v \in Versions : item.since <= v =>
        IF Retires(item) THEN Templates[v][item.from] \notin item.allowed
                         ELSE Templates[v][item.from] = None
\* What a release ships, or knows of an earlier one, is nobody's own work.
ASSUME CustomAssumption ==
    /\ None \notin Custom
    /\ \A v \in Versions, p \in Paths : Templates[v][p] \notin Custom
    /\ \A item \in Items : Retires(item) => item.known \notin Custom /\ item.allowed \cap Custom = {}

VARIABLES
    files,      \* content of every path
    hashes,     \* .template-hashes.json
    version,    \* .version
    pc, work,   \* the update that runs, and what it has decided
    backups,    \* contents in a full backup or an inline .backup
    spent,
    \* History, read by no guard:
    late,       \* paths the user touched since the update analysed them, and where they went
    gone,       \* paths the user deleted
    torn        \* an update stopped between its commit and its last write

view == <<files, hashes, version>>
history == <<late, gone, torn>>
vars == <<view, pc, work, backups, spent, history>>

-----------------------------------------------------------------------------
(* Manifest entries: what each moves, and where to (None: it is deleted). *)

Targets(item) == {item.to} \ {None}
Touched(item) == {item.from} \cup Targets(item)

Exists(item) == files[item.from] # None
Occupied(item) == \E p \in Targets(item) : files[p] # None
Modified(p) == files[p] # None /\ hashes[p] # files[p]

\* Manifests that a CLI carries: those of its own version and earlier ones.
Carried(cli) == {k \in DOMAIN Migrations : Migrations[k].since <= cli}

\* collectSafeFileDeletes: entries of every version whose file has known bytes.
SafeDeletes(cli) == {item \in {Migrations[k] : k \in Carried(cli)} :
                  Retires(item) /\ files[item.from] \in item.allowed}

\* Entries of the versions passed, and renames an earlier update left undone.
Pending(cli) ==
    {k \in Carried(cli) :
        LET item == Migrations[k] IN
        /\ ~Retires(item)
        /\ \/ version # Unknown /\ item.since > version
           \/ Renames(item) /\ Exists(item) /\ ~Occupied(item)}

\* classifyMigrations.
Verdict(item, cli) ==
    LET shipped(p) == Templates[cli][p] # None /\ files[p] = Templates[cli][p]
        replaceable(p) == files[p] = None \/ shipped(p)
                          \/ (item.kind = "rename-dir" /\ ~Modified(p))
    IN  IF ~Exists(item) THEN "skip"
        ELSE IF Occupied(item)
             THEN IF \A p \in Targets(item) : replaceable(p) THEN "auto" ELSE "conflict"
        ELSE IF item.kind # "rename-dir" /\ Modified(item.from) THEN "confirm"
        ELSE "auto"

\* executeMigrations: unmodified entries, directories first, then those to confirm.
Turn(k, verdict) ==
    k + Len(Migrations) * (IF verdict = "confirm" THEN 2
                           ELSE IF Migrations[k].kind = "rename-dir" THEN 0 ELSE 1)

Queue(pending, cli) ==
    LET verdict(k) == Verdict(Migrations[k], cli)
    IN  {[item |-> Migrations[k], ask |-> verdict(k) = "confirm", turn |-> Turn(k, verdict(k))] :
            k \in {j \in pending : verdict(j) \in {"auto", "confirm"}}}

First(queue) == {q \in queue : \A r \in queue : q.turn <= r.turn}

Inside(item) == Touched(item) \subseteq Canon
CanonicalOnly(queue) == {q \in queue : Inside(q.item)}
LiveOnly(queue) == {q \in queue : ~Inside(q.item)}

\* A rename or deletion applied to a set of files and to their hashes.
Carry(item, before) ==
    [p \in DOMAIN before |-> IF p \in Targets(item) THEN before[item.from]
                             ELSE IF p = item.from THEN None ELSE before[p]]

\* Mutant: renameHash is forgotten.
RelocatedLosingTrack(item, v) ==
    [files |-> Carry(item, v.files), hashes |-> v.hashes]

\* renameHash leaves the target's hash alone where the file had none.
Relocated(item, v) ==
    [files |-> Carry(item, v.files),
     hashes |-> IF item.kind = "rename" /\ v.hashes[item.from] = None THEN v.hashes
                ELSE Carry(item, v.hashes)]

-----------------------------------------------------------------------------
(* analyzeChanges: templates of the CLI against files and hashes. *)

Shipped(cli) == {p \in Paths : Templates[cli][p] # None}
New(cli) == {p \in Shipped(cli) : files[p] = None /\ hashes[p] = None}
Unchanged(cli) == {p \in Shipped(cli) : files[p] = Templates[cli][p]}
Differing(cli) == {p \in Shipped(cli) : files[p] \notin {None, Templates[cli][p]}}

AutoUpdate(cli) == {p \in Differing(cli) : hashes[p] = files[p]}
Changed(cli) == Differing(cli) \ AutoUpdate(cli)
MissingHashes(cli) == {p \in Unchanged(cli) : hashes[p] = None}

Fresh(cli, paths, before) == [p \in Paths |-> IF p \in paths THEN Templates[cli][p] ELSE before[p]]

TypeOK ==
    /\ DOMAIN files = Paths /\ DOMAIN hashes = Paths
    /\ version \in Versions \cup {Unknown}
    /\ pc \in {"idle", "consent", "migrating", "resolving", "sealed", "live"}
    /\ (pc = "idle") <=> (work = None)
    /\ late \subseteq Paths /\ gone \subseteq Paths /\ torn \in BOOLEAN

\* init has installed a version, or a version from before .version existed.
Init ==
    /\ \E v \in Versions :
          /\ files = [p \in Paths |-> 
                IF \E item \in Items : Retires(item) /\ p = item.from
                THEN (CHOOSE item \in Items : Retires(item) /\ p = item.from).known
                ELSE Templates[v][p]]
          /\ hashes = files
          /\ version \in {v, Unknown}
    /\ pc = "idle" /\ work = None
    /\ backups = {}
    /\ spent = [updates |-> 0, edits |-> 0, stops |-> 0]
    /\ late = {} /\ gone = {} /\ torn = FALSE

-----------------------------------------------------------------------------
(* Analysis and consent. *)

\* seedCanonicalBuildRoot and createFullBackup.
Seeded(plan, recorded) == [plan EXCEPT !.build = [files |-> files, hashes |-> recorded]]
BackUp == backups' = backups \cup {files[p] : p \in Paths}

Blocked(cli, migrate) ==
    /\ ~migrate /\ version # Unknown
    /\ \E v \in Breaking : v > version /\ v <= cli
    /\ \E k \in Pending(cli) : Verdict(Migrations[k], cli) # "skip"

Analyse(cli, migrate, mode) ==
    LET queue == IF migrate THEN Queue(Pending(cli), cli) ELSE {}
        plan == [cli |-> cli, mode |-> mode, build |-> None,
                 queue |-> CanonicalOnly(queue), later |-> LiveOnly(queue),
                 new |-> New(cli), auto |-> AutoUpdate(cli), changed |-> Changed(cli),
                 hash |-> MissingHashes(cli), retire |-> SafeDeletes(cli),
                 writes |-> {}, agreed |-> {}, brought |-> {}]
        nothing == New(cli) \cup AutoUpdate(cli) \cup Changed(cli) = {}
                   /\ queue = {} /\ SafeDeletes(cli) = {}
    IN  /\ pc = "idle" /\ spent.updates < MaxUpdates
        /\ ~Blocked(cli, migrate)
        /\ spent' = [spent EXCEPT !.updates = @ + 1]
        /\ late' = {}
        /\ \/ /\ nothing      \* only the version and the hashes that were missing
              /\ work' = Seeded(plan, Fresh(cli, MissingHashes(cli), hashes))
              /\ pc' = "sealed"
              /\ UNCHANGED backups
           \/ /\ ~nothing /\ mode = "ask"
              /\ work' = plan /\ pc' = "consent"
              /\ UNCHANGED backups
           \/ /\ ~nothing /\ mode # "ask"
              /\ work' = Seeded(plan, hashes) /\ pc' = "migrating"
              /\ BackUp
        /\ UNCHANGED <<view, gone, torn>>

Proceed ==
    /\ pc = "consent"
    /\ work' = Seeded(work, hashes) /\ pc' = "migrating"
    /\ BackUp
    /\ UNCHANGED <<view, spent, history>>

Stopped == pc' = "idle" /\ work' = None
Decline == pc = "consent" /\ Stopped /\ UNCHANGED <<view, backups, spent, history>>

-----------------------------------------------------------------------------
(* Building the canonical candidate. *)

\* promptMigrationAction; --create-new does not answer it.
Answers(ask) ==
    IF ~ask THEN {"rename"}
    ELSE IF work.mode = "force" THEN {"rename"}
    ELSE IF work.mode = "skip" THEN {"skip"}
    ELSE {"rename", "backup-rename", "skip"}

\* A file that is renamed is not given up.
Agreed(q) == IF q.ask /\ ~Renames(q.item) THEN {q.item.from} ELSE {}

MigrateCanonical ==
    /\ pc = "migrating"
    /\ \E q \in First(work.queue) :
       \/ /\ "skip" \in Answers(q.ask)
          /\ work' = [work EXCEPT !.queue = @ \ {q}]
          /\ UNCHANGED <<pc, backups>>
       \/ \E answer \in Answers(q.ask) \ {"skip"} :
          /\ work.build.files[q.item.from] # None
          /\ work' = [work EXCEPT !.queue = @ \ {q}, !.build = Relocated(q.item, @),
                                  !.agreed = @ \cup Agreed(q), !.brought = @ \cup Targets(q.item)]
          /\ backups' = IF answer = "rename" THEN backups
                        ELSE backups \cup {work.build.files[q.item.from]}
          /\ UNCHANGED pc
       \/ /\ work.build.files[q.item.from] = None   \* renameSync throws
          /\ Stopped
          /\ UNCHANGED backups
    /\ UNCHANGED <<view, spent, history>>

\* Safe deletions and template writes of the candidate; host writes are noted.
Stage ==
    /\ pc = "migrating" /\ work.queue = {}
    /\ LET sure == work.new \cup work.auto
           dead == {p \in Canon : \E item \in work.retire :
                       p = item.from /\ work.build.files[p] \in item.allowed}
       IN  work' = [work EXCEPT
              !.build.files = [p \in Paths |-> IF p \in sure \cap Canon THEN Templates[work.cli][p]
                                               ELSE IF p \in dead THEN None ELSE @[p]],
              !.build.hashes = [p \in Paths |-> IF p \in dead THEN None ELSE @[p]],
              !.writes = sure \cap Live,
              !.retire = {item \in @ : ~Inside(item)},
              !.hash = @ \cup sure]
    /\ pc' = "resolving"
    /\ UNCHANGED <<view, backups, spent, history>>

\* promptConflictResolution; create-new and skip leave the file alone.
Overwrite(p) ==
    work' = [work EXCEPT
        !.build.files = IF p \in Canon THEN Fresh(work.cli, {p}, @) ELSE @,
        !.writes = @ \cup ({p} \cap Live),
        !.hash = @ \cup {p}, !.agreed = @ \cup {p}, !.changed = @ \ {p}]

ResolveConflict ==
    /\ pc = "resolving"
    /\ \E p \in work.changed :
          \/ work.mode \in {"force", "ask"} /\ Overwrite(p)
          \/ work.mode # "force" /\ work' = [work EXCEPT !.changed = @ \ {p}]
    /\ UNCHANGED <<view, pc, backups, spent, history>>

\* updateHashes: also of host files that have not been written yet.
Seal ==
    /\ pc = "resolving" /\ work.changed = {}
    /\ work' = [work EXCEPT !.build.hashes = Fresh(work.cli, work.hash, @)]
    /\ pc' = "sealed"
    /\ UNCHANGED <<view, backups, spent, history>>

-----------------------------------------------------------------------------
(* The commit, and the host operations deferred until after it. *)

\* runUpdateLifecycle: the canonical view is replaced by the candidate, also where
\* the user changed it since it was seeded (a deletion made before is back then).
Commit ==
    /\ pc = "sealed"
    /\ files' = [p \in Paths |-> IF p \in Canon THEN work.build.files[p] ELSE files[p]]
    /\ hashes' = work.build.hashes
    /\ version' = work.cli
    /\ gone' = {p \in gone \cup late : files'[p] = None}
    /\ pc' = "live"
    /\ UNCHANGED <<work, backups, spent, late, torn>>

\* Room is made for a directory before it is renamed.
Cleared(item) == [p \in Paths |-> IF item.kind = "rename-dir" /\ p \in Targets(item) THEN None ELSE files[p]]

MigrateLive ==
    /\ pc = "live"
    /\ \E q \in First(work.later) :
       LET moved == Relocated(q.item, [files |-> files, hashes |-> hashes]) IN
       \/ /\ "skip" \in Answers(q.ask)
          /\ work' = [work EXCEPT !.later = @ \ {q}]
          /\ UNCHANGED <<pc, view, backups, history>>
       \/ \E answer \in Answers(q.ask) \ {"skip"} :
          /\ Exists(q.item)
          /\ files' = moved.files /\ hashes' = moved.hashes
          /\ work' = [work EXCEPT !.later = @ \ {q}, !.agreed = @ \cup Agreed(q),
                                  !.brought = @ \cup Targets(q.item)]
          /\ backups' = IF answer = "rename" THEN backups
                        ELSE backups \cup {files[q.item.from]}
          /\ gone' = {p \in gone : files'[p] = None}
          /\ late' = IF q.item.from \in late THEN late \cup Targets(q.item) ELSE late
          /\ UNCHANGED <<pc, version, torn>>
       \/ /\ ~Exists(q.item)       \* renameSync throws
          /\ Stopped /\ torn' = TRUE
          /\ files' = Cleared(q.item)
          /\ UNCHANGED <<hashes, version, backups, late, gone>>
    /\ UNCHANGED spent

\* Mutant: the bytes are not compared again before the file is unlinked.
RetireLiveUnchecked ==
    /\ pc = "live" /\ work.later = {}
    /\ \E item \in work.retire :
          /\ files' = [files EXCEPT ![item.from] = None]
          /\ hashes' = [hashes EXCEPT ![item.from] = None]
          /\ work' = [work EXCEPT !.retire = @ \ {item}]
    /\ UNCHANGED <<version, pc, backups, spent, history>>

\* executeSafeFileDeletes: the bytes are compared again.
RetireLive ==
    /\ pc = "live" /\ work.later = {}
    /\ \E item \in work.retire :
          /\ IF files[item.from] \in item.allowed
             THEN /\ files' = [files EXCEPT ![item.from] = None]
                  /\ hashes' = [hashes EXCEPT ![item.from] = None]
             ELSE UNCHANGED <<files, hashes>>
          /\ work' = [work EXCEPT !.retire = @ \ {item}]
    /\ UNCHANGED <<version, pc, backups, spent, history>>

\* applyDeferredLiveWrites: whatever the file holds by now.
WriteLive ==
    /\ pc = "live" /\ work.later = {} /\ work.retire = {}
    /\ \E p \in work.writes :
          /\ files' = Fresh(work.cli, {p}, files)
          /\ work' = [work EXCEPT !.writes = @ \ {p}]
          /\ gone' = gone \ {p}
    /\ UNCHANGED <<hashes, version, pc, backups, spent, late, torn>>

Finish ==
    /\ pc = "live" /\ work.later = {} /\ work.retire = {} /\ work.writes = {}
    /\ Stopped
    /\ UNCHANGED <<view, backups, spent, history>>

\* The process is killed, or the lifecycle throws before or after its commit.
Unfinished == work.later # {} \/ work.retire # {} \/ work.writes # {}

Stop ==
    /\ pc # "idle" /\ spent.stops < MaxStops
    /\ spent' = [spent EXCEPT !.stops = @ + 1]
    /\ torn' = (torn \/ (pc = "live" /\ Unfinished))
    /\ Stopped
    /\ UNCHANGED <<view, backups, late, gone>>

UserEdits ==
    \E p \in Paths, content \in Custom \cup {None} :
        /\ spent.edits < MaxEdits /\ files[p] # content
        /\ files' = [files EXCEPT ![p] = content]
        /\ spent' = [spent EXCEPT !.edits = @ + 1]
        /\ late' = IF pc = "idle" THEN late ELSE late \cup {p}
        /\ gone' = IF content = None THEN gone \cup {p} ELSE gone \ {p}
        /\ UNCHANGED <<hashes, version, pc, work, backups, torn>>

Next ==
    \/ \E cli \in Versions, migrate \in BOOLEAN, mode \in {"ask", "force", "skip", "create-new"} :
          Analyse(cli, migrate, mode)
    \/ Proceed \/ Decline \/ MigrateCanonical \/ Stage \/ ResolveConflict \/ Seal
    \/ Commit \/ MigrateLive \/ RetireLive \/ WriteLive \/ Finish
    \/ Stop \/ UserEdits

Spec == Init /\ [][Next]_vars

-----------------------------------------------------------------------------
(* Properties. *)

Retiring(p) == p \in Live /\ \E item \in work.retire : p = item.from
ByUser == spent'.edits # spent.edits
Lost(p) == files[p] \in Custom /\ files'[p] # files[p] /\ ~ByUser

\* Where this update has taken what was at p.
MovedTo(p) == {item.to : item \in {i \in Items : Renames(i) /\ i.from = p}} \cap work'.brought

\* This version writes a file of its own where an entry brought the user's; the
\* snapshot has it still.
Overwritten(p) ==
    /\ files[p] \in backups
    /\ \E r \in ({p} \cup MovedTo(p)) \cap work.brought :
          r \in work.new \cup work.auto /\ files'[r] = Templates[work.cli][r]

\* What a user wrote leaves its place only because the user agreed to its loss, or
\* was written after the analysis that the commit and the deferred writes rely on
\* (where a host file is being retired not even then: the second look of
\* executeSafeFileDeletes), or because an entry renames it. Then it stands, as it
\* was, where the entry takes it, with one exception: a path that the analysis
\* found free for a file of this version. The update writes that file over what it
\* has moved there itself (applyDeferredLiveWrites, stageTemplateWrite), and what
\* the user wrote is in the snapshot of the project only.
KeepsCustom ==
    [][\A p \in Paths : Lost(p) =>
          \/ p \in late /\ ~Retiring(p)
          \/ p \in work'.agreed
          \/ \E r \in MovedTo(p) : files'[r] = files[p]
          \/ Overwritten(p)]_vars

\* Between updates, and in one that has not committed, unless one was torn.
Quiet == pc \in {"idle", "consent", "migrating", "resolving", "sealed"} /\ ~torn

\* An absent file with a recorded hash is one the user deleted: the update that
\* finds it leaves it deleted.
RespectsDeletion ==
    Quiet => \A p \in Paths : files[p] = None /\ hashes[p] # None => p \in gone

=============================================================================
