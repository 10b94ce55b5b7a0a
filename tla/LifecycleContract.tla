-------------------------- MODULE LifecycleContract --------------------------
(***************************************************************************)
(* What a lifecycle transaction writes down before it acts, and the        *)
(* contract every such record is parsed against.                           *)
(*                                                                         *)
(* A request (lifecycle/orchestrator.ts) is normalized, turned into a plan *)
(* of ordered actions, and the plan's fingerprint is kept in the journal:  *)
(* a later run under the same id is let on only if its own plan has that   *)
(* fingerprint.  A fingerprint is a digest of the whole record, so here it *)
(* is the record.  The parsers are core/src/pactile/lifecycle.ts.  Module  *)
(* MigrationJournal keeps a journal's phase, statuses and event kinds; the *)
(* journal here has the rest of its fields too: sequence numbers, times,   *)
(* attempts, errors and action ids.  The shape of a record (its fields and *)
(* their types) is taken for granted; every rule between values is here.   *)
(***************************************************************************)
EXTENDS MigrationJournal, SequencesExt

CONSTANTS
  Malformed,    \* a name, path or digest that fails its pattern
  Requests,     \* the requests a caller can make, all under one id
  Submitted,    \* the ones that are run
  MaxRuns

VARIABLES
  saved,        \* the journal on disk with its plan, or None
  runner,       \* the run in progress: its request, plan and time, or None
  drivers       \* the normalized requests that have written the journal

lcvars == <<saved, runner, drivers>>

-----------------------------------------------------------------------------
(* Requests.  A path has a rank in lexical order, and a fold its spelling   *)
(* shares with the other spellings of the same file.                        *)
PathOrder == <<"A", "a", "b">>
Fold(path) == IF path = "A" THEN "a" ELSE path
RankOf(path) == CHOOSE i \in DOMAIN PathOrder : PathOrder[i] = path

TooLarge(bytes) == bytes = "huge"

\* What the request's pattern accepts, and what the contract's does: the
\* request's lets through versions such as 1.0.0-rc-1 that the contract does not.
VersionAccepted(version) == version \in {"loose", "strict"}
SemverAccepted(version)  == version = "strict"

\* In the order of the paths, which are distinct where files are accepted.
Sorted(files) ==
  LET Before(i) == {k \in DOMAIN files : RankOf(files[k].path) < RankOf(files[i].path)}
  IN  [place \in DOMAIN files |->
         files[CHOOSE i \in DOMAIN files : Cardinality(Before(i)) = place - 1]]

\* normalizeGenerationFiles
FilesAccepted(files) ==
  /\ files # <<>>
  /\ \A i \in DOMAIN files : files[i].path # Malformed /\ ~TooLarge(files[i].bytes)
  /\ \A i, k \in DOMAIN files :
       Fold(files[i].path) = Fold(files[k].path) => i = k

Classes == {"active", "closed", "generated"}

\* A digest of bytes is the bytes; a malformed one is no digest of anything.
LegacyAccepted(files) ==
  /\ \A i \in DOMAIN files : LET f == files[i] IN
       /\ f.ref # Malformed /\ f.class \in Classes
       /\ ~TooLarge(f.source) /\ f.expected = f.source
       /\ f.class = "closed" => f.source = f.bytes
  /\ \A i, k \in DOMAIN files : files[i].ref = files[k].ref => i = k

AdaptersAccepted(adapters) ==
  /\ \A i \in DOMAIN adapters :
       /\ adapters[i].id # Malformed /\ adapters[i].projection # Malformed
       /\ VersionAccepted(adapters[i].version)
  /\ \A i, k \in DOMAIN adapters :
       \/ i = k
       \/ /\ adapters[i].id # adapters[k].id
          /\ adapters[i].projection # adapters[k].projection

SourceNormal(source) ==
  /\ FilesAccepted(source.files)
  /\ source.kind = "canonical" => /\ source.generation # Malformed
                                  /\ VersionAccepted(source.version)
                                  /\ source.schema = 1
  /\ source.kind = "legacy" => /\ source.root = ".cstl"
                               /\ source.version # None => VersionAccepted(source.version)
                               /\ source.schema # None => source.schema >= 0
                               /\ LegacyAccepted(source.files)

\* normalizeRequest: root, ids, expected fingerprint and time are `formed'.
NormalizedRequest(r) ==
  IF /\ r.formed /\ r.generation # Malformed /\ VersionAccepted(r.version)
     /\ AdaptersAccepted(r.adapters) /\ SourceNormal(r.source)
    THEN [r EXCEPT !.source.files = Sorted(@)]
    ELSE None

-----------------------------------------------------------------------------
(* The plan.                                                                *)
Phases == <<"detect", "backup", "stage", "validate", "commit", "reconcile", "doctor">>
PhaseRank(phase) == CHOOSE i \in DOMAIN Phases : Phases[i] = phase

Action(id, phase, kind, from, to) ==
  [id |-> id, phase |-> phase, kind |-> kind, domain |-> "canonical",
   sourceRef |-> from, targetRef |-> to, adapter |-> None, reversible |-> TRUE]

Generation(id) == <<"generation", id>>

\* Mutant: the reference of an imported file names it without its bytes.
SourceReferenceByName(source, f) ==
  IF source.kind = "legacy" THEN <<"legacy", f.ref>>
  ELSE <<"content", f.path, f.bytes>>

SourceReference(source, f) ==
  CASE source.kind = "fresh"     -> <<"content", f.path, f.bytes>>
    [] source.kind = "canonical" -> <<"generation", source.generation, f.path, f.bytes>>
    [] source.kind = "legacy"    -> <<"legacy", f.ref, f.expected, f.bytes>>

Origin(r) == CASE r.source.kind = "fresh"     -> None
               [] r.source.kind = "canonical" -> Generation(r.source.generation)
               [] r.source.kind = "legacy"    -> <<"legacy", ".cstl">>

BackupRef(r) == CASE r.source.kind = "fresh"     -> <<"backup", "not-required">>
                  [] r.source.kind = "canonical" -> Generation(r.source.generation)
                  [] r.source.kind = "legacy"    -> <<"migration", "canonical">>

StageKind(source, f) ==
  IF source.kind # "legacy" \/ f.class = "generated" THEN "write-generation"
  ELSE IF f.class = "closed" THEN "copy-byte-preserved" ELSE "transform-schema"

StageActions(r) ==
  [i \in DOMAIN r.source.files |->
     Action(<<"stage", i>>, "stage", StageKind(r.source, r.source.files[i]),
            SourceReference(r.source, r.source.files[i]),
            <<"generation", r.generation, r.source.files[i].path>>)]

ReconcileActions(r) ==
  [i \in DOMAIN r.adapters |->
     [Action(<<"reconcile", i>>, "reconcile", "reconcile-projection",
             <<"projection", r.adapters[i].projection>>, <<"adapter", r.adapters[i].id>>)
        EXCEPT !.domain = "projection", !.adapter = r.adapters[i].id]]

PlanActions(r) ==
  LET staged == Generation(r.generation) IN
  <<Action(<<"detect", 0>>, "detect", "capture-facts", Origin(r), None),
    Action(<<"backup", 0>>, "backup", "snapshot", Origin(r), BackupRef(r))>>
  \o StageActions(r)
  \o <<Action(<<"validate", 0>>, "validate", "validate-generation", staged, None),
       Action(<<"commit", 0>>, "commit", "activate-generation", staged,
              <<"install-state", "active">>)>>
  \o ReconcileActions(r)
  \o <<Action(<<"doctor", 0>>, "doctor", "doctor", staged, None)>>

PlanSource(r) ==
  CASE r.source.kind = "fresh" ->
         [kind |-> "fresh", root |-> None, access |-> "none",
          version |-> None, schema |-> None]
    [] r.source.kind = "canonical" ->
         [kind |-> "canonical", root |-> ".pactile", access |-> "read-write",
          version |-> r.source.version, schema |-> r.source.schema]
    [] r.source.kind = "legacy" ->
         [kind |-> "legacy", root |-> r.source.root, access |-> "read-only",
          version |-> r.source.version, schema |-> r.source.schema]

RefsOf(files, Chosen(_)) ==
  [i \in DOMAIN SelectSeq(files, Chosen) |-> SelectSeq(files, Chosen)[i].ref]

Preservation(r) ==
  IF r.source.kind = "legacy"
    THEN [preserved   |-> RefsOf(r.source.files, LAMBDA f : f.class = "closed"),
          transformed |-> RefsOf(r.source.files, LAMBDA f : f.class # "closed")]
    ELSE [preserved   |-> <<>>,
          transformed |-> [i \in DOMAIN r.source.files |->
                             SourceReference(r.source, r.source.files[i])]]

\* buildPlan, before it is parsed.
PlanCandidate(r) ==
  [source |-> PlanSource(r), version |-> r.version, generation |-> r.generation,
   actions |-> PlanActions(r), commitPoint |-> <<"commit", 0>>,
   preservation |-> Preservation(r), backup |-> BackupRef(r),
   projections |-> [i \in DOMAIN r.adapters |-> r.adapters[i].projection]]

-----------------------------------------------------------------------------
(* The contract of a plan.                                                  *)
Distinct(seq) == \A i, k \in DOMAIN seq : seq[i] = seq[k] => i = k

SourceAccepted(s) ==
  /\ s.version = None \/ SemverAccepted(s.version)
  /\ s.schema = None \/ s.schema >= 0
  /\ s.kind = "fresh" => /\ s.root = None /\ s.access = "none"
                         /\ s.version = None /\ s.schema = None
  /\ s.kind = "canonical" => s.root = ".pactile" /\ s.access = "read-write"
  /\ s.kind = "legacy" => s.root \in {".cstl", ".trellis"} /\ s.access = "read-only"

ActionAccepted(a) ==
  /\ a.domain = "canonical" => a.adapter = None
  /\ IF a.kind = "reconcile-projection"
       THEN a.domain = "projection" /\ a.phase = "reconcile" /\ a.adapter # None
       ELSE a.domain = "projection" => a.phase = "doctor"
  /\ a.phase = "reconcile" => a.kind = "reconcile-projection"
  /\ a.phase = "commit" => a.kind = "activate-generation"
  /\ a.domain = "projection" /\ a.phase = "doctor" => a.adapter # None /\ a.kind = "doctor"
  /\ a.kind = "activate-generation" => a.phase = "commit" /\ a.domain = "canonical"

PreservationAccepted(p) ==
  /\ Distinct(p.preserved) /\ Distinct(p.transformed)
  /\ ToSet(p.preserved) \cap ToSet(p.transformed) = {}

ActionsInOrder(actions) ==
  /\ \A i, k \in DOMAIN actions :
       i < k => PhaseRank(actions[i].phase) <= PhaseRank(actions[k].phase)
  /\ {"detect", "backup", "stage", "validate", "commit", "doctor"}
       \subseteq {actions[i].phase : i \in DOMAIN actions}

CommitPointAccepted(plan) ==
  \E c \in DOMAIN plan.actions : LET action == plan.actions[c] IN
    /\ action.id = plan.commitPoint
    /\ action.phase = "commit" /\ action.kind = "activate-generation"
    /\ action.domain = "canonical" /\ action.reversible
    /\ \A i \in 1 .. c - 1 : plan.actions[i].phase # "reconcile"

\* Every projection plan is carried out by some action of the plan.
ProjectionsAccepted(plan) ==
  /\ Distinct(plan.projections)
  /\ \A i \in DOMAIN plan.projections : \E k \in DOMAIN plan.actions :
       /\ plan.actions[k].kind = "reconcile-projection"
       /\ plan.actions[k].sourceRef = <<"projection", plan.projections[i]>>

PlanAccepted(plan) ==
  /\ SemverAccepted(plan.version) /\ plan.generation # Malformed
  /\ SourceAccepted(plan.source)
  /\ \A i \in DOMAIN plan.actions : ActionAccepted(plan.actions[i])
  /\ Distinct([i \in DOMAIN plan.actions |-> plan.actions[i].id])
  /\ ActionsInOrder(plan.actions) /\ CommitPointAccepted(plan)
  /\ ProjectionsAccepted(plan) /\ PreservationAccepted(plan.preservation)

BuildPlan(r) == IF PlanAccepted(PlanCandidate(r)) THEN PlanCandidate(r) ELSE None

-----------------------------------------------------------------------------
(* The transaction that imports a legacy directory (migration/transaction.ts)*)
(* gets the normalized files of the lifecycle request and plans for itself. *)
MigrationRequest(r) ==
  [generation |-> r.generation, version |-> r.version, root |-> r.source.root,
   runtime |-> r.source.version, schema |-> r.source.schema, files |-> r.source.files]

MigrationNormal(m) ==
  /\ m.root \in {".cstl", ".trellis"} /\ VersionAccepted(m.version)
  /\ m.generation # Malformed /\ FilesAccepted(m.files)
  /\ \A i \in DOMAIN m.files : LET f == m.files[i] IN
       /\ f.ref # Malformed /\ f.class \in Classes /\ f.expected = f.source
       /\ ~TooLarge(f.source) /\ f.class = "closed" => f.source = f.bytes

\* Its references are the files' own: they do not depend on the bytes.
MigrationPlan(m) ==
  LET staged == Generation(m.generation)
      from   == <<"legacy", m.root>>
  IN [source |-> [kind |-> "legacy", root |-> m.root, access |-> "read-only",
                  version |-> m.runtime, schema |-> m.schema],
      version |-> m.version, generation |-> m.generation,
      actions |->
        <<Action(<<"detect", 0>>, "detect", "capture-facts", from, None),
          Action(<<"backup", 0>>, "backup", "snapshot", from, <<"backup", "canonical">>)>>
        \o [i \in DOMAIN m.files |->
              Action(<<"stage", i>>, "stage",
                     StageKind([kind |-> "legacy"], m.files[i]), <<"file", m.files[i].ref>>,
                     <<"generation", m.generation, m.files[i].path>>)]
        \o <<Action(<<"validate", 0>>, "validate", "validate-generation", staged, None),
             Action(<<"commit", 0>>, "commit", "activate-generation", staged,
                    <<"install-state", "active">>),
             Action(<<"doctor", 0>>, "doctor", "doctor", staged, None)>>,
      commitPoint |-> <<"commit", 0>>,
      preservation |-> [preserved   |-> RefsOf(m.files, LAMBDA f : f.class = "closed"),
                        transformed |-> RefsOf(m.files, LAMBDA f : f.class # "closed")],
      backup |-> <<"backup", "canonical">>, projections |-> <<>>]

PlanMigration(m) ==
  IF MigrationNormal(m) /\ PlanAccepted(MigrationPlan(m)) THEN MigrationPlan(m) ELSE None

-----------------------------------------------------------------------------
(* The journal, with all its fields.                                        *)
Event(j, at, kind, action, adapter) ==
  [seq |-> Len(j.events) + 1, at |-> at, kind |-> kind, action |-> action,
   adapter |-> adapter]

Untried(a) == [status |-> "pending", attempts |-> 0, at |-> None, error |-> None]

AdaptersOf(r) == {r.adapters[i].id : i \in DOMAIN r.adapters}

InitialJournal(r, plan, at) ==
  [state |-> "planned",
   commit |-> [status |-> "pending", action |-> plan.commitPoint,
               generation |-> None, at |-> None],
   recovery |-> [status |-> IF r.source.kind = "fresh" THEN "not-required" ELSE "available",
                 backup |-> plan.backup, error |-> None],
   adapters |-> [a \in AdaptersOf(r) |-> Untried(a)],
   events |-> <<Event([events |-> <<>>], at, "planned", <<"detect", 0>>, None)>>]

CommitAccepted(c) ==
  IF c.status = "pending" THEN c.generation = None /\ c.at = None
                          ELSE c.generation # None /\ c.at # None

RecoveryAccepted(x) == (x.status = "failed") <=> (x.error # None)

ReconcileAccepted(x) ==
  /\ IF x.status = "pending" THEN x.attempts = 0 /\ x.at = None
                             ELSE x.attempts >= 1 /\ x.at # None
  /\ (x.status = "failed") <=> (x.error # None)

EventAccepted(e) ==
  IF e.kind \in AdapterKinds THEN e.adapter # None /\ e.action # None
                             ELSE e.adapter = None

(* The journal module MigrationJournal sees.                                *)
Outline(j) ==
  [state |-> j.state, committed |-> j.commit.status = "committed",
   status |-> [a \in DOMAIN j.adapters |-> j.adapters[a].status],
   events |-> [i \in DOMAIN j.events |-> Happened(j.events[i].kind, j.events[i].adapter)]]

CommitEventMatches(j) ==
  j.commit.status = "committed" => \E i \in DOMAIN j.events :
    /\ j.events[i].kind = "committed" /\ j.events[i].action = j.commit.action

AttemptsMatch(j, a) ==
  LET own  == EventsOf(j, a)
      last == own[Len(own)]
  IN /\ j.adapters[a].attempts = Cardinality({i \in DOMAIN own : own[i].kind = "started"})
     /\ own # <<>> => last.at = j.adapters[a].at
     /\ \A i \in 2 .. Len(own) :
          own[i].kind # "started" => own[i].action = own[i - 1].action

JournalAccepted(j) ==
  /\ CommitAccepted(j.commit) /\ RecoveryAccepted(j.recovery)
  /\ \A a \in DOMAIN j.adapters : ReconcileAccepted(j.adapters[a])
  /\ \A i \in DOMAIN j.events : EventAccepted(j.events[i]) /\ j.events[i].seq = i
  /\ Parses(Outline(j)) /\ CommitEventMatches(j)
  /\ \A a \in DOMAIN j.adapters : AttemptsMatch(j, a)
  /\ \A i \in DOMAIN j.events :
       j.events[i].adapter # None => j.events[i].adapter \in DOMAIN j.adapters

-----------------------------------------------------------------------------
(* A run of the transaction.  It composes its next journal from the one it  *)
(* last wrote, and the store writes it if it parses; a refusal ends the run.*)
Lcinit == saved = None /\ runner = None /\ drivers = {}

Runs == IF saved = None THEN 0 ELSE saved.runs

SamePlan(plan) == saved.plan = plan

PlanFor(r) == IF NormalizedRequest(r) = None THEN None
              ELSE BuildPlan(NormalizedRequest(r))

Submit(r) ==
  LET n    == NormalizedRequest(r)
      plan == PlanFor(r)
  IN /\ runner = None /\ plan # None /\ Runs < MaxRuns
     /\ saved # None => SamePlan(plan)
     /\ saved' = IF saved = None
                   THEN [plan |-> plan, runs |-> 1, journal |-> InitialJournal(n, plan, 1)]
                   ELSE [saved EXCEPT !.runs = @ + 1]
     /\ runner' = [request |-> n, left |-> None, busy |-> None, next |-> None]
     /\ drivers' = drivers \cup (IF saved = None THEN {n} ELSE {})

\* The request is not acceptable, or the journal under its id has another plan.
Refuse(r) ==
  /\ runner = None
  /\ \/ PlanFor(r) = None
     \/ saved # None /\ ~SamePlan(PlanFor(r))
  /\ UNCHANGED lcvars

Composes(next) ==
  /\ runner # None /\ runner.next = None
  /\ runner' = [runner EXCEPT !.next = next]
  /\ UNCHANGED <<saved, drivers>>

Then(j, state, kind, action, adapter) ==
  [j EXCEPT !.state = state,
            !.events = Append(@, Event(j, saved.runs, kind, action, adapter))]

Advance ==
  /\ runner # None
  /\ LET j == saved.journal IN
     \/ j.state = "planned"   /\ Composes(Then(j, "backed-up", "backup", <<"backup", 0>>, None))
     \/ j.state = "backed-up" /\ Composes(Then(j, "staged", "stage", <<"stage", 1>>, None))
     \/ j.state = "staged"    /\ Composes(Then(j, "validated", "validated", <<"validate", 0>>, None))
     \/ j.state = "validated" /\ Composes(
          [Then(j, "committed", "committed", saved.plan.commitPoint, None) EXCEPT
             !.commit = [@ EXCEPT !.status = "committed", !.at = saved.runs,
                                  !.generation = runner.request.generation]])

(* Which adapters need work is read off the install state and the host; the *)
(* ones the journal does not know as succeeded always do.                   *)
Settle ==
  /\ runner # None /\ runner.next = None /\ runner.left = None
  /\ saved.journal.state \notin OpenStates
  /\ \E more \in SUBSET DOMAIN saved.journal.adapters :
       LET left == more \cup {a \in DOMAIN saved.journal.adapters :
                                saved.journal.adapters[a].status # "succeeded"}
       IN IF saved.journal.state # "completed"
            THEN runner' = [runner EXCEPT !.left = left]
            ELSE runner' = IF left = {} THEN None
                           ELSE [runner EXCEPT !.left = left,
                                   !.next = [saved.journal EXCEPT !.state = "committed"]]
  /\ UNCHANGED <<saved, drivers>>

Reconcile(a) == runner # None /\ runner.left # None /\ a \in runner.left

ActionId(a) == LET i == CHOOSE i \in DOMAIN saved.plan.actions :
                          /\ saved.plan.actions[i].kind = "reconcile-projection"
                          /\ saved.plan.actions[i].adapter = a
               IN saved.plan.actions[i].id

FailedWith(a, reason) ==
  [Then(saved.journal, "degraded", "failed", ActionId(a), a) EXCEPT
     !.adapters[a] = [@ EXCEPT !.status = "failed", !.at = saved.runs, !.error = reason]]

\* The adapters take their turns in the order of the request.
Turn(a) == \A b \in runner.left :
             \/ b = a
             \/ \E i, k \in DOMAIN runner.request.adapters :
                  /\ i < k /\ runner.request.adapters[i].id = a
                  /\ runner.request.adapters[k].id = b

LeftInProgress(a) == saved.journal.adapters[a].status = "in-progress" /\ runner.busy # a

FailLeft(a) ==
  /\ Reconcile(a) /\ Turn(a) /\ LeftInProgress(a)
  /\ Composes(FailedWith(a, "interrupted-attempt-recovered"))

StartedAgain(a) ==
  [Then(saved.journal, "reconciling", "started", ActionId(a), a) EXCEPT
     !.adapters[a] = [status |-> "in-progress", attempts |-> @.attempts + 1,
                      at |-> saved.runs, error |-> None]]

Start(a) ==
  /\ Reconcile(a) /\ Turn(a) /\ runner.busy = None /\ runner.next = None
  /\ saved.journal.adapters[a].status # "in-progress"
  /\ runner' = [runner EXCEPT !.busy = a, !.next = StartedAgain(a)]
  /\ UNCHANGED <<saved, drivers>>

Finish(a) ==
  /\ Reconcile(a) /\ runner.busy = a /\ runner.next = None
  /\ \E next \in {FailedWith(a, "projection-apply-not-completed"),
                  [Then(saved.journal,
                        IF \E b \in DOMAIN saved.journal.adapters \ {a} :
                             saved.journal.adapters[b].status = "failed"
                          THEN "degraded" ELSE "committed",
                        "succeeded", ActionId(a), a) EXCEPT
                     !.adapters[a] = [@ EXCEPT !.status = "succeeded",
                                               !.at = saved.runs, !.error = None]]} :
       runner' = [runner EXCEPT !.busy = None, !.left = @ \ {a}, !.next = next]
  /\ UNCHANGED <<saved, drivers>>

Doctor ==
  /\ runner # None /\ runner.left = {} /\ runner.next = None
  /\ saved.journal.state # "completed"
  /\ IF \A a \in DOMAIN saved.journal.adapters :
          saved.journal.adapters[a].status = "succeeded"
       THEN runner' = [runner EXCEPT !.next =
                         Then(saved.journal, "completed", "doctor", <<"doctor", 0>>, None)]
       ELSE runner' = None
  /\ UNCHANGED <<saved, drivers>>

Save ==
  /\ runner # None /\ runner.next # None
  /\ IF JournalAccepted(runner.next)
       THEN /\ saved' = [saved EXCEPT !.journal = runner.next]
            /\ drivers' = drivers \cup {runner.request}
            /\ runner' = [runner EXCEPT !.next = None]
       ELSE runner' = None /\ UNCHANGED <<saved, drivers>>

\* The process dies, or an error ends the run, at any point.
Cut == runner # None /\ runner' = None /\ UNCHANGED <<saved, drivers>>

Done == runner # None /\ runner.next = None /\ runner.left = {}
          /\ saved.journal.state = "completed" /\ runner' = None
          /\ UNCHANGED <<saved, drivers>>

Lcnext == \/ \E r \in Submitted : Submit(r) \/ Refuse(r)
          \/ Advance \/ Settle \/ Doctor \/ Save \/ Cut \/ Done
          \/ \E a \in Adapters : FailLeft(a) \/ Start(a) \/ Finish(a)

-----------------------------------------------------------------------------
(* The fields MigrationJournal leaves out never decide whether a journal    *)
(* the orchestrator composes is accepted: attempts, times, errors and       *)
(* action ids stay consistent with the events through every interruption.   *)
OutlineDecides == runner # None /\ runner.next # None =>
  (JournalAccepted(runner.next) <=> Parses(Outline(runner.next)))

(* A request that is accepted is planned, and an accepted import is planned *)
(* by the transaction it is handed to as well: no transaction starts that   *)
(* its own contract would stop.  Only a version the contract does not know  *)
(* is refused in between, before anything is written.                       *)
AcceptedIsPlanned ==
  runner = None /\ saved = None => \A r \in Requests : LET n == NormalizedRequest(r) IN
    (n # None /\ SemverAccepted(n.version)
       /\ (n.source.kind # "fresh" => n.source.version \in {None, "strict"})) =>
      /\ PlanAccepted(PlanCandidate(n))
      /\ n.source.kind = "legacy" => PlanMigration(MigrationRequest(n)) # None

(* Runs that share a journal would write the same generation from the same  *)
(* sources for the same adapters: a retry never finishes another's work.    *)
Work(n) == [generation |-> n.generation,
            files |-> {<<n.source.files[i].path, n.source.files[i].bytes>> :
                         i \in DOMAIN n.source.files},
            adapters |-> {<<n.adapters[i].id, n.adapters[i].projection>> :
                            i \in DOMAIN n.adapters}]

OneWork == Cardinality({Work(n) : n \in drivers}) <= 1
=============================================================================
