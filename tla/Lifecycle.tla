------------------------------ MODULE Lifecycle ------------------------------
(***************************************************************************)
(* The lifecycle of an installation: cli/src/pactile/lifecycle/            *)
(* orchestrator.ts and command-runner.ts, the stores they write            *)
(* (runtime/stores.ts), the exit service (exit/service.ts), and the        *)
(* commands of init.ts and update.ts that drive them, run by several       *)
(* processes on one project directory.                                     *)
(*                                                                         *)
(* A generation is the tree of canonical files a command wants: the        *)
(* content, and the platforms it is composed for (composition.json).  Its  *)
(* id is the digest of both, so here it is the pair itself.  A transaction *)
(* is named by its operation, its source, its generation and its platforms *)
(* and keeps its journal under that name.  One projection of an adapter is *)
(* one step here, the journal it may leave behind included; the inside of  *)
(* a projection is module Projection.  A crash, and any error the code     *)
(* throws out of a transaction, leave the same files: the process is gone  *)
(* and everything it wrote stays.                                          *)
(***************************************************************************)
EXTENDS MigrationJournal, SequencesExt

CONSTANTS
  Order,        \* the adapters in lexical order
  Contents,     \* the canonical contents a command can ask for
  Torn,         \* the live view a crash leaves in the middle of a replacement
  Procs,        \* processes that run commands
  MaxCommands, MaxCrashes, MaxFailures

ASSUME OrderAssumption ==
  /\ Order \in Seq(Adapters) /\ {Order[i] : i \in DOMAIN Order} = Adapters
  /\ Torn \notin Contents /\ None \notin Adapters \cup Journals
  /\ MaxCommands \in Nat /\ MaxCrashes \in Nat /\ MaxFailures \in Nat

VARIABLES
  install,      \* install-state.json, or None
  journals,     \* the journals on disk, by transaction
  gens,         \* the generation directories: absent, staging or sealed
  live,         \* the content of the live canonical view
  host,         \* the projections, the ledger's generation, a projection journal
  run,          \* what each process is doing
  spent         \* commands begun, crashes and failures so far

vars == <<install, journals, gens, live, host, run, spent>>

Gens == (Contents \cup {Torn}) \X SUBSET Adapters
Content(gen) == gen[1]

(* The names of transactions, an install state and the projections.         *)
Ids == [op : {"init", "update", "reconcile", "rollback"}, gen : Gens,
        platforms : SUBSET Adapters, source : Gens \cup {None}]

Installed ==
  [gen : Gens, id : Ids, at : Nat,
   adapters : [Adapters -> [status : {"absent", "degraded", "active", "detached"},
                            fp     : Gens \cup {None}]]]

Hosts == [on : [Adapters -> Gens \cup {None}], ledger : Gens \cup {None},
          pending : [adapter : Adapters, gen : Gens \cup {None}, ledger : Gens \cup {None}]
                      \cup {None}]

(* What planDetach saw, and left: the host and the install state.           *)
Detachments == [host : Hosts, inst : Installed]

ASSUME MarksAssumption == None \notin Installed \cup Detachments

(* What a process is in the middle of: a transaction, the reconcile that is *)
(* to follow a rollback, or a detach.                                       *)
TransactionSteps ==
  {"open", "revisit", "refresh", "reopen", "advance", "seal", "staged", "activated",
   "advanced", "resume", "materialize", "reconcile", "attempt", "record", "complete"}

Transactions ==
  [step : TransactionSteps, id : Ids,
   expected : Installed \cup {None}, at : Nat, replaces : BOOLEAN,
   snap : Journals \cup {None}, needed : (SUBSET Adapters) \cup {None},
   inst : Installed \cup {None}, ok : BOOLEAN]

Follows == [step : {"follow"}, gen : Gens, platforms : SUBSET Adapters, at : Nat]

Leavings == [step : {"plan", "remove", "removed"}, left : SUBSET Adapters, all : BOOLEAN,
             saw : Detachments \cup {None}, at : Nat]

Idle == [step |-> "idle"]

TypeOK ==
  /\ install \in Installed \cup {None}
  /\ DOMAIN journals \subseteq Ids /\ journals \in [DOMAIN journals -> Journals]
  /\ gens \in [Gens -> {"absent", "staging", "sealed"}]
  /\ live \in Contents \cup {Torn, None}
  /\ host \in Hosts
  /\ run \in [Procs -> Transactions \cup Follows \cup Leavings \cup {Idle}]
  /\ spent \in [commands : Nat, crashes : Nat, failures : Nat]

Busy(p) == run[p].step # "idle"

Journal(id) == IF id \in DOMAIN journals THEN journals[id] ELSE None

(* The adapters of the install state that an update carries over.           *)
ActiveOf(inst) == IF inst = None THEN {}
                  ELSE {a \in Adapters : inst.adapters[a].status = "active"}

Attached(inst) == {a \in Adapters : inst.adapters[a].status \in {"active", "degraded"}}

NoAdapter == [status |-> "absent", fp |-> None]

(* verifyAdapterState: the host holds what the recorded receipt projected.  *)
Projected(a, fp) == fp # None /\ host.on[a] = fp

AlreadyCommitted(inst, id) == inst # None /\ inst.gen = id.gen /\ inst.id = id

Init ==
  /\ install = None
  /\ journals = [i \in {} |-> None]
  /\ gens = [g \in Gens |-> "absent"]
  /\ live = None
  /\ host = [on |-> [a \in Adapters |-> None], ledger |-> None, pending |-> None]
  /\ run = [p \in Procs |-> Idle]
  /\ spent = [commands |-> 0, crashes |-> 0, failures |-> 0]

-----------------------------------------------------------------------------
(* Commands.                                                                *)

(* runLifecycleCommand reads the install state once, and names the          *)
(* transaction by what it reads.  `kept' is what materializeCanonical is    *)
(* given: without it the live view is not replaced.                         *)
Transaction(op, gen, platforms, replaces) ==
  [step     |-> "open",
   id       |-> [op |-> op, gen |-> gen, platforms |-> platforms,
                 source |-> IF op = "init" THEN None ELSE install.gen],
   expected |-> install,
   at       |-> spent.commands + 1,
   replaces |-> replaces,
   snap     |-> None,
   needed   |-> None,
   inst     |-> None,
   ok       |-> FALSE]

CanBegin(p) == ~Busy(p) /\ spent.commands < MaxCommands

Begin(p, r) ==
  /\ run' = [run EXCEPT ![p] = r]
  /\ spent' = [spent EXCEPT !.commands = @ + 1]

(* `pactile init': the first install, or a full re-initialization on the    *)
(* platforms the user names.                                                *)
Initialize(p, content, platforms) ==
  /\ CanBegin(p)
  /\ Begin(p, Transaction(IF install = None THEN "init" ELSE "update",
                          <<content, platforms>>, platforms, TRUE))
  /\ UNCHANGED <<install, journals, gens, live, host>>

(* `pactile update': to another version, on the adapters that are active.   *)
Update(p, content) ==
  /\ CanBegin(p) /\ install # None
  /\ LET platforms == ActiveOf(install) IN
       Begin(p, Transaction("update", <<content, platforms>>, platforms, TRUE))
  /\ UNCHANGED <<install, journals, gens, live, host>>

(* `pactile init' on an installed project adds a platform: the live view,   *)
(* as it is, is composed for the active platforms and the new one.          *)
AddPlatform(p, a) ==
  /\ CanBegin(p) /\ install # None /\ live # None /\ a \notin ActiveOf(install)
  /\ LET platforms == ActiveOf(install) \cup {a} IN
       Begin(p, Transaction("reconcile", <<live, platforms>>, platforms, FALSE))
  /\ UNCHANGED <<install, journals, gens, live, host>>

-----------------------------------------------------------------------------
(* The transaction.  Every write of the journal is a compare-and-swap on    *)
(* the journal the transaction last saw, and is refused if it would not     *)
(* parse; a refusal throws and the transaction ends where it is.            *)
End(p) == run' = [run EXCEPT ![p] = Idle]

At(p, step) == run[p].step = step

To(p, step) == run' = [run EXCEPT ![p].step = step]

Accepts(r, next) == Parses(next) /\ Journal(r.id) = r.snap

SetJournal(id, j) ==
  journals' = [i \in DOMAIN journals \cup {id} |-> IF i = id THEN j ELSE journals[i]]

Write(p, next, step) ==
  LET r == run[p] IN
  IF Accepts(r, next)
    THEN /\ SetJournal(r.id, next)
         /\ run' = [run EXCEPT ![p] = [r EXCEPT !.snap = next, !.step = step]]
    ELSE UNCHANGED journals /\ End(p)

StepAfterOpen(state) == CASE state = "completed"  -> "revisit"
                          [] state \in OpenStates -> "advance"
                          [] OTHER                -> "resume"

Open(p) ==
  LET r == run[p]
      found == Journal(r.id)
      snap  == IF found = None THEN NewJournal(r.id.platforms) ELSE found
  IN /\ At(p, "open")
     /\ IF found = None THEN SetJournal(r.id, snap) ELSE UNCHANGED journals
     /\ run' = [run EXCEPT ![p] =
                  [r EXCEPT !.snap = snap, !.step = StepAfterOpen(snap.state)]]
     /\ UNCHANGED <<install, gens, live, host, spent>>

(* adaptersNeedingReconcile, from the install state and the journal.        *)
Needed(r, inst) ==
  {a \in r.id.platforms :
     \/ ~AlreadyCommitted(inst, r.id)
     \/ r.snap.status[a] # "succeeded"
     \/ inst.adapters[a].status # "active"
     \/ ~Projected(a, inst.adapters[a].fp)}

(* commitInstallState: the canonical commit point.                          *)
MayCommit(r) ==
  \/ AlreadyCommitted(install, r.id)
  \/ /\ r.id.op = "init" => install = None
     /\ r.id.op # "init" => install # None /\ install.gen = r.id.source
     /\ install = r.expected
     /\ gens[r.id.gen] = "sealed"

\* Mutant: the adapters keep the status they had.
PendingInstallKeeps(r) ==
  IF AlreadyCommitted(install, r.id) THEN install
  ELSE [gen |-> r.id.gen, id |-> r.id, at |-> r.at,
        adapters |-> [a \in Adapters |->
           IF install # None THEN install.adapters[a]
           ELSE IF a \in r.id.platforms THEN [NoAdapter EXCEPT !.status = "degraded"]
           ELSE NoAdapter]]

PendingInstall(r) ==
  IF AlreadyCommitted(install, r.id) THEN install
  ELSE LET old == IF install = None THEN [a \in Adapters |-> NoAdapter]
                  ELSE install.adapters
       IN [gen |-> r.id.gen, id |-> r.id, at |-> r.at,
           adapters |-> [a \in Adapters |->
                           IF a \in r.id.platforms
                             THEN [old[a] EXCEPT !.status = "degraded"]
                             ELSE old[a]]]

(* A journal that is completed: either nothing is left to do, or the        *)
(* generation is activated again and the adapters that need it are redone.  *)
Revisit(p) ==
  LET r == run[p]
      needed == Needed(r, install)
      done   == AlreadyCommitted(install, r.id) /\ needed = {}
  IN /\ At(p, "revisit")
     /\ IF gens[r.id.gen] # "sealed" \/ install = None \/ (~done /\ ~MayCommit(r))
          THEN End(p) /\ UNCHANGED install
          ELSE /\ install' = IF done THEN install ELSE PendingInstall(r)
               /\ run' = [run EXCEPT ![p] =
                            [r EXCEPT !.needed = needed, !.inst = install',
                                      !.step = IF done THEN "refresh" ELSE "reopen"]]
     /\ UNCHANGED <<journals, gens, live, host, spent>>

Refresh(p) ==
  /\ At(p, "refresh")
  /\ live' = IF run[p].replaces THEN Content(run[p].id.gen) ELSE live
  /\ End(p)
  /\ UNCHANGED <<install, journals, gens, host, spent>>

Reopen(p) ==
  /\ At(p, "reopen")
  /\ Write(p, [run[p].snap EXCEPT !.state = "committed"], "resume")
  /\ UNCHANGED <<install, gens, live, host, spent>>

(* advanceCanonical, one durable write at a time.                           *)
Advancing(p, state) == At(p, "advance") /\ run[p].snap.state = state

BackUp(p) ==
  /\ Advancing(p, "planned")
  /\ Write(p, Appended(run[p].snap, "backed-up", "backup", None), "advance")
  /\ UNCHANGED <<install, gens, live, host, spent>>

(* ensureGeneration: a directory that is there and not sealed is refused    *)
(* whoever left it; the source's own generation is only verified.           *)
Stage(p) ==
  LET g == run[p].id.gen IN
  /\ Advancing(p, "backed-up")
  /\ IF gens[g] = "absent" /\ g # run[p].id.source
       THEN gens' = [gens EXCEPT ![g] = "staging"] /\ To(p, "seal")
       ELSE /\ UNCHANGED gens
            /\ IF gens[g] = "sealed" THEN To(p, "staged") ELSE End(p)
  /\ UNCHANGED <<install, journals, live, host, spent>>

Seal(p) ==
  /\ At(p, "seal")
  /\ gens' = [gens EXCEPT ![run[p].id.gen] = "sealed"]
  /\ To(p, "staged")
  /\ UNCHANGED <<install, journals, live, host, spent>>

RecordStaged(p) ==
  /\ At(p, "staged")
  /\ Write(p, Appended(run[p].snap, "staged", "stage", None), "advance")
  /\ UNCHANGED <<install, gens, live, host, spent>>

Validate(p) ==
  /\ Advancing(p, "staged")
  /\ IF gens[run[p].id.gen] = "sealed"
       THEN Write(p, Appended(run[p].snap, "validated", "validated", None), "advance")
       ELSE End(p) /\ UNCHANGED journals
  /\ UNCHANGED <<install, gens, live, host, spent>>

Activate(p) ==
  /\ Advancing(p, "validated")
  /\ IF MayCommit(run[p])
       THEN install' = PendingInstall(run[p]) /\ To(p, "activated")
       ELSE UNCHANGED install /\ End(p)
  /\ UNCHANGED <<journals, gens, live, host, spent>>

RecordCommit(p) ==
  /\ At(p, "activated")
  /\ Write(p, Committed(run[p].snap), "advanced")
  /\ UNCHANGED <<install, gens, live, host, spent>>

(* The last check of advanceCanonical, against what is on disk now.         *)
Advanced(p) ==
  LET r == run[p] IN
  /\ At(p, "advanced")
  /\ IF gens[r.id.gen] = "sealed" /\ install # None /\ install.gen = r.id.gen
       THEN run' = [run EXCEPT ![p] = [r EXCEPT !.inst = install,
                                                !.step = "materialize"]]
       ELSE End(p)
  /\ UNCHANGED <<install, journals, gens, live, host, spent>>

(* A journal that was already committed skips advanceCanonical: only the    *)
(* seal is verified, and that there is an install state.                    *)
Resume(p) ==
  LET r == run[p] IN
  /\ At(p, "resume")
  /\ IF gens[r.id.gen] = "sealed" /\ install # None
       THEN run' = [run EXCEPT ![p] = [r EXCEPT !.inst = install,
                                                !.step = "materialize"]]
       ELSE End(p)
  /\ UNCHANGED <<install, journals, gens, live, host, spent>>

Materialize(p) ==
  LET r == run[p] IN
  /\ At(p, "materialize")
  /\ live' = IF r.replaces THEN Content(r.id.gen) ELSE live
  /\ run' = [run EXCEPT ![p] =
               [r EXCEPT !.step = "reconcile",
                         !.needed = IF @ = None THEN Needed(r, r.inst) ELSE @]]
  /\ UNCHANGED <<install, journals, gens, host, spent>>

-----------------------------------------------------------------------------
(* The adapters, one after the other.                                       *)
NextAdapter(r) == Order[CHOOSE i \in DOMAIN Order :
                          /\ Order[i] \in r.needed
                          /\ \A k \in 1 .. i - 1 : Order[k] \notin r.needed]

Reconciling(p) == At(p, "reconcile") /\ run[p].needed # {}

(* An attempt the last run of this transaction began and never ended.       *)
LeftOpen(p) == run[p].snap.status[NextAdapter(run[p])] = "in-progress"

FailInterrupted(p) ==
  /\ Reconciling(p) /\ LeftOpen(p)
  /\ Write(p, Failed(run[p].snap, NextAdapter(run[p])), "reconcile")
  /\ UNCHANGED <<install, gens, live, host, spent>>

StartAttempt(p) ==
  /\ Reconciling(p) /\ ~LeftOpen(p)
  /\ Write(p, Started(run[p].snap, NextAdapter(run[p])), "attempt")
  /\ UNCHANGED <<install, gens, live, host, spent>>

(* ProjectionStore.recover rolls a pending projection forward.              *)
Recovered ==
  IF host.pending = None THEN host
  ELSE [on |-> [host.on EXCEPT ![host.pending.adapter] = host.pending.gen],
        ledger |-> host.pending.ledger, pending |-> None]

Apply(h, a, gen, ledger) ==
  [h EXCEPT !.on[a] = gen, !.ledger = ledger, !.pending = None]

Attempt(p) ==
  LET r == run[p]
      a == NextAdapter(r)
  IN /\ At(p, "attempt")
     /\ host' = Apply(Recovered, a, r.id.gen, r.id.gen)
     /\ run' = [run EXCEPT ![p] = [r EXCEPT !.ok = TRUE, !.step = "record"]]
     /\ UNCHANGED <<install, journals, gens, live, spent>>

(* The projection fails: before it writes anything, before its recovery of  *)
(* an earlier one, or in the middle of it.                                  *)
AttemptFails(p) ==
  LET r == run[p]
      a == NextAdapter(r)
  IN /\ At(p, "attempt") /\ spent.failures < MaxFailures
     /\ \/ UNCHANGED host
        \/ host' = Recovered
        \/ host' = [Recovered EXCEPT !.pending =
                      [adapter |-> a, gen |-> r.id.gen, ledger |-> r.id.gen]]
     /\ run' = [run EXCEPT ![p] = [r EXCEPT !.ok = FALSE, !.step = "record"]]
     /\ spent' = [spent EXCEPT !.failures = @ + 1]
     /\ UNCHANGED <<install, journals, gens, live>>

Record(p) ==
  LET r == run[p]
      a == NextAdapter(r)
      next == IF r.ok THEN Succeeded(r.snap, a) ELSE Failed(r.snap, a)
  IN /\ At(p, "record")
     /\ IF Accepts(r, next)
          THEN /\ SetJournal(r.id, next)
               /\ run' = [run EXCEPT ![p] = [r EXCEPT !.snap = next,
                            !.needed = @ \ {a}, !.step = "reconcile"]]
          ELSE UNCHANGED journals /\ End(p)
     /\ UNCHANGED <<install, gens, live, host, spent>>

(* finalizeInstallState: it reads the install state again and swaps what it *)
(* has just read, if that still names this transaction.                     *)
Finalized(r) ==
  [install EXCEPT !.at = r.at,
     !.adapters = [a \in Adapters |->
       IF a \in r.id.platforms
         THEN [status |-> IF r.snap.status[a] = "succeeded" THEN "active" ELSE "degraded",
               fp |-> IF EverSucceeded(r.snap, a) THEN r.id.gen ELSE install.adapters[a].fp]
         ELSE install.adapters[a]]]

Finalize(p) ==
  LET r == run[p] IN
  /\ At(p, "reconcile") /\ r.needed = {}
  /\ IF AlreadyCommitted(install, r.id)
       THEN /\ install' = Finalized(r)
            /\ IF AllSucceeded(r.snap) THEN To(p, "complete") ELSE End(p)
       ELSE UNCHANGED install /\ End(p)
  /\ UNCHANGED <<journals, gens, live, host, spent>>

Complete(p) ==
  /\ At(p, "complete")
  /\ LET next == Completed(run[p].snap) IN
       IF Accepts(run[p], next) THEN SetJournal(run[p].id, next) ELSE UNCHANGED journals
  /\ End(p)
  /\ UNCHANGED <<install, gens, live, host, spent>>

-----------------------------------------------------------------------------
(* The exit service.                                                        *)

(* Rollback: the pointer is swapped to a sealed generation at once, under a *)
(* journal id of its own; the adapters follow in a reconcile transaction.   *)
Rollback(p, gen) ==
  /\ CanBegin(p) /\ install # None /\ gens[gen] = "sealed" /\ gen # install.gen
  /\ install' =
       [gen |-> gen, at |-> spent.commands + 1,
        id |-> [op |-> "rollback", gen |-> gen, source |-> install.gen, platforms |-> {}],
        adapters |-> [a \in Adapters |->
           IF a \in Attached(install) THEN [install.adapters[a] EXCEPT !.status = "degraded"]
           ELSE install.adapters[a]]]
  /\ Begin(p, [step |-> "follow", gen |-> gen, platforms |-> Attached(install),
               at |-> spent.commands + 1])
  /\ UNCHANGED <<journals, gens, live, host>>

Follow(p) ==
  LET r == run[p] IN
  /\ At(p, "follow")
  /\ IF r.platforms = {}
       THEN live' = Content(r.gen) /\ End(p)
       ELSE /\ UNCHANGED live
            /\ run' = [run EXCEPT ![p] =
                 [Transaction("reconcile", r.gen, r.platforms, TRUE) EXCEPT !.at = r.at]]
  /\ UNCHANGED <<install, journals, gens, host, spent>>

(* On the generation that is already active, only the view is repaired.     *)
Repair(p) ==
  /\ CanBegin(p) /\ install # None
  /\ live' = Content(install.gen)
  /\ spent' = [spent EXCEPT !.commands = @ + 1]
  /\ UNCHANGED <<install, journals, gens, host, run>>

(* Detach one adapter, or uninstall them all, each in its turn.             *)
Leave(p, adapters, all) ==
  /\ CanBegin(p) /\ install # None /\ adapters # {}
  /\ \A a \in adapters : install.adapters[a].status # "absent"
  /\ Begin(p, [step |-> "plan", left |-> adapters, all |-> all, saw |-> None,
               at |-> spent.commands + 1])
  /\ UNCHANGED <<install, journals, gens, live, host>>

FirstOf(set) == Order[CHOOSE i \in DOMAIN Order :
                        Order[i] \in set /\ \A k \in 1 .. i - 1 : Order[k] \notin set]

SetStatus(a, status, fp, at) ==
  [install EXCEPT !.at = at, !.adapters[a] = [status |-> status, fp |-> fp]]

(* planDetach and the first swap of applyDetach.                            *)
PlanDetach(p) ==
  LET r == run[p]
      a == FirstOf(r.left)
  IN /\ At(p, "plan") /\ r.left # {}
     /\ IF /\ install # None /\ install.adapters[a].status # "absent"
           /\ host.ledger = install.gen /\ host.pending = None
          THEN /\ install' = SetStatus(a, "degraded", install.adapters[a].fp, r.at)
               /\ run' = [run EXCEPT ![p] = [r EXCEPT !.step = "remove",
                                               !.saw = [host |-> host, inst |-> install']]]
          ELSE UNCHANGED install /\ End(p)
     /\ UNCHANGED <<journals, gens, live, host, spent>>

RemoveProjection(p) ==
  LET r == run[p]
      a == FirstOf(r.left)
  IN /\ At(p, "remove")
     /\ IF host = r.saw.host
          THEN host' = Apply(host, a, None, host.ledger) /\ To(p, "removed")
          ELSE UNCHANGED host /\ End(p)
     /\ UNCHANGED <<install, journals, gens, live, spent>>

RecordDetach(p) ==
  LET r == run[p]
      a == FirstOf(r.left)
  IN /\ At(p, "removed")
     /\ IF install = r.saw.inst
          THEN /\ install' = SetStatus(a, "detached", None, r.at)
               /\ run' = [run EXCEPT ![p] = [r EXCEPT !.step = "plan", !.saw = None,
                                               !.left = @ \ {a}]]
          ELSE UNCHANGED install /\ End(p)
     /\ UNCHANGED <<journals, gens, live, host, spent>>

(* An uninstall ends by marking every adapter it then finds as detached.    *)
Left(p) ==
  LET r == run[p] IN
  /\ At(p, "plan") /\ r.left = {}
  /\ install' = IF install # None /\ r.all /\ Attached(install) # {}
       THEN [install EXCEPT !.at = r.at, !.adapters = [a \in Adapters |->
               IF @[a].status = "absent" THEN @[a] ELSE [@[a] EXCEPT !.status = "detached"]]]
       ELSE install
  /\ End(p)
  /\ UNCHANGED <<journals, gens, live, host, spent>>

-----------------------------------------------------------------------------
(* A crash: in the middle of a step too, where a step is more than one      *)
(* write to the disk.                                                       *)
Crash(p) ==
  /\ Busy(p) /\ spent.crashes < MaxCrashes
  /\ \/ UNCHANGED <<live, host>>
     \/ /\ At(p, "materialize") /\ run[p].replaces
        /\ live' = Torn /\ UNCHANGED host
     \/ /\ At(p, "attempt") /\ UNCHANGED live
        /\ host' = [Recovered EXCEPT !.pending =
             [adapter |-> NextAdapter(run[p]), gen |-> run[p].id.gen,
              ledger |-> run[p].id.gen]]
     \/ /\ At(p, "remove") /\ host = run[p].saw.host /\ UNCHANGED live
        /\ host' = [host EXCEPT !.pending =
             [adapter |-> FirstOf(run[p].left), gen |-> None, ledger |-> host.ledger]]
  /\ End(p)
  /\ spent' = [spent EXCEPT !.crashes = @ + 1]
  /\ UNCHANGED <<install, journals, gens>>

Command(p) ==
  \/ \E c \in Contents, s \in (SUBSET Adapters) \ {{}} : Initialize(p, c, s)
  \/ \E c \in Contents : Update(p, c)
  \/ \E a \in Adapters : AddPlatform(p, a)

Exit(p) ==
  \/ \E g \in Gens : Rollback(p, g)
  \/ Repair(p)
  \/ \E a \in Adapters : Leave(p, {a}, FALSE)
  \/ install # None /\ Leave(p, Attached(install), TRUE)

Step(p) ==
  \/ Open(p) \/ Revisit(p) \/ Refresh(p) \/ Reopen(p) \/ BackUp(p) \/ Stage(p)
  \/ Seal(p) \/ RecordStaged(p) \/ Validate(p) \/ Activate(p) \/ RecordCommit(p)
  \/ Advanced(p) \/ Resume(p) \/ Materialize(p) \/ FailInterrupted(p)
  \/ StartAttempt(p) \/ Attempt(p) \/ AttemptFails(p) \/ Record(p) \/ Finalize(p)
  \/ Complete(p) \/ Follow(p) \/ PlanDetach(p) \/ RemoveProjection(p)
  \/ RecordDetach(p) \/ Left(p)

Next == \E p \in Procs : Command(p) \/ Exit(p) \/ Step(p) \/ Crash(p)

Spec == Init /\ [][Next]_vars
-----------------------------------------------------------------------------
(* Properties.                                                              *)

(* What is installed was made durable first: its generation is sealed, and  *)
(* the transaction that activated it had staged and validated it in its     *)
(* journal (a rollback goes back to a generation that was).                 *)
ActiveSealed ==
  install # None =>
    /\ gens[install.gen] = "sealed"
    /\ install.id.op # "rollback" =>
         /\ install.id \in DOMAIN journals
         /\ {"stage", "validated"} \subseteq Kinds(journals[install.id])

(* An adapter is shown as active only if a transaction recorded that it     *)
(* projected the generation on record for it; and when it is one of the     *)
(* last transaction's, only if that very transaction did.                   *)
ActiveEarned ==
  \A a \in ActiveOf(install) :
    /\ \E id \in DOMAIN journals : /\ id.gen = install.adapters[a].fp
                                   /\ EverSucceeded(journals[id], a)
    /\ a \in install.id.platforms => EverSucceeded(journals[install.id], a)

(* The journals a process is about to write while it reconciles.            *)
Upcoming(p) ==
  LET r == run[p] IN
  CASE Reconciling(p) -> {IF LeftOpen(p) THEN Failed(r.snap, NextAdapter(r))
                          ELSE Started(r.snap, NextAdapter(r))}
    [] At(p, "record") -> {Succeeded(r.snap, NextAdapter(r)), Failed(r.snap, NextAdapter(r))}
    [] At(p, "complete") -> {Completed(r.snap)}
    [] OTHER -> {}

(* The parser stands in the way of a reconcile only where a crash left the  *)
(* attempt of another adapter open.                                         *)
RefusedOnlyOpen ==
  \A p \in Procs : \A j \in Upcoming(p) :
    \/ Parses(j)
    \/ \E b \in DOMAIN j.status \ {NextAdapter(run[p])} : j.status[b] = "in-progress"

(* docs/concepts/architecture.md asks for a receipt that can be retried     *)
(* when an adapter fails: what the retry writes must be accepted.           *)
RetryAccepted ==
  \A p \in Procs : \A j \in Upcoming(p) : Parses(j)

(* The history of a transaction is append-only: no event is lost or changed,*)
(* by two processes that retry the same transaction included.               *)
AppendOnly ==
  [][\A id \in DOMAIN journals :
       /\ id \in DOMAIN journals'
       /\ IsPrefix(journals[id].events, journals'[id].events)]_journals
=============================================================================
