------------------------------ MODULE Projection ----------------------------
(***************************************************************************)
(* The projection store. A run on behalf of an adapter reads the ledger    *)
(* and the host files, plans, inspects the plan, and applies it under a    *)
(* lock: it stages every file, commits by renaming a journal into place,   *)
(* and then installs step by step - host files, external claims, ledger,   *)
(* receipt. A later run rolls a journal it finds forward. Host files also  *)
(* belong to their user, who edits them at any time; the store writes a    *)
(* file in the same step in which it compares it (one cooperative writer). *)
(***************************************************************************)
EXTENDS Naturals, Sequences, FiniteSets

CONSTANTS
    Adapters,       \* the claimants
    Resources,      \* host files, each the target of one resource
    WholeFiles,     \* those projected as text: the region is the whole file
    Versions,       \* generated contents
    Absent, None, Edited,
    Order,          \* the resources in the order in which a plan lists them
    Assets,         \* external assets an adapter binds
    Targets,        \* the content, host files and assets a plan may be about
    InitialFiles,   \* what the user may have before Pactile comes
    NoLedger, Free,
    MaxPlans,       \* bound: plans built
    MaxEdits,       \* bound: changes the user makes
    MaxCrashes      \* bound: processes that die, or whose file system fails

ASSUME WholeAssumption == WholeFiles \subseteq Resources
ASSUME RegionAssumption == None \notin Versions /\ Edited \notin Versions /\ None # Edited

-----------------------------------------------------------------------------
(* What the planner decides about one file: a host file has a region Pactile  *)
(* may own and the bytes of others around it, and the ledger entry of the     *)
(* file remembers who claims it, what was there before and what Pactile       *)
(* wrote. The planner never takes more than its region.                       *)

\* The owned region of a file (None: not there, Edited: changed or unreadable)
\* and whether somebody else has bytes in the file.
Files == [own : Versions \cup {None, Edited}, foreign : BOOLEAN]
Hosts == Files \cup {Absent}
Empty == [own |-> None, foreign |-> FALSE]
Pure(v) == [own |-> v, foreign |-> FALSE]

ASSUME AbsentAssumption == Absent \notin Files

\* A merge needs the region to be as it was written last, or as it is wanted.
Mergeable(now, old, next) == (IF now = Absent THEN None ELSE now.own) \in {old, next}
Merged(now, next) == [IF now = Absent THEN Empty ELSE now EXCEPT !.own = next]

Entries == [origin : {"created", "adopted"}, claimants : SUBSET Adapters, preimage : Hosts,
            generated : Hosts, ref : Versions \cup {None}, current : Hosts,
            conflict : {"none", "modified"},
            disposition : {"no-op", "preserve-modified", "remove-generated"}]

\* The entry of a file nobody has claimed yet.
Fresh(now) ==
    [origin |-> IF now = Absent THEN "created" ELSE "adopted", claimants |-> {},
     preimage |-> now, generated |-> Absent, ref |-> None, current |-> now,
     conflict |-> "none", disposition |-> "no-op"]

Observed(entry, now) ==
    [entry EXCEPT !.current = now, !.conflict = "none", !.disposition = "no-op"]

\* What Pactile wrote is exactly the content it generated: no foreign bytes were
\* absorbed by a merge.
OnlyGenerated(entry) == entry.ref # None /\ entry.generated = Pure(entry.ref)

-----------------------------------------------------------------------------
(* Attach: ensure a whole file, merge a region. *)

Known(entry, now) == IF entry = None THEN Fresh(now) ELSE entry

\* No second claimant is attached to other content.
OthersAgree(entry, a, v) ==
    entry.claimants \subseteq {a} \/ entry.generated = Absent \/ entry.ref = v

MayWrite(resource, entry, a, v, now) ==
    /\ entry.origin = "created" /\ entry.generated # Absent => OnlyGenerated(entry)
    /\ OthersAgree(entry, a, v)
    /\ IF resource \in WholeFiles
       THEN \/ now \in {Absent, Pure(v)}
            \/ entry.origin = "created" /\ now = entry.generated /\ OnlyGenerated(entry)
       ELSE Mergeable(now, entry.ref, v)

Written(resource, now, v) == IF resource \in WholeFiles THEN Pure(v) ELSE Merged(now, v)

Attached(resource, entry, a, v, now) ==
    [Observed(entry, now) EXCEPT
        !.claimants = @ \cup {a}, !.generated = Written(resource, now, v),
        !.current = Written(resource, now, v), !.ref = v]

-----------------------------------------------------------------------------
(* Detach: release the claim; the last one to leave removes the file, if all  *)
(* of it was generated and nobody changed it since.                           *)

Modified(entry, now) == now # Absent /\ entry.generated # Absent /\ now # entry.generated

Removable(entry, a, now) ==
    /\ entry.claimants \subseteq {a} /\ entry.origin = "created"
    /\ now # Absent /\ now = entry.generated /\ OnlyGenerated(entry)

Detached(entry, a, now) ==
    LET left == [Observed(entry, now) EXCEPT !.claimants = @ \ {a}]
    IN  CASE Modified(entry, now) ->
                [left EXCEPT !.conflict = "modified", !.disposition = "preserve-modified"]
          [] Removable(entry, a, now) ->
                [left EXCEPT !.current = Absent, !.generated = Absent, !.ref = None]
          [] OTHER -> left

-----------------------------------------------------------------------------
(* The rules by which the ledger's own parser accepts an entry. *)

OriginAgrees(entry) ==
    /\ entry.origin = "created" => entry.preimage = Absent
    /\ entry.origin = "adopted" => entry.preimage # Absent

ConflictExplained(entry) ==
    entry.conflict = "modified" =>
        /\ entry.current # Absent /\ entry.generated # Absent
        /\ entry.current # entry.generated
        /\ entry.disposition = "preserve-modified"

DispositionAllowed(entry) ==
    /\ entry.disposition = "preserve-modified" => entry.conflict = "modified"
    /\ entry.disposition = "remove-generated" =>
          /\ entry.claimants = {} /\ entry.conflict = "none"
          /\ entry.current # Absent /\ entry.current = entry.generated

Parses(entry) == OriginAgrees(entry) /\ ConflictExplained(entry) /\ DispositionAllowed(entry)

-----------------------------------------------------------------------------
\* What a transaction writes, in this order: files first, the receipt that proves it last.
Targeted == Order \o <<"claims", "ledger", "receipt">>
Marks == {"claims", "ledger", "receipt"}

\* No journal on disk.
NoJournal == <<>>

Ledgers == [generation : Versions, stamp : Nat, entries : [Resources -> Entries \cup {None}]]

ASSUME OrderAssumption ==
    /\ Order \in Seq(Resources) /\ \A r \in Resources : \E i \in DOMAIN Order : Order[i] = r
    /\ Resources \cap Marks = {}
ASSUME MarkAssumption == None \notin Entries /\ NoLedger \notin Ledgers
ASSUME FreeAssumption == Free \notin [by : Adapters, alive : BOOLEAN]
ASSUME TargetAssumption == 
    Targets \subseteq [version : Versions, resources : SUBSET Resources, assets : SUBSET Assets]
ASSUME InitialAssumption == InitialFiles \subseteq [Resources -> Hosts]
ASSUME BoundsAssumption == MaxPlans \in Nat /\ MaxEdits \in Nat /\ MaxCrashes \in Nat

VARIABLES
    files,      \* host files
    ledger,     \* ownership-ledger.json
    claims,     \* external-claims.json
    receipts,   \* receipts/projection-*.json
    journal,    \* projection-transaction.json
    staged,     \* staged files of the journal, or of the transaction about to write it
    lock,       \* projection.lock: who made it, and whether that process is alive
    pc, work,   \* where the run of each adapter is, and its plan or preview, or how far it is
    spent,      \* plans, edits and crashes so far
    \* History, read by no guard:
    installed,  \* the receipt of each adapter's last attach
    touched     \* targets of the journal that the user changed since it was written

state == <<files, ledger, claims, receipts>>
store == <<state, journal, staged>>
history == <<installed, touched>>
vars == <<store, lock, pc, work, spent, history>>

Entry(led, r) == IF led = NoLedger THEN None ELSE led.entries[r]

-----------------------------------------------------------------------------
(* Plans and previews. *)

Ready(plan, r) ==
    LET entry == Entry(plan.ledger, r)
    IN  IF plan.action = "attach"
        THEN MayWrite(r, Known(entry, plan.seen[r]), plan.adapter, plan.version, plan.seen[r])
        ELSE entry # None

EntryAfter(plan, r) ==
    LET entry == Entry(plan.ledger, r) now == plan.seen[r]
    IN  IF r \notin plan.resources THEN entry
        ELSE IF plan.action = "attach"
             THEN Attached(r, Known(entry, now), plan.adapter, plan.version, now)
             ELSE Detached(entry, plan.adapter, now)

FileAfter(plan, r) ==
    IF plan.action = "attach" THEN Written(r, plan.seen[r], plan.version)
    ELSE IF Removable(Entry(plan.ledger, r), plan.adapter, plan.seen[r]) THEN Absent
    ELSE plan.seen[r]

\* A ledger that would only differ in its timestamp is kept as it is.
LedgerAfter(plan, stamp) ==
    LET next == [generation |-> plan.version, stamp |-> stamp,
                 entries |-> [r \in Resources |-> EntryAfter(plan, r)]]
    IN  IF plan.ledger # NoLedger /\ plan.ledger = [next EXCEPT !.stamp = plan.ledger.stamp]
        THEN plan.ledger ELSE next

\* reduceExternalBindingClaims: bind and detach of the plan's assets.
ClaimsAfter(plan, before) ==
    [x \in Assets |-> IF x \notin plan.assets THEN before[x]
                      ELSE IF plan.action = "attach" THEN before[x] \cup {plan.adapter}
                      ELSE before[x] \ {plan.adapter}]

ClaimedBy(a, claimed) == {x \in Assets : a \in claimed[x]}

ReceiptOf(preview) ==
    [plan |-> preview.plan, ledger |-> preview.ledger,
     claims |-> ClaimedBy(preview.plan.adapter, preview.claims)]

Moved(preview) == {r \in preview.plan.resources : FileAfter(preview.plan, r) # preview.plan.seen[r]}

\* What a transaction leaves at each of its targets, and what it expects there.
After(preview, t) ==
    CASE t = "claims" -> preview.claims
      [] t = "ledger" -> preview.ledger
      [] t = "receipt" -> ReceiptOf(preview)
      [] OTHER -> FileAfter(preview.plan, t)

Steps(preview, claimed, led) ==
    [t \in Moved(preview) \cup Marks |->
        [before |-> CASE t = "claims" -> claimed
                      [] t = "ledger" -> led
                      [] t = "receipt" -> Absent
                      [] OTHER -> preview.plan.seen[t],
         after |-> After(preview, t)]]

Current(t) ==
    CASE t = "claims" -> claims
      [] t = "ledger" -> ledger
      [] t = "receipt" -> IF journal[t].after \in receipts THEN journal[t].after ELSE Absent
      [] OTHER -> files[t]

\* The plan was built on what is there now.
Unmoved(plan) ==
    /\ ledger = plan.ledger
    /\ \A r \in plan.resources : files[r] = plan.seen[r]

\* Where a run has a preview of its plan, and where it has a journal to finish.
Previewed == {"inspected", "entered", "staged"}
Finishing == {"journalled", "finishing", "cleaned", "leaving"}

IsPlan(plan) ==
    /\ plan.adapter \in Adapters /\ plan.action \in {"attach", "detach"}
    /\ plan.version \in Versions /\ plan.assets \subseteq Assets
    /\ plan.resources \subseteq Resources /\ plan.seen \in [plan.resources -> Hosts]
    /\ plan.ledger \in Ledgers \cup {NoLedger}

IsPreview(preview) ==
    /\ IsPlan(preview.plan)
    /\ preview.ledger \in Ledgers
    /\ preview.claims \in [Assets -> SUBSET Adapters]

TypeOK ==
    /\ files \in [Resources -> Hosts]
    /\ ledger \in Ledgers \cup {NoLedger}
    /\ claims \in [Assets -> SUBSET Adapters]
    /\ lock \in [by : Adapters, alive : BOOLEAN] \cup {Free}
    /\ pc \in [Adapters -> {"idle", "planned"} \cup Previewed \cup Finishing]
    /\ spent \in [plans : Nat, edits : Nat, crashes : Nat]
    /\ touched \subseteq Resources
    /\ DOMAIN work = Adapters /\ DOMAIN installed = Adapters
    /\ \A a \in Adapters :
          /\ pc[a] = "planned" => IsPlan(work[a]) /\ work[a].adapter = a
          /\ pc[a] \in Previewed => IsPreview(work[a])
          /\ pc[a] = "finishing" => work[a] \in [past : SUBSET (Resources \cup Marks)]
          /\ installed[a] # None => IsPlan(installed[a].plan)
    /\ journal # NoJournal =>
          /\ Marks \subseteq DOMAIN journal /\ DOMAIN journal \subseteq Resources \cup Marks
          /\ IsPlan(journal["receipt"].after.plan)

Init ==
    /\ files \in InitialFiles
    /\ ledger = NoLedger
    /\ claims = [x \in Assets |-> {}]
    /\ receipts = {}
    /\ journal = NoJournal /\ staged = {}
    /\ lock = Free
    /\ pc = [a \in Adapters |-> "idle"]
    /\ work = [a \in Adapters |-> None]
    /\ spent = [plans |-> 0, edits |-> 0, crashes |-> 0]
    /\ installed = [a \in Adapters |-> None]
    /\ touched = {}

Go(a, step) == pc' = [pc EXCEPT ![a] = step]
Stop(a) == Go(a, "idle") /\ work' = [work EXCEPT ![a] = None]

-----------------------------------------------------------------------------
(* Before the lock. *)

\* The adapter's plan expects the ledger and the files it was built from.
BuildPlan(a) ==
    \E target \in Targets, action \in {"attach", "detach"} :
        /\ pc[a] = "idle" /\ spent.plans < MaxPlans
        /\ spent' = [spent EXCEPT !.plans = @ + 1]
        /\ work' = [work EXCEPT ![a] =
              [adapter |-> a, action |-> action, version |-> target.version,
               resources |-> target.resources, assets |-> target.assets, ledger |-> ledger,
               seen |-> [r \in target.resources |-> files[r]]]]
        /\ Go(a, "planned")
        /\ UNCHANGED <<store, lock, history>>

\* inspect: the planner accepts every operation, or none.
Inspect(a) ==
    /\ pc[a] = "planned" /\ journal = NoJournal
    /\ Unmoved(work[a])
    /\ \A r \in work[a].resources : Ready(work[a], r)
    /\ work' = [work EXCEPT ![a] =
          [plan |-> @, ledger |-> LedgerAfter(@, spent.plans), claims |-> ClaimsAfter(@, claims)]]
    /\ Go(a, "inspected")
    /\ UNCHANGED <<store, lock, spent, history>>

InspectRefuses(a) ==
    /\ pc[a] = "planned"
    /\ \/ journal # NoJournal
       \/ ~Unmoved(work[a])
       \/ \E r \in work[a].resources : ~Ready(work[a], r)
    /\ Stop(a)
    /\ UNCHANGED <<store, lock, spent, history>>

-----------------------------------------------------------------------------
(* apply, under the lock. *)

Holds(a) == lock # Free /\ lock.by = a /\ lock.alive

Lock(a, step) ==
    /\ lock = Free
    /\ lock' = [by |-> a, alive |-> TRUE]
    /\ Go(a, step)
    /\ UNCHANGED <<store, work, spent, history>>

Enter(a) == pc[a] = "inspected" /\ Lock(a, "entered")

\* The lock of a process that died is never taken over.
Busy(a) ==
    /\ pc[a] = "inspected" /\ lock # Free
    /\ Stop(a)
    /\ UNCHANGED <<store, lock, spent, history>>

Leave(a) == lock' = Free /\ Stop(a)

\* A receipt of this very plan: already applied, or in conflict with it.
Applied(a) == \E receipt \in receipts : receipt.plan = work[a].plan

Replay(a) ==
    /\ pc[a] = "entered" /\ journal = NoJournal /\ Applied(a)
    /\ Leave(a)
    /\ UNCHANGED <<store, spent, history>>

ApplyRefuses(a) ==
    /\ pc[a] = "entered"
    /\ journal # NoJournal \/ (~Applied(a) /\ ~Unmoved(work[a].plan))
    /\ Leave(a)
    /\ UNCHANGED <<store, spent, history>>

StageNames(steps) == {t \in DOMAIN steps : steps[t].after # Absent}

\* Mutant: the ledger and the files are not compared again under the lock.
StageUnchecked(a) ==
    /\ pc[a] = "entered" /\ journal = NoJournal /\ ~Applied(a)
    /\ staged' = StageNames(Steps(work[a], claims, ledger))
    /\ Go(a, "staged")
    /\ UNCHANGED <<state, journal, lock, work, spent, history>>

\* Every file with a content is staged beside its target.
Stage(a) ==
    /\ pc[a] = "entered" /\ journal = NoJournal /\ ~Applied(a)
    /\ Unmoved(work[a].plan)
    /\ staged' = StageNames(Steps(work[a], claims, ledger))
    /\ Go(a, "staged")
    /\ UNCHANGED <<state, journal, lock, work, spent, history>>

\* The commit point: the journal is renamed into place.
WriteJournal(a) ==
    /\ pc[a] = "staged"
    /\ \A r \in work[a].plan.resources : files[r] = work[a].plan.seen[r]
    /\ journal' = Steps(work[a], claims, ledger)
    /\ touched' = {}
    /\ Go(a, "journalled")
    /\ UNCHANGED <<state, staged, lock, work, spent, installed>>

\* projection-target-race: what was staged is removed.
TargetRace(a) ==
    /\ pc[a] = "staged"
    /\ \E r \in work[a].plan.resources : files[r] # work[a].plan.seen[r]
    /\ staged' = {}
    /\ Leave(a)
    /\ UNCHANGED <<state, journal, spent, history>>

-----------------------------------------------------------------------------
(* finish: the rest of a transaction, by its own run or by a later one. *)

Recover(a) == pc[a] = "idle" /\ journal # NoJournal /\ Lock(a, "journalled")

Installable(t) ==
    /\ Current(t) \in {journal[t].before, journal[t].after}
    /\ journal[t].after # Absent /\ Current(t) # journal[t].after => t \in staged

\* From here on a run remembers the targets it has been past.
Preflight(a) ==
    /\ pc[a] = "journalled"
    /\ \A t \in DOMAIN journal : Installable(t)
    /\ work' = [work EXCEPT ![a] = [past |-> {}]]
    /\ Go(a, "finishing")
    /\ UNCHANGED <<store, lock, spent, history>>

Ahead(a) == DOMAIN journal \ work[a].past
Place(t) == CHOOSE i \in DOMAIN Targeted : Targeted[i] = t
NextStep(a, t) == t \in Ahead(a) /\ \A u \in Ahead(a) : Place(t) <= Place(u)

\* A target that is what it should be is left alone.
Install(a) ==
    \E t \in Resources \cup Marks :
        /\ pc[a] = "finishing" /\ NextStep(a, t)
        /\ Installable(t)
        /\ files' = IF t \in Resources THEN [files EXCEPT ![t] = journal[t].after] ELSE files
        /\ claims' = IF t = "claims" THEN journal[t].after ELSE claims
        /\ ledger' = IF t = "ledger" THEN journal[t].after ELSE ledger
        /\ receipts' = IF t = "receipt" THEN receipts \cup {journal[t].after} ELSE receipts
        /\ staged' = IF Current(t) = journal[t].after THEN staged ELSE staged \ {t}
        /\ work' = [work EXCEPT ![a].past = @ \cup {t}]
        /\ UNCHANGED <<journal, lock, pc, spent, history>>

\* projection-recovery-cas, projection-stage-corrupt: the journal stays.
FinishRefuses(a) ==
    /\ \E t \in DOMAIN journal :
          /\ pc[a] = "journalled" \/ (pc[a] = "finishing" /\ NextStep(a, t))
          /\ ~Installable(t)
    /\ Leave(a)
    /\ UNCHANGED <<store, spent, history>>

\* Mutant: the journal is removed before the claims, the ledger and the receipt are installed.
CleanUpEarly(a) ==
    /\ pc[a] = "finishing" /\ Cardinality(Ahead(a)) <= 3
    /\ staged' = {}
    /\ Go(a, "cleaned")
    /\ UNCHANGED <<state, journal, lock, work, spent, history>>

\* Stages that were not needed are removed ...
CleanUp(a) ==
    /\ pc[a] = "finishing" /\ Ahead(a) = {}
    /\ staged' = {}
    /\ Go(a, "cleaned")
    /\ UNCHANGED <<state, journal, lock, work, spent, history>>

\* ... then the journal, then the lock.
RemoveJournal(a) ==
    /\ pc[a] = "cleaned"
    /\ journal' = NoJournal
    /\ LET receipt == journal["receipt"].after
       IN  installed' = [installed EXCEPT ![receipt.plan.adapter] =
                IF receipt.plan.action = "attach" THEN receipt ELSE None]
    /\ touched' = {}
    /\ Go(a, "leaving")
    /\ UNCHANGED <<state, staged, lock, work, spent>>

Unlock(a) ==
    /\ pc[a] = "leaving"
    /\ Leave(a)
    /\ UNCHANGED <<store, spent, history>>

-----------------------------------------------------------------------------
(* Everything else that happens. *)

\* A process dies: what it staged without a journal is garbage nobody reads, and
\* its lock stays until somebody removes it by hand.
Crash(a) ==
    /\ pc[a] # "idle" /\ spent.crashes < MaxCrashes
    /\ spent' = [spent EXCEPT !.crashes = @ + 1]
    /\ staged' = IF journal = NoJournal /\ Holds(a) THEN {} ELSE staged
    /\ lock' = IF Holds(a) THEN [lock EXCEPT !.alive = FALSE] ELSE lock
    /\ Stop(a)
    /\ UNCHANGED <<state, journal, history>>

RemoveDeadLock ==
    /\ lock # Free /\ ~lock.alive
    /\ lock' = Free
    /\ UNCHANGED <<store, pc, work, spent, history>>

\* Mutant: a failure after the commit point removes the stages too.
InterruptUnstages(a) ==
    /\ pc[a] \in {"staged", "journalled", "finishing", "cleaned"} /\ spent.crashes < MaxCrashes
    /\ spent' = [spent EXCEPT !.crashes = @ + 1]
    /\ staged' = {}
    /\ Leave(a)
    /\ UNCHANGED <<state, journal, history>>

\* A file operation throws: the finally blocks run.
Interrupt(a) ==
    /\ pc[a] \in {"staged", "journalled", "finishing", "cleaned"} /\ spent.crashes < MaxCrashes
    /\ spent' = [spent EXCEPT !.crashes = @ + 1]
    /\ staged' = IF pc[a] = "staged" THEN {} ELSE staged
    /\ Leave(a)
    /\ UNCHANGED <<state, journal, history>>

UserEdits(r) ==
    /\ spent.edits < MaxEdits
    /\ \/ files' = [files EXCEPT ![r] = Absent]
       \/ files' = [files EXCEPT ![r] = [IF @ = Absent THEN Empty ELSE @ EXCEPT !.foreign = TRUE]]
       \/ files[r] # Absent /\ files' = [files EXCEPT ![r].own = Edited]
    /\ files' # files
    /\ spent' = [spent EXCEPT !.edits = @ + 1]
    /\ touched' = IF r \in DOMAIN journal THEN touched \cup {r} ELSE touched
    /\ UNCHANGED <<ledger, claims, receipts, journal, staged, lock, pc, work, installed>>

Next ==
    \/ \E a \in Adapters :
        \/ BuildPlan(a) \/ Inspect(a) \/ InspectRefuses(a)
        \/ Enter(a) \/ Busy(a) \/ Replay(a) \/ ApplyRefuses(a)
        \/ Stage(a) \/ WriteJournal(a) \/ TargetRace(a)
        \/ Recover(a) \/ Preflight(a) \/ Install(a) \/ FinishRefuses(a)
        \/ CleanUp(a) \/ RemoveJournal(a) \/ Unlock(a)
        \/ Crash(a) \/ Interrupt(a)
    \/ RemoveDeadLock
    \/ \E r \in Resources : UserEdits(r)

Spec == Init /\ [][Next]_vars

-----------------------------------------------------------------------------
(* verifyAdapterState, of the receipt an adapter's last attach left. *)

ClaimsHold(a) == ClaimedBy(a, claims) = installed[a].claims

SurfacesHold(a) ==
    /\ \A r \in installed[a].plan.resources : Entry(ledger, r) # None /\ a \in Entry(ledger, r).claimants
    /\ \A r \in Resources :
          Entry(ledger, r) # None /\ a \in Entry(ledger, r).claimants => files[r] = Entry(ledger, r).current

Settled == journal = NoJournal /\ spent.edits = 0

-----------------------------------------------------------------------------
(* Properties. *)

\* A pending transaction can always be rolled forward, whatever was cut short, as
\* far as the user has not changed its targets.
RollsForward == \A t \in DOMAIN journal : t \notin touched => Installable(t)

\* What an adapter applied stays applied while its siblings attach, update and
\* detach: no drift of its files unless the user edits one.
SiblingsKeepSurfaces == Settled => \A a \in Adapters : installed[a] # None => SurfacesHold(a)

\* The doc of canonicalExternalClaimsForAdapter: a sibling that adds or releases its
\* own claimant does not change this adapter's projection.
SiblingsKeepClaims == Settled => \A a \in Adapters : installed[a] # None => ClaimsHold(a)

\* The journal is the commit point: from then on the transaction counts as done.
Due(r) == r \in DOMAIN journal /\ r \notin touched /\ files[r] = journal[r].before
FileNow(r) == IF Due(r) THEN journal[r].after ELSE files[r]
EntryNow(r) == Entry(IF journal = NoJournal THEN ledger ELSE journal["ledger"].after, r)

Atomic == INSTANCE AtomicProjection WITH
    files <- [r \in Resources |-> FileNow(r)], entries <- [r \in Resources |-> EntryNow(r)]

\* Host files and ledger change together; others' bytes and claimed files are kept.
ImplementsAtomic ==
    [][IF spent'.edits # spent.edits THEN Atomic!Edit ELSE Atomic!Commit]_<<files, ledger, journal>>
=============================================================================
