---------------------------- MODULE Update_proofs ----------------------------
(***************************************************************************)
(* Proofs about the update command: for any manifests, templates and paths *)
(* an update never takes what a user wrote, except where KeepsCustom says. *)
(*                                                                         *)
(* The argument is about the hashes: they only ever hold what a release    *)
(* shipped, so a file that equals its hash is not the user's. What was     *)
(* analysed as new or unmodified is therefore the user's own at the time   *)
(* it is written only if it changed in between, which is what late and     *)
(* brought record; and as no two entries meet at a path, what an entry     *)
(* takes along stands until this version's own file is written there.      *)
(*                                                                         *)
(* And about init, which the same run checks: for any legacy trees what is *)
(* named was sealed and what is published was committed (InstallInv), and  *)
(* for any templates and command lines a download writes and removes only  *)
(* where the user has no files, or where an overwrite was asked for        *)
(* (FetchInv).                                                             *)
(***************************************************************************)
EXTENDS MCUpdate, TLAPS

Fields == {"cli", "mode", "build", "queue", "later", "new", "auto", "changed",
           "hash", "retire", "writes", "agreed", "brought"}

Shape ==
    /\ DOMAIN files = Paths /\ DOMAIN hashes = Paths
    /\ spent \in [updates : Nat, edits : Nat, stops : Nat]
    /\ pc \in {"idle", "consent", "migrating", "resolving", "sealed", "live"}

\* A recorded hash is never that of the user's own content.
HashesReleased == \A p \in Paths : hashes[p] \notin Custom

Planned == pc # "idle" =>
    /\ DOMAIN work = Fields
    /\ work.cli \in Versions
    /\ \A q \in work.queue \cup work.later :
          q.item \in Items /\ ~Retires(q.item) /\ q.item.since <= work.cli
    /\ \A q \in work.queue : Inside(q.item)
    /\ \A item \in work.retire : item \in Items /\ Retires(item)
    /\ work.new \cup work.auto \cup work.changed \subseteq Shipped(work.cli)
    /\ work.writes \subseteq Live \cap Shipped(work.cli)
    /\ work.brought \subseteq Paths
    /\ work.writes \subseteq work.new \cup work.auto \cup work.agreed
    /\ pc \in {"consent", "migrating"} => work.writes = {}

\* The candidate.
Building == pc \in {"migrating", "resolving", "sealed"}

Built == Building =>
    /\ DOMAIN work.build = {"files", "hashes"}
    /\ DOMAIN work.build.files = Paths /\ DOMAIN work.build.hashes = Paths
    /\ \A p \in Paths : work.build.hashes[p] \notin Custom

\* What was analysed as new or unmodified is not the user's, unless it changed since.
Sure == pc # "idle" =>
    \A p \in work.new \cup work.auto :
        files[p] \in Custom /\ (pc = "live" => p \in Live) => p \in late \cup work.brought

IInv == Shape /\ HashesReleased /\ Planned /\ Built /\ Sure

-----------------------------------------------------------------------------
(* What a moved entry does to files and hashes. *)

LEMMA ItemPaths ==
    ASSUME NEW item \in Items
    PROVE  /\ Targets(item) \subseteq Paths /\ item.from \in Paths
           /\ IF Renames(item) THEN Targets(item) = {item.to} ELSE Targets(item) = {}
           /\ ~Inside(item) => Touched(item) \subseteq Live
  BY ItemsAssumption DEF Targets, Touched, Inside, Paths

\* No two entries meet at a path.
LEMMA ItemsApart ==
    ASSUME NEW a \in Items, NEW b \in Items
    PROVE  /\ b.from \notin Targets(a)
           /\ a # b => a.from # b.from /\ Targets(a) \cap Targets(b) = {}
  <1>1. PICK k, l \in DOMAIN Migrations : a = Migrations[k] /\ b = Migrations[l]
    BY DEF Items
  <1>2. Renames(a) => a.to # b.from
    BY <1>1, ApartAssumption
  <1>3. a # b => a.from # b.from /\ (Renames(a) => a.to # b.to)
    BY <1>1, ApartAssumption
  <1>. QED  BY <1>2, <1>3, ItemPaths

LEMMA CarryFrame ==
    ASSUME NEW item \in Items, NEW before, DOMAIN before = Paths
    PROVE  /\ DOMAIN Carry(item, before) = Paths
           /\ \A p \in Targets(item) : Carry(item, before)[p] = before[item.from]
           /\ item.from \notin Targets(item) => Carry(item, before)[item.from] = None
           /\ \A p \in Paths \ Touched(item) : Carry(item, before)[p] = before[p]
  BY ItemsAssumption DEF Carry, Targets, Touched

\* Outside the paths it names nothing moves, and no hash becomes the user's.
LEMMA RelocatedFrame ==
    ASSUME NEW item \in Items, NEW v,
           DOMAIN v.files = Paths, DOMAIN v.hashes = Paths,
           \A p \in Paths : v.hashes[p] \notin Custom
    PROVE  LET moved == Relocated(item, v) IN
           /\ DOMAIN moved = {"files", "hashes"}
           /\ DOMAIN moved.files = Paths /\ DOMAIN moved.hashes = Paths
           /\ \A p \in Paths \ Touched(item) : moved.files[p] = v.files[p]
           /\ \A p \in Targets(item) : moved.files[p] = v.files[item.from]
           /\ moved.files[item.from] = None
           /\ \A p \in Paths : moved.hashes[p] \notin Custom
  <1>1. \A p \in Paths : Carry(item, v.hashes)[p] \notin Custom
    BY ItemsAssumption, CustomAssumption DEF Carry, Targets
  <1>. QED  BY <1>1, CarryFrame, ItemsApart DEF Relocated

LEMMA FreshFrame ==
    ASSUME NEW cli \in Versions, NEW paths, NEW before,
           \A p \in Paths : before[p] \notin Custom
    PROVE  /\ DOMAIN Fresh(cli, paths, before) = Paths
           /\ \A p \in Paths : Fresh(cli, paths, before)[p] \notin Custom
  BY CustomAssumption DEF Fresh

-----------------------------------------------------------------------------
(* The invariant. *)

LEMMA InitInvariant == Init => IInv
  <1>. SUFFICES ASSUME Init PROVE IInv
    OBVIOUS
  <1>1. Shape
    BY DEF Init, Shape
  <1>2. \A p \in Paths : files[p] \notin Custom
    <2>. TAKE p \in Paths
    <2>1. CASE \E item \in Items : Retires(item) /\ p = item.from
      <3>. DEFINE item == CHOOSE i \in Items : Retires(i) /\ p = i.from
      <3>1. item \in Items /\ Retires(item)
        BY <2>1
      <3>2. files[p] = item.known
        BY <2>1 DEF Init
      <3>. QED  BY <3>1, <3>2, CustomAssumption
    <2>2. CASE ~\E item \in Items : Retires(item) /\ p = item.from
      BY <2>2, CustomAssumption DEF Init
    <2>. QED  BY <2>1, <2>2
  <1>. QED  BY <1>1, <1>2 DEF Init, IInv, HashesReleased, Planned, Built, Building, Sure

\* What an analysis decides. A candidate begins as a copy of the project.
LEMMA AnalyseOutcome ==
    ASSUME NEW cli, NEW migrate, NEW mode, Analyse(cli, migrate, mode)
    PROVE  /\ pc = "idle" /\ UNCHANGED <<view, gone, torn>> /\ late' = {}
           /\ spent' = [spent EXCEPT !.updates = @ + 1]
           /\ DOMAIN work' = Fields /\ work'.cli = cli
           /\ LET queue == IF migrate THEN Queue(Pending(cli), cli) ELSE {}
              IN  work'.queue = CanonicalOnly(queue) /\ work'.later = LiveOnly(queue)
           /\ work'.new = New(cli) /\ work'.auto = AutoUpdate(cli) /\ work'.changed = Changed(cli)
           /\ work'.hash = MissingHashes(cli) /\ work'.retire = SafeDeletes(cli)
           /\ work'.writes = {} /\ work'.agreed = {} /\ work'.brought = {}
           /\ \/ /\ pc' = "sealed"
                 /\ work'.build = [files |-> files,
                                   hashes |-> Fresh(cli, MissingHashes(cli), hashes)]
              \/ pc' = "consent"
              \/ pc' = "migrating" /\ work'.build = [files |-> files, hashes |-> hashes]
  <1>. DEFINE queue == IF migrate THEN Queue(Pending(cli), cli) ELSE {}
              plan == [cli |-> cli, mode |-> mode, build |-> None,
                       queue |-> CanonicalOnly(queue), later |-> LiveOnly(queue),
                       new |-> New(cli), auto |-> AutoUpdate(cli), changed |-> Changed(cli),
                       hash |-> MissingHashes(cli), retire |-> SafeDeletes(cli),
                       writes |-> {}, agreed |-> {}, brought |-> {}]
              built(h) == [plan EXCEPT !.build = [files |-> files, hashes |-> h]]
              filled == Fresh(cli, MissingHashes(cli), hashes)
  <1>1. /\ pc = "idle" /\ UNCHANGED <<view, gone, torn>> /\ late' = {}
        /\ spent' = [spent EXCEPT !.updates = @ + 1]
    BY DEF Analyse
  <1>2. \/ pc' = "sealed" /\ work' = built(filled)
        \/ pc' = "consent" /\ work' = plan
        \/ pc' = "migrating" /\ work' = built(hashes)
    BY Zenon DEF Analyse, Seeded
  <1>. HIDE DEF queue, filled
  <1>3. /\ DOMAIN work' = Fields /\ work'.cli = cli
        /\ work'.queue = CanonicalOnly(queue) /\ work'.later = LiveOnly(queue)
        /\ work'.new = New(cli) /\ work'.auto = AutoUpdate(cli) /\ work'.changed = Changed(cli)
        /\ work'.hash = MissingHashes(cli) /\ work'.retire = SafeDeletes(cli)
        /\ work'.writes = {} /\ work'.agreed = {} /\ work'.brought = {}
    BY <1>2 DEF Fields
  <1>4. \/ pc' = "sealed" /\ work'.build = [files |-> files, hashes |-> filled]
        \/ pc' = "consent"
        \/ pc' = "migrating" /\ work'.build = [files |-> files, hashes |-> hashes]
    BY <1>2
  <1>. QED  BY <1>1, <1>3, <1>4 DEF queue, filled

\* What an analysis calls new or unmodified is not the user's.
LEMMA AnalyseInvariant ==
    ASSUME IInv, NEW cli \in Versions, NEW migrate \in BOOLEAN,
           NEW mode \in {"ask", "force", "skip", "create-new"}, Analyse(cli, migrate, mode)
    PROVE  IInv'
  <1>. DEFINE filled == Fresh(cli, MissingHashes(cli), hashes)
              queue == IF migrate THEN Queue(Pending(cli), cli) ELSE {}
  <1>0. /\ UNCHANGED view /\ spent' = [spent EXCEPT !.updates = @ + 1]
        /\ DOMAIN work' = Fields /\ work'.cli = cli
        /\ work'.queue = CanonicalOnly(queue) /\ work'.later = LiveOnly(queue)
        /\ work'.new = New(cli) /\ work'.auto = AutoUpdate(cli) /\ work'.changed = Changed(cli)
        /\ work'.retire = SafeDeletes(cli)
        /\ work'.writes = {} /\ work'.brought = {}
        /\ \/ pc' = "sealed" /\ work'.build = [files |-> files, hashes |-> filled]
           \/ pc' = "consent"
           \/ pc' = "migrating" /\ work'.build = [files |-> files, hashes |-> hashes]
    BY AnalyseOutcome
  <1>1. /\ \A q \in work'.queue \cup work'.later :
              q.item \in Items /\ ~Retires(q.item) /\ q.item.since <= cli
        /\ \A q \in work'.queue : Inside(q.item)
    BY <1>0 DEF Queue, Pending, Carried, CanonicalOnly, LiveOnly, Items
  <1>2. \A item \in SafeDeletes(cli) : item \in Items /\ Retires(item)
    BY DEF SafeDeletes, Carried, Items
  <1>3. \A p \in New(cli) \cup AutoUpdate(cli) : files[p] \notin Custom
    BY CustomAssumption DEF New, AutoUpdate, Differing, Shipped, IInv, HashesReleased
  <1>4. DOMAIN filled = Paths /\ \A p \in Paths : filled[p] \notin Custom
    BY FreshFrame DEF IInv, HashesReleased
  <1>. HIDE DEF filled, queue
  <1>5. Shape' /\ HashesReleased'
    BY <1>0 DEF IInv, Shape, HashesReleased, view
  <1>6. Planned'
    <2>1. New(cli) \cup AutoUpdate(cli) \cup Changed(cli) \subseteq Shipped(cli)
      BY DEF New, AutoUpdate, Changed, Differing
    <2>. QED  BY <1>0, <1>1, <1>2, <2>1 DEF Planned, Shipped
  <1>7. Built'
    BY <1>0, <1>4 DEF Built, Building, IInv, Shape, HashesReleased, view
  <1>8. Sure'
    BY <1>0, <1>3 DEF Sure, view
  <1>. QED  BY <1>5, <1>6, <1>7, <1>8 DEF IInv

\* The command waited for consent; the user may have changed files meanwhile.
LEMMA ProceedInvariant ==
    ASSUME IInv, Proceed
    PROVE  IInv'
  <1>1. work' = [work EXCEPT !.build = [files |-> files, hashes |-> hashes]] /\ pc' = "migrating"
        /\ pc = "consent" /\ UNCHANGED <<view, spent, history>>
    BY DEF Proceed, Seeded
  <1>2. DOMAIN work = Fields
    BY <1>1 DEF IInv, Planned
  <1>3. work'.build = [files |-> files, hashes |-> hashes]
    BY <1>1, <1>2 DEF Fields
  <1>4. /\ DOMAIN work' = Fields /\ work'.cli = work.cli /\ work'.queue = work.queue
        /\ work'.later = work.later /\ work'.retire = work.retire /\ work'.writes = work.writes
        /\ work'.new = work.new /\ work'.auto = work.auto
        /\ work'.changed = work.changed /\ work'.agreed = work.agreed
        /\ work'.brought = work.brought
    BY <1>1, <1>2 DEF Fields
  <1>5. Shape' /\ HashesReleased'
    BY <1>1 DEF IInv, Shape, HashesReleased, view
  <1>6. Planned' /\ Sure'
    BY <1>1, <1>4 DEF IInv, Planned, Sure, view, history
  <1>7. Built'
    BY <1>1, <1>3 DEF IInv, Built, Shape, HashesReleased, view
  <1>. QED  BY <1>5, <1>6, <1>7 DEF IInv

\* The candidate's own entries, or nothing of the plan but its end.
LEMMA MigrateCanonicalInvariant ==
    ASSUME IInv, MigrateCanonical
    PROVE  IInv'
  <1>1. /\ pc = "migrating" /\ UNCHANGED <<view, spent, history>>
        /\ DOMAIN work = Fields /\ DOMAIN work.build = {"files", "hashes"}
        /\ DOMAIN work.build.files = Paths /\ DOMAIN work.build.hashes = Paths
        /\ \A p \in Paths : work.build.hashes[p] \notin Custom
    BY DEF MigrateCanonical, IInv, Planned, Built, Building
  <1>2. PICK q \in work.queue :
            \/ pc' = pc /\ work' = [work EXCEPT !.queue = @ \ {q}]
            \/ /\ pc' = pc
               /\ work' = [work EXCEPT !.queue = @ \ {q}, !.build = Relocated(q.item, @),
                                       !.agreed = @ \cup Agreed(q), !.brought = @ \cup Targets(q.item)]
            \/ Stopped
    BY DEF MigrateCanonical, First
  <1>3. CASE Stopped
    BY <1>1, <1>3 DEF Stopped, IInv, Shape, HashesReleased, Planned, Built, Building, Sure, view
  <1>4. CASE pc' = pc /\ work' = [work EXCEPT !.queue = @ \ {q}]
    <2>1. /\ DOMAIN work' = Fields /\ work'.cli = work.cli /\ work'.queue = work.queue \ {q}
          /\ work'.later = work.later /\ work'.retire = work.retire /\ work'.writes = work.writes
          /\ work'.new = work.new /\ work'.auto = work.auto
          /\ work'.changed = work.changed /\ work'.agreed = work.agreed
          /\ work'.brought = work.brought /\ work'.build = work.build
      BY <1>1, <1>4 DEF Fields
    <2>. QED
      BY <1>1, <1>4, <2>1 DEF IInv, Shape, HashesReleased, Planned, Built, Building, Sure, view, history
  <1>5. CASE /\ pc' = pc
             /\ work' = [work EXCEPT !.queue = @ \ {q}, !.build = Relocated(q.item, @),
                                     !.agreed = @ \cup Agreed(q), !.brought = @ \cup Targets(q.item)]
    <2>1. /\ DOMAIN work' = Fields /\ work'.cli = work.cli /\ work'.queue = work.queue \ {q}
          /\ work'.later = work.later /\ work'.retire = work.retire /\ work'.writes = work.writes
          /\ work'.new = work.new /\ work'.auto = work.auto
          /\ work'.changed = work.changed
          /\ work'.agreed = work.agreed \cup Agreed(q)
          /\ work'.brought = work.brought \cup Targets(q.item)
          /\ work'.build = Relocated(q.item, work.build)
      BY <1>1, <1>5 DEF Fields
    <2>2. q.item \in Items
      BY <1>1 DEF IInv, Planned
    <2>3. /\ DOMAIN work'.build = {"files", "hashes"}
          /\ DOMAIN work'.build.files = Paths /\ DOMAIN work'.build.hashes = Paths
          /\ \A p \in Paths \ Touched(q.item) : work'.build.files[p] = work.build.files[p]
          /\ \A p \in Paths : work'.build.hashes[p] \notin Custom
      BY <1>1, <2>1, <2>2, RelocatedFrame
    <2>4. Built'
      BY <1>1, <1>5, <2>1, <2>3 DEF IInv, Built, Building, Paths, view, history
    <2>. QED
      BY <1>1, <1>5, <2>1, <2>2, <2>4, ItemPaths
      DEF IInv, Shape, HashesReleased, Planned, Sure, view, history
  <1>. QED  BY <1>2, <1>3, <1>4, <1>5

\* What was sure is written to the candidate.
LEMMA StageInvariant ==
    ASSUME IInv, Stage
    PROVE  IInv'
  <1>. DEFINE sure == work.new \cup work.auto
              dead == {p \in Canon : \E item \in work.retire :
                          p = item.from /\ work.build.files[p] \in item.allowed}
  <1>1. /\ pc = "migrating" /\ pc' = "resolving" /\ UNCHANGED <<view, spent, history>>
        /\ DOMAIN work = Fields /\ work.cli \in Versions
        /\ DOMAIN work.build = {"files", "hashes"}
        /\ DOMAIN work.build.files = Paths /\ DOMAIN work.build.hashes = Paths
        /\ \A p \in Paths : work.build.hashes[p] \notin Custom
    BY DEF Stage, IInv, Planned, Built, Building
  <1>2. /\ DOMAIN work' = Fields /\ work'.cli = work.cli /\ work'.queue = work.queue
        /\ work'.later = work.later /\ work'.retire = {item \in work.retire : ~Inside(item)}
        /\ work'.writes = sure \cap Live
        /\ work'.new = work.new /\ work'.auto = work.auto
        /\ work'.changed = work.changed /\ work'.agreed = work.agreed
        /\ work'.brought = work.brought
        /\ DOMAIN work'.build = {"files", "hashes"}
        /\ work'.build.files = [p \in Paths |-> IF p \in sure \cap Canon THEN Templates[work.cli][p]
                                                ELSE IF p \in dead THEN None ELSE work.build.files[p]]
        /\ work'.build.hashes = [p \in Paths |-> IF p \in dead THEN None ELSE work.build.hashes[p]]
    BY <1>1 DEF Stage, Fields
  <1>5. Built'
    BY <1>1, <1>2, CustomAssumption DEF Built, view, history
  <1>6. Planned' /\ Sure'
    BY <1>1, <1>2 DEF IInv, Planned, Sure, view, history
  <1>. QED  BY <1>1, <1>5, <1>6 DEF IInv, Shape, HashesReleased, view

\* Only what the user agreed to is added to the plan.
LEMMA ResolveConflictInvariant ==
    ASSUME IInv, ResolveConflict
    PROVE  IInv'
  <1>1. /\ pc = "resolving" /\ UNCHANGED <<view, pc, spent, history>>
        /\ DOMAIN work = Fields /\ work.cli \in Versions
        /\ DOMAIN work.build = {"files", "hashes"} /\ DOMAIN work.build.files = Paths
    BY DEF ResolveConflict, IInv, Planned, Built, Building
  <1>2. PICK p \in work.changed :
            Overwrite(p) \/ work' = [work EXCEPT !.changed = @ \ {p}]
    BY DEF ResolveConflict
  <1>3. /\ DOMAIN work' = Fields /\ work'.cli = work.cli /\ work'.queue = work.queue
        /\ work'.later = work.later /\ work'.retire = work.retire
        /\ work'.new = work.new /\ work'.auto = work.auto
        /\ work'.changed \subseteq work.changed /\ work'.brought = work.brought
    BY <1>1, <1>2 DEF Overwrite, Fields
  <1>4. \/ /\ work'.writes = work.writes \cup ({p} \cap Live)
           /\ work'.agreed = work.agreed \cup {p}
           /\ DOMAIN work'.build = {"files", "hashes"}
           /\ work'.build.hashes = work.build.hashes
           /\ work'.build.files = IF p \in Canon THEN Fresh(work.cli, {p}, work.build.files)
                                                 ELSE work.build.files
        \/ /\ work'.writes = work.writes /\ work'.agreed = work.agreed /\ work'.build = work.build
    <2>1. CASE Overwrite(p)
      <3>1. /\ work'.writes = work.writes \cup ({p} \cap Live)
            /\ work'.agreed = work.agreed \cup {p}
            /\ DOMAIN work'.build = {"files", "hashes"}
            /\ work'.build.hashes = work.build.hashes
        BY <1>1, <2>1 DEF Overwrite, Fields
      <3>2. work'.build.files = IF p \in Canon THEN Fresh(work.cli, {p}, work.build.files)
                                               ELSE work.build.files
        BY <1>1, <2>1 DEF Overwrite, Fields
      <3>. QED  BY <3>1, <3>2
    <2>2. CASE work' = [work EXCEPT !.changed = @ \ {p}]
      BY <1>1, <2>2 DEF Fields
    <2>. QED  BY <1>2, <2>1, <2>2
  <1>5. Planned'
    BY <1>1, <1>3, <1>4 DEF IInv, Planned
  <1>6. Built'
    BY <1>1, <1>3, <1>4 DEF IInv, Built, Building, Fresh, Paths, view, history
  <1>7. Sure'
    BY <1>1, <1>3 DEF IInv, Sure, view, history
  <1>. QED  BY <1>1, <1>5, <1>6, <1>7 DEF IInv, Shape, HashesReleased, view

LEMMA SealInvariant ==
    ASSUME IInv, Seal
    PROVE  IInv'
  <1>1. /\ pc = "resolving" /\ pc' = "sealed" /\ UNCHANGED <<view, spent, history>>
        /\ DOMAIN work = Fields /\ work.cli \in Versions
        /\ DOMAIN work.build = {"files", "hashes"}
        /\ \A p \in Paths : work.build.hashes[p] \notin Custom
    BY DEF Seal, IInv, Planned, Built, Building
  <1>2. /\ DOMAIN work' = Fields /\ work'.cli = work.cli /\ work'.queue = work.queue
        /\ work'.later = work.later /\ work'.retire = work.retire /\ work'.writes = work.writes
        /\ work'.new = work.new /\ work'.auto = work.auto
        /\ work'.changed = work.changed /\ work'.agreed = work.agreed
        /\ work'.brought = work.brought
        /\ DOMAIN work'.build = {"files", "hashes"}
        /\ work'.build.files = work.build.files
        /\ work'.build.hashes = Fresh(work.cli, work.hash, work.build.hashes)
    BY <1>1 DEF Seal, Fields
  <1>3. /\ DOMAIN work'.build.hashes = Paths
        /\ \A p \in Paths : work'.build.hashes[p] \notin Custom
    BY <1>1, <1>2, FreshFrame
  <1>4. Built'
    BY <1>1, <1>2, <1>3 DEF IInv, Built, Building, view, history
  <1>5. Planned' /\ Sure'
    BY <1>1, <1>2 DEF IInv, Planned, Sure, view, history
  <1>. QED  BY <1>1, <1>4, <1>5 DEF IInv, Shape, HashesReleased, view

LEMMA CommitInvariant ==
    ASSUME IInv, Commit
    PROVE  IInv'
  <1>1. /\ pc = "sealed" /\ pc' = "live" /\ UNCHANGED <<work, spent, late>>
        /\ files' = [p \in Paths |-> IF p \in Canon THEN work.build.files[p] ELSE files[p]]
        /\ hashes' = work.build.hashes /\ DOMAIN work.build.hashes = Paths
        /\ \A p \in Paths : work.build.hashes[p] \notin Custom
    BY DEF Commit, IInv, Built, Building
  <1>2. \A p \in Live : files'[p] = files[p]
    BY <1>1, PathAssumption DEF Paths
  <1>. QED
    BY <1>1, <1>2 DEF IInv, Shape, HashesReleased, Planned, Built, Building, Sure

\* A host file that moves is brought; its hash is one that was there.
LEMMA MigrateLiveInvariant ==
    ASSUME IInv, MigrateLive
    PROVE  IInv'
  <1>1. /\ pc = "live" /\ UNCHANGED spent /\ DOMAIN work = Fields
    BY DEF MigrateLive, IInv, Planned
  <1>2. PICK q \in work.later :
            \/ /\ pc' = pc /\ UNCHANGED <<view, late>>
               /\ work' = [work EXCEPT !.later = @ \ {q}]
            \/ /\ pc' = pc /\ late \subseteq late'
               /\ files' = Relocated(q.item, [files |-> files, hashes |-> hashes]).files
               /\ hashes' = Relocated(q.item, [files |-> files, hashes |-> hashes]).hashes
               /\ work' = [work EXCEPT !.later = @ \ {q}, !.agreed = @ \cup Agreed(q),
                                       !.brought = @ \cup Targets(q.item)]
            \/ Stopped /\ files' = Cleared(q.item) /\ UNCHANGED hashes
    <2>1. PICK q \in First(work.later) :
            LET moved == Relocated(q.item, [files |-> files, hashes |-> hashes]) IN
            \/ /\ work' = [work EXCEPT !.later = @ \ {q}]
               /\ UNCHANGED <<pc, view, backups, history>>
            \/ /\ files' = moved.files /\ hashes' = moved.hashes
               /\ work' = [work EXCEPT !.later = @ \ {q}, !.agreed = @ \cup Agreed(q),
                                       !.brought = @ \cup Targets(q.item)]
               /\ late' = IF q.item.from \in late THEN late \cup Targets(q.item) ELSE late
               /\ UNCHANGED <<pc, version, torn>>
            \/ Stopped /\ files' = Cleared(q.item) /\ UNCHANGED hashes
      BY DEF MigrateLive
    <2>. QED  BY <2>1 DEF First, history
  <1>3. CASE Stopped /\ files' = Cleared(q.item) /\ UNCHANGED hashes
    BY <1>1, <1>3 DEF Stopped, IInv, Shape, HashesReleased, Planned, Built, Building, Sure, Cleared
  <1>4. CASE /\ pc' = pc /\ UNCHANGED <<view, late>>
             /\ work' = [work EXCEPT !.later = @ \ {q}]
    <2>1. /\ DOMAIN work' = Fields /\ work'.cli = work.cli /\ work'.queue = work.queue
          /\ work'.later = work.later \ {q} /\ work'.retire = work.retire
          /\ work'.writes = work.writes /\ work'.new = work.new /\ work'.auto = work.auto
          /\ work'.changed = work.changed
          /\ work'.agreed = work.agreed /\ work'.brought = work.brought
      BY <1>1, <1>4 DEF Fields
    <2>. QED
      BY <1>1, <1>4, <2>1 DEF IInv, Shape, HashesReleased, Planned, Built, Building, Sure, view
  <1>5. CASE /\ pc' = pc /\ late \subseteq late'
             /\ files' = Relocated(q.item, [files |-> files, hashes |-> hashes]).files
             /\ hashes' = Relocated(q.item, [files |-> files, hashes |-> hashes]).hashes
             /\ work' = [work EXCEPT !.later = @ \ {q}, !.agreed = @ \cup Agreed(q),
                                     !.brought = @ \cup Targets(q.item)]
    <2>. DEFINE now == [files |-> files, hashes |-> hashes]
    <2>1. /\ DOMAIN work' = Fields /\ work'.cli = work.cli /\ work'.queue = work.queue
          /\ work'.later = work.later \ {q} /\ work'.retire = work.retire
          /\ work'.writes = work.writes /\ work'.new = work.new /\ work'.auto = work.auto
          /\ work'.changed = work.changed
          /\ work'.agreed = work.agreed \cup Agreed(q)
          /\ work'.brought = work.brought \cup Targets(q.item)
      BY <1>1, <1>5 DEF Fields
    <2>2. q.item \in Items
      BY <1>1 DEF IInv, Planned
    <2>3. /\ now.files = files /\ now.hashes = hashes
          /\ DOMAIN now.files = Paths /\ DOMAIN now.hashes = Paths
          /\ \A p \in Paths : now.hashes[p] \notin Custom
      BY DEF IInv, Shape, HashesReleased
    <2>4. /\ DOMAIN files' = Paths /\ DOMAIN hashes' = Paths
          /\ \A p \in Paths \ Touched(q.item) : files'[p] = files[p]
          /\ files'[q.item.from] = None
          /\ \A p \in Paths : hashes'[p] \notin Custom
      <3>. HIDE DEF now
      <3>. QED  BY <1>5, <2>2, <2>3, RelocatedFrame DEF now
    <2>5. Shape' /\ HashesReleased'
      BY <1>1, <1>5, <2>4 DEF IInv, Shape, HashesReleased
    <2>6. Planned' /\ Built'
      BY <1>1, <1>5, <2>1, <2>2, ItemPaths DEF IInv, Planned, Built, Building
    <2>7. Sure'
      BY <1>1, <1>5, <2>1, <2>4, CustomAssumption DEF IInv, Planned, Shipped, Sure, Touched
    <2>. QED  BY <2>5, <2>6, <2>7 DEF IInv
  <1>. QED  BY <1>2, <1>3, <1>4, <1>5

LEMMA RetireLiveInvariant ==
    ASSUME IInv, RetireLive
    PROVE  IInv'
  <1>1. /\ pc = "live" /\ UNCHANGED <<pc, spent, history>> /\ DOMAIN work = Fields
    BY DEF RetireLive, IInv, Planned
  <1>2. PICK item \in work.retire :
            /\ \/ /\ files' = [files EXCEPT ![item.from] = None]
                  /\ hashes' = [hashes EXCEPT ![item.from] = None]
               \/ UNCHANGED <<files, hashes>>
            /\ work' = [work EXCEPT !.retire = @ \ {item}]
    BY DEF RetireLive
  <1>3. /\ DOMAIN work' = Fields /\ work'.cli = work.cli /\ work'.queue = work.queue
        /\ work'.later = work.later /\ work'.retire = work.retire \ {item}
        /\ work'.writes = work.writes /\ work'.new = work.new /\ work'.auto = work.auto
        /\ work'.changed = work.changed
        /\ work'.agreed = work.agreed /\ work'.brought = work.brought
    BY <1>1, <1>2 DEF Fields
  <1>4. None \notin Custom
    BY CustomAssumption
  <1>5. Shape' /\ HashesReleased'
    BY <1>1, <1>2, <1>4 DEF IInv, Shape, HashesReleased
  <1>6. Planned' /\ Built'
    BY <1>1, <1>3 DEF IInv, Planned, Built, Building
  <1>7. Sure'
    BY <1>1, <1>2, <1>3, <1>4 DEF IInv, Shape, Planned, Shipped, Sure, history
  <1>. QED  BY <1>5, <1>6, <1>7 DEF IInv

LEMMA WriteLiveInvariant ==
    ASSUME IInv, WriteLive
    PROVE  IInv'
  <1>1. /\ pc = "live" /\ UNCHANGED <<pc, hashes, spent, late>>
        /\ DOMAIN work = Fields /\ work.cli \in Versions
    BY DEF WriteLive, IInv, Planned
  <1>2. PICK p \in work.writes :
            files' = Fresh(work.cli, {p}, files) /\ work' = [work EXCEPT !.writes = @ \ {p}]
    BY DEF WriteLive
  <1>3. /\ DOMAIN work' = Fields /\ work'.cli = work.cli /\ work'.queue = work.queue
        /\ work'.later = work.later /\ work'.retire = work.retire
        /\ work'.writes = work.writes \ {p} /\ work'.new = work.new /\ work'.auto = work.auto
        /\ work'.changed = work.changed
        /\ work'.agreed = work.agreed /\ work'.brought = work.brought
    BY <1>1, <1>2 DEF Fields
  <1>4. Shape' /\ HashesReleased'
    BY <1>1, <1>2 DEF IInv, Shape, HashesReleased, Fresh
  <1>5. Planned' /\ Built'
    BY <1>1, <1>3 DEF IInv, Planned, Built, Building
  <1>6. Sure'
    BY <1>1, <1>2, <1>3, CustomAssumption DEF IInv, Planned, Shipped, Sure, Fresh
  <1>. QED  BY <1>4, <1>5, <1>6 DEF IInv

\* What the user touches while an update runs is late.
LEMMA UserEditsInvariant ==
    ASSUME IInv, UserEdits
    PROVE  IInv'
  <1>1. PICK p \in Paths, content \in Custom \cup {None} :
            /\ files' = [files EXCEPT ![p] = content]
            /\ spent' = [spent EXCEPT !.edits = @ + 1]
            /\ late' = IF pc = "idle" THEN late ELSE late \cup {p}
            /\ UNCHANGED <<hashes, version, pc, work, backups, torn>>
    BY DEF UserEdits
  <1>2. Shape' /\ HashesReleased'
    BY <1>1 DEF IInv, Shape, HashesReleased
  <1>3. Planned'
    BY <1>1 DEF IInv, Planned
  <1>4. \A r \in Paths : r # p => files'[r] = files[r]
    BY <1>1 DEF IInv, Shape
  <1>5. Built'
    BY <1>1, <1>4 DEF IInv, Built, Building, Paths
  <1>6. Sure'
    BY <1>1, <1>4 DEF IInv, Planned, Shipped, Sure
  <1>. QED  BY <1>2, <1>3, <1>5, <1>6 DEF IInv

LEMMA StoppedInvariant ==
    ASSUME IInv, Stopped, UNCHANGED view, spent' \in [updates : Nat, edits : Nat, stops : Nat]
    PROVE  IInv'
  BY DEF Stopped, IInv, Shape, HashesReleased, Planned, Built, Building, Sure, view

LEMMA NextInvariant ==
    ASSUME IInv, [Next]_vars
    PROVE  IInv'
  <1>1. ASSUME NEW cli \in Versions, NEW migrate \in BOOLEAN,
               NEW mode \in {"ask", "force", "skip", "create-new"}, Analyse(cli, migrate, mode)
        PROVE  IInv'
    BY <1>1, AnalyseInvariant
  <1>2. CASE Decline \/ Finish \/ Stop
    <2>1. spent' \in [updates : Nat, edits : Nat, stops : Nat]
      BY <1>2 DEF Decline, Finish, Stop, IInv, Shape
    <2>. QED  BY <1>2, <2>1, StoppedInvariant DEF Decline, Finish, Stop
  <1>3. CASE UNCHANGED vars
    BY <1>3 DEF IInv, Shape, HashesReleased, Planned, Built, Building, Sure, vars, view, history
  <1>. QED
    BY <1>1, <1>2, <1>3, ProceedInvariant, MigrateCanonicalInvariant, StageInvariant,
       ResolveConflictInvariant, SealInvariant, CommitInvariant, MigrateLiveInvariant,
       RetireLiveInvariant, WriteLiveInvariant, UserEditsInvariant DEF Next

LEMMA Invariant == Spec => []IInv
  BY InitInvariant, NextInvariant, PTL DEF Spec

-----------------------------------------------------------------------------
(* Where the user's content may go. *)

\* Where a canonical path's content has gone in the candidate, or what this version
\* writes there instead.
Standing(p) ==
    \E item \in Items :
        /\ Renames(item) /\ item.from = p /\ item.to \in work.brought \cap Canon
        /\ \/ work.build.files[item.to] = files[p]
           \/ /\ item.to \in work.new \cup work.auto
              /\ work.build.files[item.to] = Templates[work.cli][item.to]

\* What the candidate takes from the user in a canonical path was agreed to, is
\* younger than the analysis, or has moved.
Taken(p) == p \in Canon /\ files[p] \in Custom /\ work.build.files[p] # files[p]
Took == Building => \A p \in Paths : Taken(p) => p \in late \cup work.agreed \/ Standing(p)

\* The user's own content, where it is still to be dealt with.
Own(p) == files[p] \in Custom /\ (pc = "live" => p \in Live)

\* The entries to be carried out are apart, and overwrite or delete what is the
\* user's only where it is younger than the analysis.
Harmless(q) ==
    /\ \A p \in Targets(q.item) : p \notin work.changed \cup work.brought /\ (Own(p) => p \in late)
    /\ ~q.ask /\ ~Renames(q.item) /\ Own(q.item.from) => q.item.from \in late

Clear == pc # "idle" =>
    /\ \A q \in work.later : ~Inside(q.item)
    /\ \A q, r \in work.queue \cup work.later : q.item = r.item => q = r
    /\ \A q \in work.queue \cup work.later : Harmless(q)
    /\ work.changed \cap work.brought = {}
    /\ pc # "live" => \A p \in work.brought : Own(p) => p \in late

\* The snapshot that is taken before the first entry has what the analysis saw.
Kept(p) == Own(p) => p \in late \/ files[p] \in backups
Safe == pc \in {"migrating", "resolving", "sealed", "live"} =>
    \/ work.queue \cup work.later = {} /\ work.brought = {}
    \/ \A p \in Paths : Kept(p)

Keeping == Took /\ Clear /\ Safe

LEMMA InitKeeping == Init => Keeping
  BY DEF Init, Keeping, Took, Building, Clear, Safe

\* What analysis lets an entry overwrite or delete unasked is nobody's work.
LEMMA VerdictSafe ==
    ASSUME IInv, NEW item \in Items, NEW cli \in Versions, Verdict(item, cli) \in {"auto", "confirm"}
    PROVE  /\ \A p \in Targets(item) : files[p] \notin Custom /\ p \notin Changed(cli)
           /\ Verdict(item, cli) = "auto" /\ ~Renames(item) => files[item.from] \notin Custom
  <1>. DEFINE shipped(p) == Templates[cli][p] # None /\ files[p] = Templates[cli][p]
              replaceable(p) == files[p] = None \/ shipped(p)
                                \/ (item.kind = "rename-dir" /\ ~Modified(p))
  <1>1. Exists(item)
    BY DEF Verdict
  <1>2. ASSUME NEW p \in Targets(item)
        PROVE  files[p] \notin Custom /\ p \notin Changed(cli)
    <2>0. p \in Paths
      BY ItemPaths
    <2>1. CASE ~Occupied(item)
      BY <2>1, CustomAssumption DEF Occupied, Changed, Differing
    <2>2. CASE Occupied(item)
      <3>1. replaceable(p)
        BY <1>1, <2>2 DEF Verdict
      <3>2. CASE files[p] = None \/ shipped(p)
        BY <2>0, <3>2, CustomAssumption DEF Changed, Differing
      <3>3. CASE ~(files[p] = None \/ shipped(p))
        <4>1. ~Modified(p) /\ files[p] # None
          BY <3>1, <3>3
        <4>2. hashes[p] = files[p]
          BY <4>1 DEF Modified
        <4>. QED  BY <2>0, <4>2 DEF Changed, AutoUpdate, IInv, HashesReleased
      <3>. QED  BY <3>2, <3>3
    <2>. QED  BY <2>1, <2>2
  <1>3. ASSUME Verdict(item, cli) = "auto", ~Renames(item)
        PROVE  files[item.from] \notin Custom
    <2>1. ~Occupied(item) /\ item.kind # "rename-dir" /\ item.from \in Paths
      BY <1>3, ItemPaths DEF Occupied, Renames
    <2>2. ~Modified(item.from)
      BY <1>1, <1>3, <2>1 DEF Verdict
    <2>. QED  BY <1>1, <2>1, <2>2 DEF Modified, Exists, IInv, HashesReleased
  <1>. QED  BY <1>2, <1>3

LEMMA AnalyseKeeping ==
    ASSUME IInv, NEW cli \in Versions, NEW migrate \in BOOLEAN,
           NEW mode \in {"ask", "force", "skip", "create-new"}, Analyse(cli, migrate, mode)
    PROVE  Keeping'
  <1>. DEFINE queue == IF migrate THEN Queue(Pending(cli), cli) ELSE {}
  <1>1. /\ UNCHANGED files /\ late' = {}
        /\ work'.queue = CanonicalOnly(queue) /\ work'.later = LiveOnly(queue)
        /\ work'.changed = Changed(cli) /\ work'.brought = {}
        /\ pc' \in {"sealed", "consent", "migrating"}
        /\ pc' # "consent" => work'.build.files = files
    <2>1. UNCHANGED <<view, gone, torn>> /\ late' = {}
      BY AnalyseOutcome
    <2>2. /\ work'.queue = CanonicalOnly(queue) /\ work'.later = LiveOnly(queue)
          /\ work'.changed = Changed(cli) /\ work'.brought = {}
      BY AnalyseOutcome
    <2>3. \/ /\ pc' = "sealed"
             /\ work'.build = [files |-> files,
                               hashes |-> Fresh(cli, MissingHashes(cli), hashes)]
          \/ pc' = "consent"
          \/ pc' = "migrating" /\ work'.build = [files |-> files, hashes |-> hashes]
      BY AnalyseOutcome
    <2>. HIDE DEF queue
    <2>. QED  BY <2>1, <2>2, <2>3 DEF view
  <1>2. work'.queue \cup work'.later = queue
    BY <1>1 DEF CanonicalOnly, LiveOnly
  <1>3. Took'
    BY <1>1 DEF Took, Building, Taken
  <1>4. ASSUME NEW q \in queue
        PROVE  \E k \in DOMAIN Migrations :
                  /\ q.item = Migrations[k] /\ Verdict(q.item, cli) \in {"auto", "confirm"}
                  /\ q.ask = (Verdict(q.item, cli) = "confirm")
                  /\ q = [item |-> Migrations[k], ask |-> Verdict(Migrations[k], cli) = "confirm",
                          turn |-> Turn(k, Verdict(Migrations[k], cli))]
    BY DEF Queue, Pending, Carried
  <1>. HIDE DEF queue
  <1>5. ASSUME NEW q \in queue, NEW r \in queue, q.item = r.item
        PROVE  q = r
    <2>1. PICK k \in DOMAIN Migrations :
              /\ q.item = Migrations[k]
              /\ q = [item |-> Migrations[k], ask |-> Verdict(Migrations[k], cli) = "confirm",
                      turn |-> Turn(k, Verdict(Migrations[k], cli))]
      BY <1>4
    <2>2. PICK l \in DOMAIN Migrations :
              /\ r.item = Migrations[l]
              /\ r = [item |-> Migrations[l], ask |-> Verdict(Migrations[l], cli) = "confirm",
                      turn |-> Turn(l, Verdict(Migrations[l], cli))]
      BY <1>4
    <2>3. k = l
      BY <1>5, <2>1, <2>2, ApartAssumption
    <2>. QED  BY ONLY <2>1, <2>2, <2>3
  <1>6. ASSUME NEW q \in queue
        PROVE  Harmless(q)'
    <2>1. /\ q.item \in Items /\ Verdict(q.item, cli) \in {"auto", "confirm"}
          /\ ~q.ask => Verdict(q.item, cli) = "auto"
      BY <1>4 DEF Items
    <2>. QED  BY <1>1, <2>1, VerdictSafe DEF Harmless, Own
  <1>7. Clear'
    BY <1>1, <1>2, <1>5, <1>6 DEF Clear, LiveOnly
  <1>8. Safe'
    <2>1. CASE pc' = "sealed"
      <3>1. queue = {}
        BY <2>1 DEF Analyse, queue
      <3>. QED  BY <1>1, <1>2, <3>1 DEF Safe
    <2>2. CASE pc' = "migrating"
      <3>1. backups' = backups \cup {files[p] : p \in Paths}
        BY <2>2 DEF Analyse, BackUp
      <3>. QED  BY <1>1, <3>1 DEF Safe, Kept
    <2>3. CASE pc' = "consent"
      BY <2>3 DEF Safe
    <2>. QED  BY <1>1, <2>1, <2>2, <2>3
  <1>. QED  BY <1>3, <1>7, <1>8 DEF Keeping

LEMMA ProceedKeeping ==
    ASSUME IInv, Keeping, Proceed
    PROVE  Keeping'
  <1>1. /\ pc = "consent" /\ pc' = "migrating" /\ UNCHANGED <<files, late>>
        /\ work'.build.files = files /\ work'.queue = work.queue /\ work'.later = work.later
        /\ work'.changed = work.changed /\ work'.brought = work.brought
        /\ backups' = backups \cup {files[p] : p \in Paths}
    BY DEF Proceed, Seeded, BackUp, view, history, IInv, Planned, Fields
  <1>2. Took'
    BY <1>1 DEF Took, Taken
  <1>3. Clear'
    BY <1>1 DEF Keeping, Clear, Harmless, Own
  <1>4. Safe'
    BY <1>1 DEF Safe, Kept
  <1>. QED  BY <1>2, <1>3, <1>4 DEF Keeping

\* An entry that was declined changes nothing else.
LEMMA DeclinedKeeping ==
    ASSUME Keeping, pc' = pc, UNCHANGED <<files, late, backups>>,
           work'.queue \subseteq work.queue, work'.later \subseteq work.later,
           work'.build = work.build, work'.brought = work.brought, work'.agreed = work.agreed,
           work'.new = work.new, work'.auto = work.auto, work'.changed = work.changed,
           work'.cli = work.cli
    PROVE  Keeping'
  <1>1. Took'
    BY DEF Keeping, Took, Taken, Building, Standing
  <1>2. Clear'
    BY DEF Keeping, Clear, Harmless, Own
  <1>3. Safe'
    BY DEF Keeping, Safe, Kept, Own
  <1>. QED  BY <1>1, <1>2, <1>3 DEF Keeping

\* An entry carried out: those that are left are apart from it.
LEMMA ClearAfter ==
    ASSUME IInv, Keeping, pc # "idle", NEW q \in work.queue \cup work.later,
           pc' = pc, late \subseteq late', work'.changed = work.changed,
           work'.brought = work.brought \cup Targets(q.item),
           work'.queue = work.queue \ {q}, work'.later = work.later \ {q},
           \A p \in Paths \ Touched(q.item) : files'[p] = files[p],
           pc # "live" => UNCHANGED files
    PROVE  Clear'
  <1>1. q.item \in Items /\ Harmless(q)
    BY DEF IInv, Planned, Keeping, Clear
  <1>2. ASSUME NEW r \in work'.queue \cup work'.later
        PROVE  Harmless(r)'
    <2>1. r \in work.queue \cup work.later /\ r # q /\ r.item \in Items /\ Harmless(r)
      BY DEF IInv, Planned, Keeping, Clear
    <2>2. r.item # q.item
      BY <2>1 DEF Keeping, Clear
    <2>3. /\ Targets(r.item) \cap Touched(q.item) = {} /\ r.item.from \notin Touched(q.item)
          /\ Targets(r.item) \subseteq Paths /\ r.item.from \in Paths
      BY <1>1, <2>1, <2>2, ItemsApart, ItemPaths DEF Touched
    <2>4. \A p \in Targets(r.item) \cup {r.item.from} : Own(p)' <=> Own(p)
      BY <2>3 DEF Own
    <2>. QED  BY <2>1, <2>3, <2>4 DEF Harmless, Touched
  <1>3. work'.changed \cap work'.brought = {}
    BY <1>1 DEF Keeping, Clear, Harmless
  <1>4. pc' # "live" => \A p \in work'.brought : Own(p)' => p \in late'
    BY <1>1 DEF Keeping, Clear, Harmless, Own
  <1>. QED  BY <1>2, <1>3, <1>4 DEF Keeping, Clear

LEMMA MigrateCanonicalKeeping ==
    ASSUME IInv, Keeping, MigrateCanonical
    PROVE  Keeping'
  <1>1. /\ pc = "migrating" /\ UNCHANGED <<files, late>> /\ backups \subseteq backups'
        /\ DOMAIN work = Fields /\ DOMAIN work.build = {"files", "hashes"}
        /\ DOMAIN work.build.files = Paths /\ DOMAIN work.build.hashes = Paths
        /\ \A p \in Paths : work.build.hashes[p] \notin Custom
    BY DEF MigrateCanonical, view, history, IInv, Planned, Built, Building
  <1>2. PICK q \in work.queue :
            \/ pc' = pc /\ work' = [work EXCEPT !.queue = @ \ {q}] /\ backups' = backups
            \/ /\ pc' = pc
               /\ work' = [work EXCEPT !.queue = @ \ {q}, !.build = Relocated(q.item, @),
                                       !.agreed = @ \cup Agreed(q), !.brought = @ \cup Targets(q.item)]
            \/ Stopped
    BY DEF MigrateCanonical, First
  <1>3. CASE Stopped
    BY <1>3 DEF Stopped, Keeping, Took, Building, Clear, Safe
  <1>4. CASE pc' = pc /\ work' = [work EXCEPT !.queue = @ \ {q}] /\ backups' = backups
    <2>1. /\ work'.queue \subseteq work.queue /\ work'.later = work.later
          /\ work'.build = work.build /\ work'.brought = work.brought /\ work'.agreed = work.agreed
          /\ work'.new = work.new /\ work'.auto = work.auto /\ work'.changed = work.changed
          /\ work'.cli = work.cli
      BY <1>1, <1>4 DEF Fields
    <2>. QED  BY <1>1, <1>4, <2>1, DeclinedKeeping
  <1>5. CASE /\ pc' = pc
             /\ work' = [work EXCEPT !.queue = @ \ {q}, !.build = Relocated(q.item, @),
                                     !.agreed = @ \cup Agreed(q), !.brought = @ \cup Targets(q.item)]
    <2>1. /\ work'.queue = work.queue \ {q} /\ work'.later = work.later
          /\ work'.new = work.new /\ work'.auto = work.auto /\ work'.cli = work.cli
          /\ work'.changed = work.changed
          /\ work'.agreed = work.agreed \cup Agreed(q)
          /\ work'.brought = work.brought \cup Targets(q.item)
          /\ work'.build = Relocated(q.item, work.build)
      BY <1>1, <1>5 DEF Fields
    <2>2. /\ q.item \in Items /\ Inside(q.item)
          /\ Harmless(q) /\ q \notin work.later
      BY <1>1 DEF IInv, Planned, Keeping, Clear
    <2>3. /\ \A p \in Paths \ Touched(q.item) : work'.build.files[p] = work.build.files[p]
          /\ \A p \in Targets(q.item) : work'.build.files[p] = work.build.files[q.item.from]
      BY <1>1, <2>1, <2>2, RelocatedFrame
    <2>4. Clear'
      BY <1>1, <1>5, <2>1, <2>2, ClearAfter
    <2>5. ASSUME NEW p \in Paths, Standing(p)
          PROVE  Standing(p)'
      <3>1. PICK item \in Items :
                /\ Renames(item) /\ item.from = p /\ item.to \in work.brought \cap Canon
                /\ \/ work.build.files[item.to] = files[p]
                   \/ /\ item.to \in work.new \cup work.auto
                      /\ work.build.files[item.to] = Templates[work.cli][item.to]
        BY <2>5 DEF Standing
      <3>2. item.to \in Paths /\ item.to \notin Touched(q.item)
        <4>1. item.to \in Targets(item) /\ item.to \in Paths
          BY <3>1, ItemPaths DEF Paths
        <4>2. q.item.from # item.to
          BY <2>2, <3>1, <4>1, ItemsApart
        <4>3. item.to \notin Targets(q.item)
          BY <2>2, <3>1 DEF Harmless
        <4>. QED  BY <4>1, <4>2, <4>3 DEF Touched
      <3>3. work'.build.files[item.to] = work.build.files[item.to]
        BY <2>3, <3>2
      <3>. QED  BY <1>1, <2>1, <3>1, <3>3 DEF Standing
    <2>6. ASSUME NEW p \in Paths, Taken(p)'
          PROVE  p \in late' \cup work'.agreed \/ Standing(p)'
      <3>0. p \in Canon /\ files[p] \in Custom /\ work'.build.files[p] # files[p] /\ Own(p)
        BY <1>1, <2>6 DEF Taken, Own
      <3>1. CASE work.build.files[p] # files[p]
        <4>1. p \in late \cup work.agreed \/ Standing(p)
          BY <1>1, <3>0, <3>1 DEF Keeping, Took, Taken, Building
        <4>. QED  BY <1>1, <2>1, <2>5, <4>1
      <3>2. CASE work.build.files[p] = files[p]
        <4>1. p \in Touched(q.item)
          BY <2>3, <3>0, <3>2
        <4>2. CASE p \in Targets(q.item)
          BY <1>1, <2>2, <3>0, <4>2 DEF Harmless
        <4>3. CASE p = q.item.from /\ Renames(q.item)
          <5>1. q.item.to \in Targets(q.item) /\ q.item.to \in Canon
            BY <2>2, <4>3, ItemPaths DEF Inside, Touched
          <5>2. work'.build.files[q.item.to] = files'[p]
            BY <1>1, <2>3, <3>2, <4>3, <5>1
          <5>. QED  BY <2>1, <2>2, <4>3, <5>1, <5>2 DEF Standing
        <4>4. CASE p = q.item.from /\ ~Renames(q.item)
          BY <1>1, <2>1, <2>2, <3>0, <4>4 DEF Harmless, Agreed
        <4>. QED  BY <4>1, <4>2, <4>3, <4>4 DEF Touched
      <3>. QED  BY <3>1, <3>2
    <2>7. Safe'
      BY <1>1, <1>5 DEF Keeping, Safe, Kept, Own
    <2>. QED  BY <2>4, <2>6, <2>7 DEF Keeping, Took
  <1>. QED  BY <1>2, <1>3, <1>4, <1>5

LEMMA StageKeeping ==
    ASSUME IInv, Keeping, Stage
    PROVE  Keeping'
  <1>. DEFINE sure == work.new \cup work.auto
              dead == {p \in Canon : \E item \in work.retire :
                          p = item.from /\ work.build.files[p] \in item.allowed}
  <1>1. /\ pc = "migrating" /\ pc' = "resolving" /\ UNCHANGED <<files, late, backups>>
        /\ DOMAIN work = Fields /\ DOMAIN work.build = {"files", "hashes"}
        /\ \A item \in work.retire : item \in Items /\ Retires(item)
    BY DEF Stage, view, history, IInv, Planned, Built, Building
  <1>2. /\ work'.queue = work.queue /\ work'.later = work.later /\ work'.changed = work.changed
        /\ work'.brought = work.brought /\ work'.agreed = work.agreed
        /\ work'.new = work.new /\ work'.auto = work.auto /\ work'.cli = work.cli
        /\ work'.build.files = [p \in Paths |-> IF p \in sure \cap Canon THEN Templates[work.cli][p]
                                                ELSE IF p \in dead THEN None ELSE work.build.files[p]]
    BY <1>1 DEF Stage, Fields
  <1>. HIDE DEF dead
  <1>3. ASSUME NEW p \in Paths, Standing(p)
        PROVE  Standing(p)'
    <2>1. PICK item \in Items :
              /\ Renames(item) /\ item.from = p /\ item.to \in work.brought \cap Canon
              /\ \/ work.build.files[item.to] = files[p]
                 \/ /\ item.to \in sure
                    /\ work.build.files[item.to] = Templates[work.cli][item.to]
      BY <1>3 DEF Standing
    <2>2. item.to \in Paths /\ item.to \in Targets(item)
      BY <2>1, ItemPaths DEF Paths
    <2>3. item.to \notin dead
      BY <1>1, <2>1, <2>2, ItemsApart DEF dead
    <2>4. CASE item.to \in sure
      <3>1. work'.build.files[item.to] = Templates[work'.cli][item.to]
        BY <1>2, <2>1, <2>2, <2>4
      <3>. QED  BY <1>2, <2>1, <2>4, <3>1 DEF Standing
    <2>5. CASE item.to \notin sure
      <3>1. work'.build.files[item.to] = files'[p]
        BY <1>1, <1>2, <2>1, <2>2, <2>3, <2>5
      <3>. QED  BY <1>2, <2>1, <3>1 DEF Standing
    <2>. QED  BY <2>4, <2>5
  <1>4. ASSUME NEW p \in Paths, Taken(p)'
        PROVE  p \in late' \cup work'.agreed \/ Standing(p)'
    <2>0. p \in Canon /\ files[p] \in Custom /\ work'.build.files[p] # files[p] /\ Own(p)
      BY <1>1, <1>4 DEF Taken, Own
    <2>1. CASE p \in sure
      BY <1>1, <2>0, <2>1 DEF IInv, Sure, Own, Keeping, Clear
    <2>2. CASE p \notin sure
      <3>1. work.build.files[p] # files[p]
        <4>1. CASE p \in dead
          <5>1. PICK item \in work.retire : work.build.files[p] \in item.allowed
            BY <4>1 DEF dead
          <5>. QED  BY <1>1, <2>0, <5>1, CustomAssumption
        <4>2. CASE p \notin dead
          BY <1>2, <2>0, <2>2, <4>2
        <4>. QED  BY <4>1, <4>2
      <3>2. p \in late \cup work.agreed \/ Standing(p)
        BY <1>1, <2>0, <3>1 DEF Keeping, Took, Taken, Building
      <3>. QED  BY <1>1, <1>2, <1>3, <3>2
    <2>. QED  BY <2>1, <2>2
  <1>5. Clear'
    BY <1>1, <1>2 DEF Keeping, Clear, Harmless, Own
  <1>6. Safe'
    BY <1>1, <1>2 DEF Keeping, Safe, Kept, Own
  <1>. QED  BY <1>4, <1>5, <1>6 DEF Keeping, Took

LEMMA ResolveConflictKeeping ==
    ASSUME IInv, Keeping, ResolveConflict
    PROVE  Keeping'
  <1>1. /\ pc = "resolving" /\ UNCHANGED <<files, pc, backups, late>>
        /\ DOMAIN work = Fields /\ DOMAIN work.build = {"files", "hashes"}
    BY DEF ResolveConflict, view, history, IInv, Planned, Built, Building
  <1>2. PICK p \in work.changed :
            Overwrite(p) \/ work' = [work EXCEPT !.changed = @ \ {p}]
    BY DEF ResolveConflict
  <1>3. /\ work'.queue = work.queue /\ work'.later = work.later
        /\ work'.changed \subseteq work.changed /\ work'.brought = work.brought
        /\ work'.new = work.new /\ work'.auto = work.auto /\ work'.cli = work.cli
        /\ \/ work'.agreed = work.agreed \cup {p}
           \/ work'.agreed = work.agreed /\ work'.build = work.build
    <2>1. CASE Overwrite(p)
      BY <1>1, <2>1 DEF Overwrite, Fields
    <2>2. CASE work' = [work EXCEPT !.changed = @ \ {p}]
      BY <1>1, <2>2 DEF Fields
    <2>. QED  BY <1>2, <2>1, <2>2
  <1>4. \A r \in Paths : r # p => work'.build.files[r] = work.build.files[r]
    <2>1. CASE Overwrite(p)
      <3>1. work'.build.files = IF p \in Canon THEN Fresh(work.cli, {p}, work.build.files)
                                               ELSE work.build.files
        BY <1>1, <2>1 DEF Overwrite, Fields
      <3>. QED  BY <3>1 DEF Fresh
    <2>2. CASE work' = [work EXCEPT !.changed = @ \ {p}]
      BY <1>1, <2>2 DEF Fields
    <2>. QED  BY <1>2, <2>1, <2>2
  <1>5. work'.build.files[p] = work.build.files[p] \/ p \in work'.agreed
    BY <1>3
  <1>6. p \notin work.brought
    BY <1>1 DEF Keeping, Clear
  <1>7. ASSUME NEW r \in Paths, Standing(r)
        PROVE  Standing(r)'
    <2>1. PICK item \in Items :
              /\ Renames(item) /\ item.from = r /\ item.to \in work.brought \cap Canon
              /\ \/ work.build.files[item.to] = files[r]
                 \/ /\ item.to \in work.new \cup work.auto
                    /\ work.build.files[item.to] = Templates[work.cli][item.to]
      BY <1>7 DEF Standing
    <2>2. work'.build.files[item.to] = work.build.files[item.to]
      BY <1>4, <1>6, <2>1 DEF Paths
    <2>. QED  BY <1>1, <1>3, <2>1, <2>2 DEF Standing
  <1>8. ASSUME NEW r \in Paths, Taken(r)'
        PROVE  r \in late' \cup work'.agreed \/ Standing(r)'
    <2>1. r \in work'.agreed \/ Taken(r)
      BY <1>1, <1>4, <1>5, <1>8 DEF Taken
    <2>2. CASE Taken(r)
      BY <1>1, <1>3, <1>7, <2>2 DEF Keeping, Took, Building
    <2>. QED  BY <2>1, <2>2
  <1>9. Clear'
    BY <1>1, <1>3 DEF Keeping, Clear, Harmless, Own
  <1>10. Safe'
    BY <1>1, <1>3 DEF Keeping, Safe, Kept, Own
  <1>. QED  BY <1>8, <1>9, <1>10 DEF Keeping, Took

LEMMA SealKeeping ==
    ASSUME IInv, Keeping, Seal
    PROVE  Keeping'
  <1>1. /\ pc = "resolving" /\ pc' = "sealed" /\ UNCHANGED <<files, backups, late>>
        /\ DOMAIN work = Fields /\ DOMAIN work.build = {"files", "hashes"}
    BY DEF Seal, view, history, IInv, Planned, Built, Building
  <1>2. /\ work'.queue = work.queue /\ work'.later = work.later /\ work'.changed = work.changed
        /\ work'.brought = work.brought /\ work'.agreed = work.agreed
        /\ work'.new = work.new /\ work'.auto = work.auto /\ work'.cli = work.cli
        /\ work'.build.files = work.build.files
    BY <1>1 DEF Seal, Fields
  <1>3. Took'
    BY <1>1, <1>2 DEF Keeping, Took, Taken, Building, Standing
  <1>4. Clear'
    BY <1>1, <1>2 DEF Keeping, Clear, Harmless, Own
  <1>5. Safe'
    BY <1>1, <1>2 DEF Keeping, Safe, Kept, Own
  <1>. QED  BY <1>3, <1>4, <1>5 DEF Keeping

\* After the commit, a step that makes nothing the user's changes none of this.
LEMMA LiveKeeping ==
    ASSUME Keeping, pc \in {"sealed", "live"}, pc' = "live", UNCHANGED <<backups, late>>,
           \A p \in Paths : Own(p)' => Own(p) /\ files'[p] = files[p],
           \A item \in Items : Targets(item) \subseteq Paths /\ item.from \in Paths,
           \A q \in work.queue \cup work.later : q.item \in Items,
           work'.queue = work.queue, work'.later = work.later, work'.changed = work.changed,
           work'.brought = work.brought
    PROVE  Keeping'
  <1>1. Took'
    BY DEF Took, Building
  <1>2. ASSUME NEW q \in work.queue \cup work.later
        PROVE  Harmless(q)'
    <2>1. Harmless(q) /\ Targets(q.item) \subseteq Paths /\ q.item.from \in Paths
      BY DEF Keeping, Clear
    <2>. QED  BY <2>1 DEF Harmless
  <1>3. Clear'
    BY <1>2 DEF Keeping, Clear
  <1>4. Safe'
    BY DEF Keeping, Safe, Kept
  <1>. QED  BY <1>1, <1>3, <1>4 DEF Keeping

LEMMA CommitKeeping ==
    ASSUME IInv, Keeping, Commit
    PROVE  Keeping'
  <1>1. /\ pc = "sealed" /\ pc' = "live" /\ UNCHANGED <<work, backups, late>>
        /\ files' = [p \in Paths |-> IF p \in Canon THEN work.build.files[p] ELSE files[p]]
        /\ \A q \in work.queue \cup work.later : q.item \in Items
    BY DEF Commit, IInv, Planned
  <1>2. \A p \in Paths : Own(p)' => Own(p) /\ files'[p] = files[p]
    BY <1>1, PathAssumption DEF Own
  <1>. QED  BY <1>1, <1>2, LiveKeeping, ItemPaths

LEMMA RetireLiveKeeping ==
    ASSUME IInv, Keeping, RetireLive
    PROVE  Keeping'
  <1>1. /\ pc = "live" /\ pc' = "live" /\ UNCHANGED <<backups, late>> /\ DOMAIN work = Fields
        /\ \A q \in work.queue \cup work.later : q.item \in Items
    BY DEF RetireLive, history, IInv, Planned
  <1>2. PICK item \in work.retire :
            /\ files' = [files EXCEPT ![item.from] = None] \/ UNCHANGED files
            /\ work' = [work EXCEPT !.retire = @ \ {item}]
    BY DEF RetireLive
  <1>3. /\ work'.queue = work.queue /\ work'.later = work.later /\ work'.changed = work.changed
        /\ work'.brought = work.brought
    BY <1>1, <1>2 DEF Fields
  <1>4. \A p \in Paths : Own(p)' => Own(p) /\ files'[p] = files[p]
    BY <1>1, <1>2, CustomAssumption DEF IInv, Shape, Own
  <1>. QED  BY <1>1, <1>3, <1>4, LiveKeeping, ItemPaths

LEMMA WriteLiveKeeping ==
    ASSUME IInv, Keeping, WriteLive
    PROVE  Keeping'
  <1>1. /\ pc = "live" /\ pc' = "live" /\ UNCHANGED <<backups, late>> /\ DOMAIN work = Fields
        /\ work.cli \in Versions /\ \A q \in work.queue \cup work.later : q.item \in Items
    BY DEF WriteLive, IInv, Planned
  <1>2. PICK r \in work.writes :
            files' = Fresh(work.cli, {r}, files) /\ work' = [work EXCEPT !.writes = @ \ {r}]
    BY DEF WriteLive
  <1>3. /\ work'.queue = work.queue /\ work'.later = work.later /\ work'.changed = work.changed
        /\ work'.brought = work.brought
    BY <1>1, <1>2 DEF Fields
  <1>4. \A p \in Paths : Own(p)' => Own(p) /\ files'[p] = files[p]
    BY <1>1, <1>2, CustomAssumption DEF Fresh, Own
  <1>. QED  BY <1>1, <1>3, <1>4, LiveKeeping, ItemPaths

\* What the step that carries out a host entry does to files and plan.
LEMMA MigrateLiveOutcome ==
    ASSUME IInv, MigrateLive
    PROVE  \E q \in work.later :
              \/ /\ pc' = pc /\ UNCHANGED <<files, late, backups>>
                 /\ work'.later = work.later \ {q} /\ work'.queue = work.queue
                 /\ work'.build = work.build /\ work'.brought = work.brought
                 /\ work'.agreed = work.agreed /\ work'.new = work.new /\ work'.auto = work.auto
                 /\ work'.changed = work.changed /\ work'.cli = work.cli
              \/ /\ pc' = pc /\ backups \subseteq backups'
                 /\ late \subseteq late'
                 /\ q.item.from \in late => Targets(q.item) \subseteq late'
                 /\ \A p \in Paths \ Touched(q.item) : files'[p] = files[p]
                 /\ \A p \in Targets(q.item) : files'[p] = files[q.item.from]
                 /\ files'[q.item.from] = None
                 /\ work'.later = work.later \ {q} /\ work'.queue = work.queue
                 /\ work'.changed = work.changed
                 /\ work'.agreed = work.agreed \cup Agreed(q)
                 /\ work'.brought = work.brought \cup Targets(q.item)
              \/ Stopped /\ files' = Cleared(q.item)
  <1>. DEFINE now == [files |-> files, hashes |-> hashes]
  <1>1. PICK q \in First(work.later) :
            \/ /\ work' = [work EXCEPT !.later = @ \ {q}]
               /\ UNCHANGED <<pc, view, backups, history>>
            \/ /\ files' = Relocated(q.item, now).files
               /\ work' = [work EXCEPT !.later = @ \ {q}, !.agreed = @ \cup Agreed(q),
                                       !.brought = @ \cup Targets(q.item)]
               /\ backups \subseteq backups'
               /\ late' = IF q.item.from \in late THEN late \cup Targets(q.item) ELSE late
               /\ pc' = pc
            \/ Stopped /\ files' = Cleared(q.item)
    BY DEF MigrateLive
  <1>2. q \in work.later /\ q.item \in Items /\ DOMAIN work = Fields
    BY DEF First, MigrateLive, IInv, Planned
  <1>3. CASE /\ work' = [work EXCEPT !.later = @ \ {q}]
             /\ UNCHANGED <<pc, view, backups, history>>
    BY <1>2, <1>3 DEF Fields, view, history
  <1>4. CASE /\ files' = Relocated(q.item, now).files
             /\ work' = [work EXCEPT !.later = @ \ {q}, !.agreed = @ \cup Agreed(q),
                                     !.brought = @ \cup Targets(q.item)]
             /\ backups \subseteq backups'
             /\ late' = IF q.item.from \in late THEN late \cup Targets(q.item) ELSE late
             /\ pc' = pc
    <2>1. /\ now.files = files /\ now.hashes = hashes
          /\ DOMAIN now.files = Paths /\ DOMAIN now.hashes = Paths
          /\ \A p \in Paths : now.hashes[p] \notin Custom
      BY DEF IInv, Shape, HashesReleased
    <2>2. /\ \A p \in Paths \ Touched(q.item) : files'[p] = files[p]
          /\ \A p \in Targets(q.item) : files'[p] = files[q.item.from]
          /\ files'[q.item.from] = None
      <3>. HIDE DEF now
      <3>. QED  BY <1>2, <1>4, <2>1, RelocatedFrame
    <2>3. /\ work'.later = work.later \ {q} /\ work'.queue = work.queue
          /\ work'.changed = work.changed
          /\ work'.agreed = work.agreed \cup Agreed(q)
          /\ work'.brought = work.brought \cup Targets(q.item)
      BY <1>2, <1>4 DEF Fields
    <2>. QED  BY <1>2, <1>4, <2>2, <2>3
  <1>. QED  BY <1>1, <1>2, <1>3, <1>4

LEMMA MigrateLiveKeeping ==
    ASSUME IInv, Keeping, MigrateLive
    PROVE  Keeping'
  <1>1. pc = "live"
    BY DEF MigrateLive
  <1>2. PICK q \in work.later :
              \/ /\ pc' = pc /\ UNCHANGED <<files, late, backups>>
                 /\ work'.later = work.later \ {q} /\ work'.queue = work.queue
                 /\ work'.build = work.build /\ work'.brought = work.brought
                 /\ work'.agreed = work.agreed /\ work'.new = work.new /\ work'.auto = work.auto
                 /\ work'.changed = work.changed /\ work'.cli = work.cli
              \/ /\ pc' = pc /\ backups \subseteq backups'
                 /\ late \subseteq late'
                 /\ q.item.from \in late => Targets(q.item) \subseteq late'
                 /\ \A p \in Paths \ Touched(q.item) : files'[p] = files[p]
                 /\ \A p \in Targets(q.item) : files'[p] = files[q.item.from]
                 /\ files'[q.item.from] = None
                 /\ work'.later = work.later \ {q} /\ work'.queue = work.queue
                 /\ work'.changed = work.changed
                 /\ work'.brought = work.brought \cup Targets(q.item)
              \/ Stopped
    BY MigrateLiveOutcome
  <1>3. CASE Stopped
    BY <1>3 DEF Stopped, Keeping, Took, Building, Clear, Safe
  <1>4. CASE /\ pc' = pc /\ UNCHANGED <<files, late, backups>>
             /\ work'.later = work.later \ {q} /\ work'.queue = work.queue
             /\ work'.build = work.build /\ work'.brought = work.brought
             /\ work'.agreed = work.agreed /\ work'.new = work.new /\ work'.auto = work.auto
             /\ work'.changed = work.changed /\ work'.cli = work.cli
    BY <1>4, DeclinedKeeping
  <1>5. CASE /\ pc' = pc /\ backups \subseteq backups'
             /\ late \subseteq late'
             /\ q.item.from \in late => Targets(q.item) \subseteq late'
             /\ \A p \in Paths \ Touched(q.item) : files'[p] = files[p]
             /\ \A p \in Targets(q.item) : files'[p] = files[q.item.from]
             /\ files'[q.item.from] = None
             /\ work'.later = work.later \ {q} /\ work'.queue = work.queue
             /\ work'.changed = work.changed
             /\ work'.brought = work.brought \cup Targets(q.item)
    <2>1. /\ q.item \in Items /\ ~Inside(q.item) /\ \A r \in work.queue : Inside(r.item)
          /\ Touched(q.item) \subseteq Live /\ q.item.from \in Live
      BY <1>1, ItemPaths DEF IInv, Planned, Keeping, Clear, Touched
    <2>2. work'.queue = work.queue \ {q}
      BY <1>5, <2>1
    <2>3. Clear'
      BY <1>1, <1>5, <2>2, ClearAfter
    <2>4. ASSUME NEW p \in Paths
          PROVE  Kept(p)'
      <3>1. \A r \in Paths : Kept(r)
        BY <1>1 DEF Keeping, Safe
      <3>2. CASE p \notin Touched(q.item)
        BY <1>1, <1>5, <3>1, <3>2 DEF Kept, Own
      <3>3. CASE p = q.item.from
        BY <1>5, <3>3, CustomAssumption DEF Kept, Own
      <3>4. CASE p \in Targets(q.item)
        <4>1. Kept(q.item.from) /\ files'[p] = files[q.item.from]
          BY <1>5, <2>1, <3>1, <3>4 DEF Paths
        <4>. QED  BY <1>1, <1>5, <2>1, <3>4, <4>1 DEF Kept, Own
      <3>. QED  BY <3>2, <3>3, <3>4 DEF Touched
    <2>. QED  BY <1>1, <1>5, <2>3, <2>4 DEF Keeping, Took, Building, Safe
  <1>. QED  BY <1>2, <1>3, <1>4, <1>5

LEMMA UserEditsKeeping ==
    ASSUME IInv, Keeping, UserEdits
    PROVE  Keeping'
  <1>1. PICK p \in Paths, content \in Custom \cup {None} :
            /\ files' = [files EXCEPT ![p] = content]
            /\ late' = IF pc = "idle" THEN late ELSE late \cup {p}
            /\ UNCHANGED <<pc, work, backups>>
    BY DEF UserEdits
  <1>2. \A r \in Paths : r # p => files'[r] = files[r]
    BY <1>1 DEF IInv, Shape
  <1>3. CASE pc = "idle"
    BY <1>1, <1>3 DEF Keeping, Took, Building, Clear, Safe
  <1>4. CASE pc # "idle"
    <2>1. ASSUME NEW r \in Paths, Taken(r)'
          PROVE  r \in late' \cup work'.agreed \/ Standing(r)' \/ ~Building
      BY <1>1, <1>2, <1>4, <2>1 DEF Keeping, Took, Taken, Standing
    <2>2. \A r \in Paths : r \in late' \/ (Own(r)' <=> Own(r))
      BY <1>1, <1>2, <1>4 DEF Own
    <2>3. ASSUME NEW q \in work.queue \cup work.later
          PROVE  Harmless(q)'
      <3>1. Harmless(q) /\ Targets(q.item) \subseteq Paths /\ q.item.from \in Paths
        BY <1>4, ItemPaths DEF IInv, Planned, Keeping, Clear
      <3>. QED  BY <1>1, <1>4, <2>2, <3>1 DEF Harmless
    <2>4. Clear'
      BY <1>1, <1>4, <2>2, <2>3 DEF IInv, Planned, Keeping, Clear
    <2>5. Safe'
      BY <1>1, <1>2, <1>4 DEF Keeping, Safe, Kept, Own
    <2>. QED  BY <1>1, <2>1, <2>4, <2>5 DEF Keeping, Took, Building
  <1>. QED  BY <1>3, <1>4

LEMMA NextKeeping ==
    ASSUME IInv, Keeping, [Next]_vars
    PROVE  Keeping'
  <1>1. ASSUME NEW cli \in Versions, NEW migrate \in BOOLEAN,
               NEW mode \in {"ask", "force", "skip", "create-new"}, Analyse(cli, migrate, mode)
        PROVE  Keeping'
    BY <1>1, AnalyseKeeping
  <1>2. CASE Decline \/ Finish \/ Stop
    BY <1>2 DEF Decline, Finish, Stop, Stopped, Keeping, Took, Building, Clear, Safe
  <1>3. CASE UNCHANGED vars
    <2>1. /\ UNCHANGED <<files, late, backups, pc, work>>
      BY <1>3 DEF vars, view, history
    <2>. QED  BY <2>1, DeclinedKeeping
  <1>. QED
    BY <1>1, <1>2, <1>3, ProceedKeeping, MigrateCanonicalKeeping, StageKeeping,
       ResolveConflictKeeping, SealKeeping, CommitKeeping, MigrateLiveKeeping,
       RetireLiveKeeping, WriteLiveKeeping, UserEditsKeeping DEF Next

LEMMA KeepingHolds == Spec => [](IInv /\ Keeping)
  <1>1. Init => IInv /\ Keeping
    BY InitInvariant, InitKeeping
  <1>2. IInv /\ Keeping /\ [Next]_vars => (IInv /\ Keeping)'
    BY NextInvariant, NextKeeping
  <1>. QED  BY <1>1, <1>2, PTL DEF Spec

\* How a step that takes what a user wrote at a path may be accounted for.
Explained(p) ==
    \/ p \in late /\ ~Retiring(p)
    \/ p \in work'.agreed
    \/ \E r \in MovedTo(p) : files'[r] = files[p]
    \/ Overwritten(p)

LEMMA CommitKeeps ==
    ASSUME IInv, Keeping, Commit, NEW p \in Paths, Lost(p)
    PROVE  Explained(p)
  <1>1. /\ p \in Canon /\ files[p] \in Custom /\ work.build.files[p] # files[p]
        /\ work' = work /\ pc = "sealed"
        /\ files' = [r \in Paths |-> IF r \in Canon THEN work.build.files[r] ELSE files[r]]
    BY DEF Commit, Lost
  <1>2. ~Retiring(p)
    BY <1>1, PathAssumption DEF Retiring
  <1>3. p \in late \cup work.agreed \/ Standing(p)
    BY <1>1 DEF Keeping, Took, Taken, Building
  <1>4. CASE Standing(p)
    <2>1. PICK item \in Items :
              /\ Renames(item) /\ item.from = p /\ item.to \in work.brought \cap Canon
              /\ \/ work.build.files[item.to] = files[p]
                 \/ /\ item.to \in work.new \cup work.auto
                    /\ work.build.files[item.to] = Templates[work.cli][item.to]
      BY <1>4 DEF Standing
    <2>2. item.to \in MovedTo(p) /\ files'[item.to] = work.build.files[item.to]
      BY <1>1, <2>1 DEF MovedTo, Paths
    <2>3. p \in late \/ files[p] \in backups
      BY <1>1, <2>1 DEF Keeping, Safe, Kept, Own
    <2>4. CASE work.build.files[item.to] = files[p]
      BY <2>2, <2>4 DEF Explained
    <2>5. CASE /\ item.to \in work.new \cup work.auto
               /\ work.build.files[item.to] = Templates[work.cli][item.to]
      BY <1>2, <2>1, <2>2, <2>3, <2>5 DEF Explained, Overwritten
    <2>. QED  BY <2>1, <2>4, <2>5
  <1>. QED  BY <1>1, <1>2, <1>3, <1>4 DEF Explained

LEMMA MigrateLiveKeeps ==
    ASSUME IInv, Keeping, MigrateLive, NEW p \in Paths, Lost(p)
    PROVE  Explained(p)
  <1>1. files[p] \in Custom /\ files'[p] # files[p] /\ pc = "live" /\ work.retire \subseteq Items
    BY DEF Lost, MigrateLive, IInv, Planned
  <1>2. PICK q \in work.later :
              \/ /\ \A r \in Paths \ Touched(q.item) : files'[r] = files[r]
                 /\ \A r \in Targets(q.item) : files'[r] = files[q.item.from]
                 /\ work'.agreed = work.agreed \cup Agreed(q)
                 /\ work'.brought = work.brought \cup Targets(q.item)
              \/ files' = Cleared(q.item)
    BY <1>1, MigrateLiveOutcome
  <1>3. /\ q.item \in Items /\ ~Retires(q.item) /\ Harmless(q)
        /\ \A r \in Touched(q.item) : r \in Live
    BY <1>1, ItemPaths DEF IInv, Planned, Keeping, Clear
  <1>4. ASSUME p \in Touched(q.item)
        PROVE  ~Retiring(p) /\ Own(p)
    <2>1. ASSUME NEW item \in work.retire, p = item.from
          PROVE  FALSE
      <3>1. item \in Items /\ Retires(item)
        BY <1>1 DEF IInv, Planned
      <3>2. item # q.item
        BY <1>3, <3>1
      <3>. QED  BY <1>3, <1>4, <2>1, <3>1, <3>2, ItemsApart DEF Touched
    <2>. QED  BY <1>1, <1>3, <1>4, <2>1 DEF Retiring, Own
  <1>5. CASE p \in Targets(q.item)
    BY <1>3, <1>4, <1>5 DEF Harmless, Explained, Touched
  <1>6. CASE p \notin Targets(q.item)
    <2>1. /\ p = q.item.from
          /\ \A r \in Targets(q.item) : files'[r] = files[q.item.from]
          /\ work'.agreed = work.agreed \cup Agreed(q)
          /\ work'.brought = work.brought \cup Targets(q.item)
      BY <1>1, <1>2, <1>6 DEF Touched, Cleared
    <2>2. CASE Renames(q.item)
      <3>1. q.item.to \in Targets(q.item)
        BY <1>3, <2>2, ItemPaths
      <3>. QED  BY <1>3, <2>1, <2>2, <3>1 DEF MovedTo, Explained
    <2>3. CASE ~Renames(q.item)
      BY <1>3, <1>4, <2>1, <2>3 DEF Harmless, Agreed, Explained, Touched
    <2>. QED  BY <2>2, <2>3
  <1>. QED  BY <1>5, <1>6

LEMMA RetireLiveKeeps ==
    ASSUME IInv, RetireLive, NEW p \in Paths
    PROVE  ~Lost(p)
  <1>1. PICK item \in work.retire :
            \/ files[item.from] \in item.allowed /\ files' = [files EXCEPT ![item.from] = None]
            \/ UNCHANGED files
    BY DEF RetireLive
  <1>2. item \in Items /\ Retires(item)
    BY DEF RetireLive, IInv, Planned
  <1>. QED  BY <1>1, <1>2, CustomAssumption DEF Lost, IInv, Shape

LEMMA WriteLiveKeeps ==
    ASSUME IInv, Keeping, WriteLive, NEW p \in Paths, Lost(p)
    PROVE  Explained(p)
  <1>1. PICK r \in work.writes :
            files' = Fresh(work.cli, {r}, files) /\ work' = [work EXCEPT !.writes = @ \ {r}]
    BY DEF WriteLive
  <1>2. p = r /\ files[p] \in Custom /\ p \in Live /\ files'[p] = Templates[work.cli][p]
    BY <1>1 DEF Lost, Fresh, WriteLive, IInv, Planned
  <1>3. /\ work.agreed = work'.agreed /\ work.retire = {} /\ ~Retiring(p)
        /\ pc = "live" /\ Own(p)
    BY <1>1, <1>2 DEF WriteLive, IInv, Planned, Fields, Retiring, Own
  <1>4. p \in work.new \cup work.auto \cup work.agreed
    BY <1>1, <1>2 DEF WriteLive, IInv, Planned
  <1>5. CASE p \in work.new \cup work.auto
    <2>1. p \in late \cup work.brought
      BY <1>3, <1>5 DEF IInv, Sure, Own
    <2>2. p \in work.brought => p \in late \/ files[p] \in backups
      BY <1>3 DEF Keeping, Safe, Kept
    <2>. QED  BY <1>2, <1>3, <1>5, <2>1, <2>2 DEF Explained, Overwritten
  <1>. QED  BY <1>3, <1>4, <1>5 DEF Explained

LEMMA NextKeeps ==
    ASSUME IInv, Keeping, [Next]_vars, NEW p \in Paths, Lost(p)
    PROVE  Explained(p)
  <1>1. files' # files /\ ~ByUser
    BY DEF Lost
  <1>2. ASSUME NEW cli \in Versions, NEW migrate \in BOOLEAN,
               NEW mode \in {"ask", "force", "skip", "create-new"}, Analyse(cli, migrate, mode)
        PROVE  FALSE
    BY <1>1, <1>2 DEF Analyse, view
  <1>3. CASE \/ Proceed \/ Decline \/ MigrateCanonical \/ Stage \/ ResolveConflict \/ Seal
             \/ Finish \/ Stop \/ UNCHANGED vars
    BY <1>1, <1>3 DEF Proceed, Decline, MigrateCanonical, Stage, ResolveConflict, Seal, Finish,
                      Stop, vars, view
  <1>4. CASE UserEdits
    <2>1. spent'.edits = spent.edits + 1 /\ spent.edits \in Nat
      BY <1>4 DEF UserEdits, IInv, Shape
    <2>. QED  BY <1>1, <2>1 DEF ByUser
  <1>. QED
    BY <1>2, <1>3, <1>4, CommitKeeps, MigrateLiveKeeps, RetireLiveKeeps, WriteLiveKeeps DEF Next

(* Whatever the templates and manifests of a release are, if no two entries *)
(* meet at a path: an update takes nothing that a user wrote unless the     *)
(* user agreed to lose it or wrote it after the analysis, and a host file   *)
(* that is retired is unlinked with known bytes only. What an entry renames *)
(* stands where the entry takes it; and where this version writes a file of *)
(* its own over it there, the snapshot of the project has it.               *)
THEOREM KeepsCustomTheorem == Spec => KeepsCustom
  <1>1. ASSUME IInv, Keeping, [Next]_vars
        PROVE  [\A p \in Paths : Lost(p) =>
                  \/ p \in late /\ ~Retiring(p)
                  \/ p \in work'.agreed
                  \/ \E r \in MovedTo(p) : files'[r] = files[p]
                  \/ Overwritten(p)]_vars
    BY <1>1, NextKeeps DEF Explained
  <1>. QED  BY <1>1, KeepingHolds, PTL DEF Spec, KeepsCustom

-----------------------------------------------------------------------------
(* What the user deleted. Wherever a hash is recorded for a file that is    *)
(* absent, the user deleted it, is about to be overruled by a deferred      *)
(* write, or touched it while the update ran.                               *)

\* What a path will hold after the commit.
Content(p) == IF p \in Canon THEN work.build.files[p] ELSE files[p]

Candidate == Building /\ ~torn =>
    \A p \in Paths : Content(p) = None /\ work.build.hashes[p] # None =>
                        p \in gone \cup late \cup work.writes

\* The paths whose hash the seal will record hold a shipped file, or will.
Recording == pc \in {"consent", "migrating", "resolving"} =>
    /\ work.hash \subseteq Shipped(work.cli)
    /\ pc # "resolving" => \A item \in work.retire : item.from \notin work.hash
    /\ \A p \in work.hash : (IF pc = "consent" THEN files[p] ELSE Content(p)) = None =>
                                p \in late \cup work.writes

Committed == pc = "live" /\ ~torn =>
    \A p \in Paths : files[p] = None /\ hashes[p] # None => p \in gone \cup work.writes

Deletions == RespectsDeletion /\ Candidate /\ Recording /\ Committed

LEMMA InitDeletions == Init => Deletions
  BY DEF Init, Deletions, RespectsDeletion, Quiet, Candidate, Building, Recording, Committed

\* Steps that stop the command before the commit, or with nothing left to do.
LEMMA StoppedDeletions ==
    ASSUME Deletions, Stopped, UNCHANGED <<files, hashes, gone>>, torn' = FALSE => torn = FALSE,
           torn' \in BOOLEAN, pc = "live" => torn' \/ work.writes = {},
           pc \in {"idle", "consent", "migrating", "resolving", "sealed", "live"}
    PROVE  Deletions'
  <1>1. RespectsDeletion'
    BY DEF Stopped, Deletions, RespectsDeletion, Quiet, Committed
  <1>. QED
    BY <1>1 DEF Stopped, Deletions, Candidate, Building, Recording, Committed

LEMMA AnalyseDeletions ==
    ASSUME IInv, Deletions, NEW cli \in Versions, NEW migrate \in BOOLEAN,
           NEW mode \in {"ask", "force", "skip", "create-new"}, Analyse(cli, migrate, mode)
    PROVE  Deletions'
  <1>. DEFINE filled == Fresh(cli, MissingHashes(cli), hashes)
  <1>1. /\ pc = "idle" /\ UNCHANGED <<files, hashes, gone, torn>>
        /\ work'.cli = cli /\ work'.hash = MissingHashes(cli) /\ work'.retire = SafeDeletes(cli)
        /\ \/ pc' = "sealed" /\ work'.build = [files |-> files, hashes |-> filled]
           \/ pc' = "consent"
           \/ pc' = "migrating" /\ work'.build = [files |-> files, hashes |-> hashes]
    BY AnalyseOutcome DEF view
  <1>2. \A p \in Paths : files[p] = None => filled[p] = hashes[p]
    BY DEF Fresh, MissingHashes, Unchanged, Shipped
  <1>3. RespectsDeletion' /\ Committed'
    BY <1>1 DEF Deletions, RespectsDeletion, Quiet, Committed
  <1>4. Candidate'
    BY <1>1, <1>2 DEF Deletions, RespectsDeletion, Quiet, Candidate, Building, Content
  <1>5. \A item \in SafeDeletes(cli) : item.from \notin MissingHashes(cli)
    BY ManifestAssumption DEF SafeDeletes, Carried, Items, MissingHashes, Unchanged
  <1>6. Recording'
    BY <1>1, <1>5 DEF Recording, Content, MissingHashes, Unchanged, Shipped
  <1>. QED  BY <1>3, <1>4, <1>6 DEF Deletions

LEMMA ProceedDeletions ==
    ASSUME IInv, Deletions, Proceed
    PROVE  Deletions'
  <1>1. /\ pc = "consent" /\ pc' = "migrating" /\ UNCHANGED <<files, hashes, gone, late, torn>>
        /\ work'.build = [files |-> files, hashes |-> hashes]
        /\ work'.cli = work.cli /\ work'.hash = work.hash /\ work'.retire = work.retire
        /\ work'.writes = work.writes
    BY DEF Proceed, Seeded, view, history, IInv, Planned, Fields
  <1>2. RespectsDeletion' /\ Committed'
    BY <1>1 DEF Deletions, RespectsDeletion, Quiet, Committed
  <1>3. Candidate'
    BY <1>1 DEF Deletions, RespectsDeletion, Quiet, Candidate, Building, Content
  <1>4. Recording'
    BY <1>1 DEF Deletions, Recording, Content, Shipped
  <1>. QED  BY <1>2, <1>3, <1>4 DEF Deletions

\* A file that moves takes its hash along; what is moved away is not shipped.
LEMMA MigrateCanonicalDeletions ==
    ASSUME IInv, Deletions, MigrateCanonical
    PROVE  Deletions'
  <1>1. /\ pc = "migrating" /\ UNCHANGED <<files, hashes, gone, late, torn>>
        /\ DOMAIN work = Fields /\ DOMAIN work.build = {"files", "hashes"}
        /\ DOMAIN work.build.files = Paths /\ DOMAIN work.build.hashes = Paths
    BY DEF MigrateCanonical, view, history, IInv, Planned, Built, Building
  <1>2. PICK q \in work.queue :
            \/ pc' = pc /\ work' = [work EXCEPT !.queue = @ \ {q}]
            \/ /\ pc' = pc /\ work.build.files[q.item.from] # None
               /\ work' = [work EXCEPT !.queue = @ \ {q}, !.build = Relocated(q.item, @),
                                       !.agreed = @ \cup Agreed(q), !.brought = @ \cup Targets(q.item)]
            \/ Stopped
    BY DEF MigrateCanonical, First
  <1>3. RespectsDeletion' /\ Committed'
    BY <1>1, <1>2 DEF Stopped, Deletions, RespectsDeletion, Quiet, Committed
  <1>4. CASE Stopped
    BY <1>3, <1>4 DEF Stopped, Deletions, Candidate, Building, Recording
  <1>5. CASE pc' = pc /\ work' = [work EXCEPT !.queue = @ \ {q}]
    <2>1. /\ work'.build = work.build /\ work'.hash = work.hash /\ work'.cli = work.cli
          /\ work'.retire = work.retire /\ work'.writes = work.writes
      BY <1>1, <1>5 DEF Fields
    <2>. QED  BY <1>1, <1>3, <1>5, <2>1 DEF Deletions, Candidate, Building, Recording, Content
  <1>6. CASE /\ pc' = pc /\ work.build.files[q.item.from] # None
             /\ work' = [work EXCEPT !.queue = @ \ {q}, !.build = Relocated(q.item, @),
                                     !.agreed = @ \cup Agreed(q), !.brought = @ \cup Targets(q.item)]
    <2>1. /\ work'.build = Relocated(q.item, work.build)
          /\ work'.hash = work.hash /\ work'.cli = work.cli
          /\ work'.retire = work.retire /\ work'.writes = work.writes
      BY <1>1, <1>6 DEF Fields
    <2>2. /\ q.item \in Items /\ Touched(q.item) \subseteq Canon
          /\ Templates[work.cli][q.item.from] = None
      BY <1>1, ManifestAssumption DEF IInv, Planned, Inside
    <2>3. \A p \in Paths :
            \/ p \in Targets(q.item) /\ work'.build.files[p] # None
            \/ p = q.item.from /\ work'.build.hashes[p] = None
            \/ p \notin Touched(q.item) /\ work'.build.files[p] = work.build.files[p]
               /\ work'.build.hashes[p] = work.build.hashes[p]
      BY <1>1, <1>6, <2>1, <2>2, CarryFrame DEF Relocated, Touched
    <2>4. Candidate'
      BY <1>1, <1>6, <2>1, <2>2, <2>3 DEF Deletions, Candidate, Building, Content, Touched
    <2>5. Recording'
      <3>1. q.item.from \notin work.hash
        BY <1>1, <2>2 DEF Deletions, Recording, Shipped
      <3>2. \A p \in work.hash : p \in Paths
        BY <1>1 DEF Deletions, Recording, Shipped
      <3>. QED
        BY <1>1, <1>6, <2>1, <2>2, <2>3, <3>1, <3>2 DEF Deletions, Recording, Content, Touched, Shipped
    <2>. QED  BY <1>3, <2>4, <2>5 DEF Deletions
  <1>. QED  BY <1>2, <1>4, <1>5, <1>6

\* What is recorded for the seal is not among what is retired.
LEMMA StageDeletions ==
    ASSUME IInv, Deletions, Stage
    PROVE  Deletions'
  <1>. DEFINE sure == work.new \cup work.auto
              dead == {p \in Canon : \E item \in work.retire :
                          p = item.from /\ work.build.files[p] \in item.allowed}
  <1>1. /\ pc = "migrating" /\ pc' = "resolving" /\ UNCHANGED <<files, hashes, gone, late, torn>>
        /\ DOMAIN work = Fields /\ DOMAIN work.build = {"files", "hashes"}
        /\ work.writes = {} /\ sure \subseteq Shipped(work.cli)
    BY DEF Stage, view, history, IInv, Planned, Built, Building
  <1>2. /\ work'.cli = work.cli /\ work'.writes = sure \cap Live /\ work'.hash = work.hash \cup sure
        /\ work'.build.files = [p \in Paths |-> IF p \in sure \cap Canon THEN Templates[work.cli][p]
                                                ELSE IF p \in dead THEN None ELSE work.build.files[p]]
        /\ work'.build.hashes = [p \in Paths |-> IF p \in dead THEN None ELSE work.build.hashes[p]]
    BY <1>1 DEF Stage, Fields
  <1>3. RespectsDeletion' /\ Committed'
    BY <1>1 DEF Deletions, RespectsDeletion, Quiet, Committed
  <1>4. Candidate'
    BY <1>1, <1>2 DEF Deletions, Candidate, Building, Content, Shipped, Paths
  <1>5. Recording'
    <2>1. \A p \in work.hash : p \in Paths /\ p \notin dead
      BY <1>1 DEF Deletions, Recording, Shipped
    <2>2. \A p \in work.hash \cup sure : Content(p)' = None => p \in late \cup work'.writes
      BY <1>1, <1>2, <2>1 DEF Deletions, Recording, Content, Shipped, Paths
    <2>. QED  BY <1>1, <1>2, <2>2 DEF Deletions, Recording, Shipped
  <1>. QED  BY <1>3, <1>4, <1>5 DEF Deletions

LEMMA ResolveConflictDeletions ==
    ASSUME IInv, Deletions, ResolveConflict
    PROVE  Deletions'
  <1>1. /\ pc = "resolving" /\ UNCHANGED <<pc, files, hashes, gone, late, torn>>
        /\ DOMAIN work = Fields /\ DOMAIN work.build = {"files", "hashes"}
        /\ work.changed \subseteq Shipped(work.cli)
    BY DEF ResolveConflict, view, history, IInv, Planned, Built, Building
  <1>2. PICK p \in work.changed :
            Overwrite(p) \/ work' = [work EXCEPT !.changed = @ \ {p}]
    BY DEF ResolveConflict
  <1>3. RespectsDeletion' /\ Committed'
    BY <1>1 DEF Deletions, RespectsDeletion, Quiet, Committed
  <1>4. CASE Overwrite(p)
    <2>1. /\ work'.cli = work.cli /\ work'.hash = work.hash \cup {p}
          /\ work'.writes = work.writes \cup ({p} \cap Live)
          /\ work'.build.hashes = work.build.hashes
      BY <1>1, <1>4 DEF Overwrite, Fields
    <2>2. work'.build.files = IF p \in Canon THEN Fresh(work.cli, {p}, work.build.files)
                                             ELSE work.build.files
      BY <1>1, <1>4 DEF Overwrite, Fields
    <2>3. p \in Live => p \in work'.writes
      BY <2>1
    <2>4. p \in Canon => work'.build.files[p] # None
      BY <1>1, <1>2, <2>2 DEF Fresh, Shipped
    <2>5. \A r \in Paths : r # p => Content(r)' = Content(r)
      BY <1>1, <2>2 DEF Content, Fresh
    <2>6. p \in Paths
      BY <1>1 DEF Shipped
    <2>7. Candidate'
      BY <1>1, <2>1, <2>3, <2>4, <2>5, <2>6 DEF Deletions, Candidate, Building, Content, Paths
    <2>8. Recording'
      BY <1>1, <2>1, <2>3, <2>4, <2>5, <2>6 DEF Deletions, Recording, Content, Shipped, Paths
    <2>. QED  BY <1>3, <2>7, <2>8 DEF Deletions
  <1>5. CASE work' = [work EXCEPT !.changed = @ \ {p}]
    <2>1. /\ work'.build = work.build /\ work'.hash = work.hash /\ work'.cli = work.cli
          /\ work'.writes = work.writes
      BY <1>1, <1>5 DEF Fields
    <2>. QED  BY <1>1, <1>3, <2>1 DEF Deletions, Candidate, Building, Recording, Content, Shipped
  <1>. QED  BY <1>2, <1>4, <1>5

LEMMA SealDeletions ==
    ASSUME IInv, Deletions, Seal
    PROVE  Deletions'
  <1>1. /\ pc = "resolving" /\ pc' = "sealed" /\ UNCHANGED <<files, hashes, gone, late, torn>>
        /\ DOMAIN work = Fields /\ DOMAIN work.build = {"files", "hashes"}
    BY DEF Seal, view, history, IInv, Planned, Built, Building
  <1>2. /\ work'.writes = work.writes /\ work'.build.files = work.build.files
        /\ work'.build.hashes = Fresh(work.cli, work.hash, work.build.hashes)
    BY <1>1 DEF Seal, Fields
  <1>3. Candidate'
    BY <1>1, <1>2 DEF Deletions, Candidate, Building, Recording, Content, Fresh
  <1>. QED
    BY <1>1, <1>3 DEF Deletions, RespectsDeletion, Quiet, Recording, Committed

LEMMA CommitDeletions ==
    ASSUME IInv, Deletions, Commit
    PROVE  Deletions'
  <1>1. /\ pc = "sealed" /\ pc' = "live" /\ UNCHANGED <<work, torn>>
        /\ \A p \in Paths : files'[p] = Content(p)
        /\ hashes' = work.build.hashes
        /\ gone' = {p \in gone \cup late : files'[p] = None}
    BY DEF Commit, Content
  <1>2. Committed'
    BY <1>1 DEF Deletions, Candidate, Building, Committed
  <1>. QED
    BY <1>1, <1>2 DEF Deletions, RespectsDeletion, Quiet, Candidate, Building, Recording

LEMMA MigrateLiveDeletions ==
    ASSUME IInv, Deletions, MigrateLive
    PROVE  Deletions'
  <1>. DEFINE now == [files |-> files, hashes |-> hashes]
  <1>1. pc = "live" /\ DOMAIN work = Fields
    BY DEF MigrateLive, IInv, Planned
  <1>2. PICK q \in work.later :
            \/ /\ UNCHANGED <<pc, files, hashes, gone, torn>>
               /\ work' = [work EXCEPT !.later = @ \ {q}]
            \/ /\ UNCHANGED <<pc, torn>> /\ files[q.item.from] # None
               /\ files' = Relocated(q.item, now).files
               /\ hashes' = Relocated(q.item, now).hashes
               /\ work' = [work EXCEPT !.later = @ \ {q}, !.agreed = @ \cup Agreed(q),
                                       !.brought = @ \cup Targets(q.item)]
               /\ gone' = {p \in gone : files'[p] = None}
            \/ Stopped /\ torn' = TRUE
    BY DEF MigrateLive, First, Exists, view, history
  <1>3. CASE Stopped /\ torn' = TRUE
    BY <1>3 DEF Stopped, Deletions, RespectsDeletion, Quiet, Candidate, Building, Recording, Committed
  <1>4. CASE /\ UNCHANGED <<pc, files, hashes, gone, torn>>
             /\ work' = [work EXCEPT !.later = @ \ {q}]
    <2>1. work'.writes = work.writes
      BY <1>1, <1>4 DEF Fields
    <2>. QED
      BY <1>1, <1>4, <2>1
      DEF Deletions, RespectsDeletion, Quiet, Candidate, Building, Recording, Committed
  <1>5. CASE /\ UNCHANGED <<pc, torn>> /\ files[q.item.from] # None
             /\ files' = Relocated(q.item, now).files
             /\ hashes' = Relocated(q.item, now).hashes
             /\ work' = [work EXCEPT !.later = @ \ {q}, !.agreed = @ \cup Agreed(q),
                                     !.brought = @ \cup Targets(q.item)]
             /\ gone' = {p \in gone : files'[p] = None}
    <2>1. work'.writes = work.writes
      BY <1>1, <1>5 DEF Fields
    <2>2. q.item \in Items /\ DOMAIN files = Paths /\ DOMAIN hashes = Paths
      BY <1>1 DEF IInv, Shape, Planned
    <2>3. \A p \in Paths :
            \/ p \in Targets(q.item) /\ files'[p] # None
            \/ p = q.item.from /\ hashes'[p] = None
            \/ p \notin Touched(q.item) /\ files'[p] = files[p] /\ hashes'[p] = hashes[p]
      BY <1>5, <2>2, CarryFrame DEF Relocated, Touched
    <2>4. Committed'
      BY <1>1, <1>5, <2>1, <2>3 DEF Deletions, Committed
    <2>. QED
      BY <1>1, <1>5, <2>4 DEF Deletions, RespectsDeletion, Quiet, Candidate, Building, Recording
  <1>. QED  BY <1>2, <1>3, <1>4, <1>5

LEMMA RetireLiveDeletions ==
    ASSUME IInv, Deletions, RetireLive
    PROVE  Deletions'
  <1>1. pc = "live" /\ UNCHANGED <<pc, gone, torn>> /\ DOMAIN work = Fields
    BY DEF RetireLive, history, IInv, Planned
  <1>2. PICK item \in work.retire :
            /\ \/ /\ files' = [files EXCEPT ![item.from] = None]
                  /\ hashes' = [hashes EXCEPT ![item.from] = None]
               \/ UNCHANGED <<files, hashes>>
            /\ work' = [work EXCEPT !.retire = @ \ {item}]
    BY DEF RetireLive
  <1>3. work'.writes = work.writes
    BY <1>1, <1>2 DEF Fields
  <1>4. Committed'
    BY <1>1, <1>2, <1>3 DEF Deletions, Committed, IInv, Shape
  <1>. QED
    BY <1>1, <1>4 DEF Deletions, RespectsDeletion, Quiet, Candidate, Building, Recording

\* A deferred write puts something there, and the deletion is overruled.
LEMMA WriteLiveDeletions ==
    ASSUME IInv, Deletions, WriteLive
    PROVE  Deletions'
  <1>1. /\ pc = "live" /\ UNCHANGED <<pc, hashes, torn>> /\ DOMAIN work = Fields
        /\ work.writes \subseteq Shipped(work.cli)
    BY DEF WriteLive, IInv, Planned
  <1>2. PICK p \in work.writes :
            /\ files' = Fresh(work.cli, {p}, files)
            /\ work' = [work EXCEPT !.writes = @ \ {p}] /\ gone' = gone \ {p}
    BY DEF WriteLive
  <1>3. work'.writes = work.writes \ {p}
    BY <1>1, <1>2 DEF Fields
  <1>4. Committed'
    BY <1>1, <1>2, <1>3 DEF Deletions, Committed, Fresh, Shipped
  <1>. QED
    BY <1>1, <1>4 DEF Deletions, RespectsDeletion, Quiet, Candidate, Building, Recording

LEMMA UserEditsDeletions ==
    ASSUME IInv, Deletions, UserEdits
    PROVE  Deletions'
  <1>1. PICK p \in Paths, content \in Custom \cup {None} :
            /\ files' = [files EXCEPT ![p] = content]
            /\ late' = IF pc = "idle" THEN late ELSE late \cup {p}
            /\ gone' = IF content = None THEN gone \cup {p} ELSE gone \ {p}
            /\ UNCHANGED <<hashes, pc, work, torn>>
    BY DEF UserEdits
  <1>2. /\ files'[p] = content /\ (content = None => p \in gone')
        /\ \A r \in Paths : r # p => files'[r] = files[r] /\ (r \in gone => r \in gone')
    BY <1>1 DEF IInv, Shape
  <1>3. RespectsDeletion' /\ Committed'
    BY <1>1, <1>2 DEF Deletions, RespectsDeletion, Quiet, Committed
  <1>4. pc # "idle" => p \in late' /\ late \subseteq late'
    BY <1>1
  <1>5. \A r \in Paths : r # p => Content(r)' = Content(r)
    BY <1>1, <1>2 DEF Content
  <1>6. Candidate'
    BY <1>1, <1>2, <1>4, <1>5 DEF Deletions, Candidate, Building
  <1>7. Recording'
    BY <1>1, <1>2, <1>4, <1>5 DEF Deletions, Recording, Shipped
  <1>. QED  BY <1>3, <1>6, <1>7 DEF Deletions

DeletionsInv == Deletions /\ torn \in BOOLEAN

LEMMA NextDeletions ==
    ASSUME IInv, DeletionsInv, [Next]_vars
    PROVE  DeletionsInv'
  <1>. USE DEF DeletionsInv
  <1>1. torn' \in BOOLEAN
    <2>1. ASSUME NEW cli, NEW migrate, NEW mode, Analyse(cli, migrate, mode)
          PROVE  torn' = torn
      BY <2>1, AnalyseOutcome
    <2>2. CASE Proceed \/ Decline \/ MigrateCanonical \/ Stage \/ ResolveConflict \/ Seal \/ Finish
      BY <2>2 DEF Proceed, Decline, MigrateCanonical, Stage, ResolveConflict, Seal, Finish, history
    <2>3. CASE Commit \/ RetireLive \/ WriteLive \/ UserEdits
      BY <2>3 DEF Commit, RetireLive, WriteLive, UserEdits, history
    <2>4. CASE MigrateLive
      <3>1. UNCHANGED history \/ torn' = torn \/ torn' = TRUE
        BY <2>4 DEF MigrateLive
      <3>. QED  BY <3>1 DEF history
    <2>5. CASE Stop
      <3>1. torn' = (torn \/ (pc = "live" /\ Unfinished))
        BY <2>5, Zenon DEF Stop
      <3>. QED  BY <3>1, Zenon
    <2>6. CASE UNCHANGED vars
      BY <2>6 DEF vars, history
    <2>. QED  BY <2>1, <2>2, <2>3, <2>4, <2>5, <2>6 DEF Next
  <1>2. CASE Decline \/ Finish
    BY <1>1, <1>2, StoppedDeletions DEF Decline, Finish, view, history, IInv, Shape
  <1>3. CASE Stop
    BY <1>1, <1>3, StoppedDeletions DEF Stop, Unfinished, view, IInv, Shape
  <1>4. CASE UNCHANGED vars
    BY <1>1, <1>4 DEF vars, view, history, Deletions, RespectsDeletion, Quiet, Candidate, Building,
                      Recording, Committed, Content
  <1>. QED
    BY <1>1, <1>2, <1>3, <1>4, AnalyseDeletions, ProceedDeletions, MigrateCanonicalDeletions,
       StageDeletions, ResolveConflictDeletions, SealDeletions, CommitDeletions,
       MigrateLiveDeletions, RetireLiveDeletions, WriteLiveDeletions, UserEditsDeletions DEF Next

(* Whatever the templates and manifests are: between updates, and while one *)
(* prepares its commit, a file that is absent although a hash is recorded   *)
(* for it is one the user deleted, so that no update takes for deleted what *)
(* it moved or replaced itself.                                             *)
THEOREM RespectsDeletionTheorem == Spec => []RespectsDeletion
  <1>1. Init => DeletionsInv
    BY InitDeletions DEF Init, DeletionsInv
  <1>2. IInv /\ DeletionsInv /\ [Next]_vars => DeletionsInv'
    BY NextDeletions
  <1>3. DeletionsInv => RespectsDeletion
    BY DEF DeletionsInv, Deletions
  <1>. QED  BY <1>1, <1>2, <1>3, Invariant, PTL DEF Spec

-----------------------------------------------------------------------------
(* Init: the import of a legacy tree.                                       *)

\* The flags of a command that runs; an import is of a legacy content.
Command ==
    ~I!At("idle") =>
        /\ DOMAIN init = {"at", "import", "first", "hadDev", "named", "from", "next"}
        /\ init.import => init.from \in Legacies

ImportSteps ==
    {"open", "migrate", "seal", "sealed", "activated", "advance", "revisit", "reopen", "commit",
     "materialize", "resume", "reconcile", "complete", "stopped"}

\* The steps of the migration, and those of the lifecycle after it.
Migrates == {"migrate", "seal", "sealed", "activated"}
Advances == ImportSteps \ (Migrates \cup {"open"})

MigrationLate == {"validated", "committed", "completed"}
LifecycleLate == {"committed", "degraded", "completed"}

\* Where a command of an import stands in the two journals.
Journals ==
    /\ init.at \in ImportSteps => init.import
    /\ I!At("plain") => ~init.import
    /\ init.at \in Migrates => lifecycle[init.from] = "planned"
    /\ init.at \in Advances => lifecycle[init.from] \notin {None, "planned"}
    /\ init.at \in {"materialize", "resume", "reconcile", "complete", "revisit", "stopped"} =>
           lifecycle[init.from] \in LifecycleLate
    /\ I!At("publish") /\ init.import => lifecycle[init.from] \in LifecycleLate
    /\ init.at \in {"seal", "sealed"} => migration[init.from] = "backed-up"
    /\ I!At("sealed") => gens[init.from] = "sealed"
    /\ I!At("activated") => migration[init.from] = "validated"

\* A validated migration has sealed its generation, and the lifecycle goes beyond
\* its plan only when the migration is complete.
InstallInv ==
    /\ legacy \in Legacies \cup {None}
    /\ DOMAIN user = I!Files /\ DOMAIN gens = I!Contents
    /\ DOMAIN migration = Legacies /\ DOMAIN lifecycle = Legacies
    /\ stops \in [runs : Nat, stops : Nat, edits : Nat]
    /\ Command /\ Journals
    /\ \A l \in Legacies :
          /\ migration[l] \in MigrationLate => gens[l] = "sealed"
          /\ lifecycle[l] \notin {None, "planned"} => migration[l] = "completed"
    /\ I!ImportStaged
    /\ I!PublishedAfterCommit

\* A command that runs and only goes on to another step.
LEMMA GoesOn ==
    ASSUME InstallInv, ~I!At("idle"), NEW step, I!Go(step)
    PROVE  /\ DOMAIN init' = DOMAIN init
           /\ init'.at = step /\ init'.import = init.import /\ init'.from = init.from
           /\ init'.first = init.first /\ init'.named = init.named /\ init'.next = init.next
BY DEF InstallInv, Command, I!At, I!Go

\* A command that ends.
LEMMA Ends ==
    ASSUME init' = I!Idle
    PROVE  Command' /\ Journals'
BY DEF I!Idle, Command, Journals, I!At, ImportSteps, Migrates, Advances

\* The journals and what they lead to, as they were.
LEMMA InstallFrame ==
    ASSUME InstallInv, UNCHANGED <<legacy, user, install, gens, migration, lifecycle>>,
           stops' \in [runs : Nat, stops : Nat, edits : Nat], Command', Journals'
    PROVE  InstallInv'
BY DEF InstallInv, I!ImportStaged, I!PublishedAfterCommit

\* A step to one that is about no journal.
LEMMA GoesAside ==
    ASSUME InstallInv, ~I!At("idle"), NEW step, I!Go(step),
           step \in {"plain", "developer", "onboard"}, step = "plain" => ~init.import
    PROVE  Command' /\ Journals'
<1>1. init'.at = step /\ init'.import = init.import /\ Command'
    BY GoesOn DEF InstallInv, Command, I!At
<1>2. step \notin ImportSteps /\ step # "publish"
    BY DEF ImportSteps
<1>3. QED
    BY <1>1, <1>2 DEF Journals, I!At, ImportSteps, Migrates, Advances

\* A record of the lifecycle: the plan where there is no journal yet, or a step of
\* an import whose migration is complete.
LEMMA LifecycleWritten ==
    ASSUME InstallInv, init.at \in ImportSteps, NEW state, NEW step, I!WriteLifecycle(state, step),
           \/ state = "planned" /\ step = "migrate" /\ lifecycle[init.from] = None
           \/ /\ state \notin {None, "planned"} /\ migration[init.from] = "completed"
              /\ lifecycle[init.from] \in LifecycleLate => state \in LifecycleLate
              /\ step \in {"advance", "materialize", "stopped", "complete", "publish"}
              /\ step # "advance" => state \in LifecycleLate,
           UNCHANGED <<legacy, user, install, gens, migration, stops>>
    PROVE  InstallInv'
<1>1. CASE init' = I!Idle /\ lifecycle' = lifecycle
    BY <1>1, Ends, InstallFrame DEF InstallInv
<1>2. CASE lifecycle' = [lifecycle EXCEPT ![init.from] = state] /\ I!Go(step)
    <2>1. /\ init.import /\ init.from \in Legacies /\ ~I!At("idle")
          /\ DOMAIN lifecycle = Legacies
        BY DEF InstallInv, Command, Journals, I!At, ImportSteps
    <2>2. /\ DOMAIN lifecycle' = Legacies /\ lifecycle'[init.from] = state
          /\ \A l \in Legacies \ {init.from} : lifecycle'[l] = lifecycle[l]
        BY <1>2, <2>1
    <2>3. init'.at = step /\ init'.import /\ init'.from = init.from /\ DOMAIN init' = DOMAIN init
        BY <1>2, <2>1, GoesOn
    <2>4. Command'
        BY <2>1, <2>3 DEF InstallInv, Command
    <2>5. Journals'
        BY <2>2, <2>3 DEF Journals, I!At, ImportSteps, Migrates, Advances
    <2>6. \A l \in Legacies : lifecycle'[l] \notin {None, "planned"} => migration[l] = "completed"
        BY <2>2 DEF InstallInv
    <2>7. \A l \in Legacies : lifecycle[l] \in LifecycleLate => lifecycle'[l] \in LifecycleLate
        <3>1. lifecycle[init.from] \in LifecycleLate => state \in LifecycleLate
            BY InstallAssumption DEF LifecycleLate, I!Before, I!After
        <3>2. QED
            BY <2>2, <3>1
    <2>8. I!PublishedAfterCommit'
        BY <2>7 DEF InstallInv, I!PublishedAfterCommit, LifecycleLate, I!After
    <2>9. QED
        BY <2>2, <2>4, <2>5, <2>6, <2>8 DEF InstallInv, I!ImportStaged
<1>3. QED
    BY <1>1, <1>2 DEF I!WriteLifecycle, I!Stop

\* A record of the migration.
LEMMA MigrationWritten ==
    ASSUME InstallInv, init.at \in Migrates, NEW state, I!WriteMigration(state, "migrate"),
           migration[init.from] # "completed",
           migration[init.from] \in MigrationLate => state \in MigrationLate,
           state \in MigrationLate => gens[init.from] = "sealed",
           UNCHANGED <<legacy, user, install, gens, lifecycle, stops>>
    PROVE  InstallInv'
<1>1. CASE init' = I!Idle /\ migration' = migration
    BY <1>1, Ends, InstallFrame DEF InstallInv
<1>2. CASE migration' = [migration EXCEPT ![init.from] = state] /\ I!Go("migrate")
    <2>1. /\ init.import /\ init.from \in Legacies /\ ~I!At("idle")
          /\ DOMAIN migration = Legacies /\ lifecycle[init.from] = "planned"
        BY DEF InstallInv, Command, Journals, I!At, ImportSteps, Migrates
    <2>2. /\ DOMAIN migration' = Legacies /\ migration'[init.from] = state
          /\ \A l \in Legacies \ {init.from} : migration'[l] = migration[l]
        BY <1>2, <2>1
    <2>3. init'.at = "migrate" /\ init'.import /\ init'.from = init.from /\ DOMAIN init' = DOMAIN init
        BY <1>2, <2>1, GoesOn
    <2>4. Command'
        BY <2>1, <2>3 DEF InstallInv, Command
    <2>5. Journals'
        BY <2>1, <2>3 DEF Journals, I!At, ImportSteps, Migrates, Advances
    <2>6. \A l \in Legacies :
            /\ migration'[l] \in MigrationLate => gens[l] = "sealed"
            /\ lifecycle[l] \notin {None, "planned"} => migration'[l] = "completed"
            /\ migration[l] \in MigrationLate => migration'[l] \in MigrationLate
            /\ migration[l] = "completed" => migration'[l] = "completed"
        BY <2>1, <2>2 DEF InstallInv
    <2>7. I!ImportStaged'
        BY <2>6 DEF InstallInv, I!ImportStaged, MigrationLate, I!Pointer
    <2>8. QED
        BY <2>2, <2>4, <2>5, <2>6, <2>7 DEF InstallInv, I!PublishedAfterCommit
<1>3. QED
    BY <1>1, <1>2 DEF I!WriteMigration, I!Stop

-----------------------------------------------------------------------------

\* A new command has no journal in hand yet.
LEMMA CommandBegins ==
    ASSUME InstallInv, I!Import \/ I!FullInit \/ I!Reinit
    PROVE  InstallInv'
<1>1. /\ UNCHANGED <<legacy, user, install, gens, migration, lifecycle>>
      /\ stops' = [stops EXCEPT !.runs = @ + 1]
    BY DEF I!Import, I!FullInit, I!Reinit, I!Begin, I!disk
<1>2. stops' \in [runs : Nat, stops : Nat, edits : Nat]
    BY <1>1 DEF InstallInv
<1>3. init'.at \in {"build", "developer"} /\ Command'
    <2>1. ASSUME NEW import \in BOOLEAN, NEW named \in BOOLEAN, import => legacy # None,
                 init' = I!Command(import, named)
          PROVE  init'.at \in {"build", "developer"} /\ Command'
        BY <2>1 DEF InstallInv, I!Command, Command
    <2>2. ASSUME init' = [I!Command(FALSE, TRUE) EXCEPT !.at = "developer"]
          PROVE  init'.at \in {"build", "developer"} /\ Command'
        BY <2>2 DEF I!Command, Command
    <2>3. QED
        BY <2>1, <2>2 DEF I!Import, I!ImportAccepted, I!FullInit, I!Reinit, I!Begin
<1>4. Journals'
    BY <1>3 DEF Journals, I!At, ImportSteps, Migrates, Advances
<1>5. QED
    BY <1>1, <1>2, <1>3, <1>4, InstallFrame

\* The build, and the lifecycle of an init that imports nothing.
LEMMA BuildSteps ==
    ASSUME InstallInv, I!Build \/ I!PlainCommit \/ I!PlainFails
    PROVE  InstallInv'
<1>1. CASE I!Build
    <2>1. /\ UNCHANGED <<legacy, user, install, gens, migration, lifecycle, stops>>
          /\ ~I!At("idle") /\ I!Go(IF init.import THEN "open" ELSE "plain")
        BY <1>1 DEF I!Build, I!At
    <2>2. CASE init.import
        <3>1. init'.at = "open" /\ init'.import /\ init'.from = init.from /\ Command'
            BY <2>1, <2>2, GoesOn DEF InstallInv, Command
        <3>2. Journals'
            BY <3>1 DEF Journals, I!At, ImportSteps, Migrates, Advances
        <3>3. QED
            BY <2>1, <3>1, <3>2, InstallFrame DEF InstallInv
    <2>3. CASE ~init.import
        BY <2>1, <2>3, GoesAside, InstallFrame DEF InstallInv
    <2>4. QED
        BY <2>2, <2>3
<1>2. CASE I!PlainCommit
    <2>1. /\ UNCHANGED <<legacy, user, migration, lifecycle, stops>>
          /\ gens' = [gens EXCEPT ![init.from] = "sealed"] /\ install' = I!Pointer("plain", init.from)
          /\ I!At("plain")
          /\ I!Go("publish") \/ I!Go("developer") \/ I!Stop
        BY <1>2 DEF I!PlainCommit
    <2>2. DOMAIN gens' = I!Contents /\ \A l \in Legacies : gens[l] = "sealed" => gens'[l] = "sealed"
        BY <2>1 DEF InstallInv, I!Contents
    <2>3. Command' /\ Journals'
        <3>1. CASE I!Go("publish")
            <4>1. ~init.import /\ init'.at = "publish" /\ ~init'.import /\ Command'
                BY <2>1, <3>1, GoesOn DEF InstallInv, Command, Journals, I!At
            <4>2. QED
                BY <4>1 DEF Journals, I!At, ImportSteps, Migrates, Advances
        <3>2. CASE I!Go("developer")
            BY <2>1, <3>2, GoesAside DEF I!At
        <3>3. CASE I!Stop
            BY <3>3, Ends DEF I!Stop
        <3>4. QED
            BY <2>1, <3>1, <3>2, <3>3
    <2>4. I!ImportStaged'
        BY <2>1 DEF I!ImportStaged, I!Pointer
    <2>5. QED
        BY <2>1, <2>2, <2>3, <2>4 DEF InstallInv, I!PublishedAfterCommit
<1>3. CASE I!PlainFails
    BY <1>3, Ends, InstallFrame DEF InstallInv, I!PlainFails, I!Stop, I!disk
<1>4. QED
    BY <1>1, <1>2, <1>3

\* The migration: each record follows from the one before, and the generation is
\* sealed before the record that counts on it.
LEMMA MigrationSteps ==
    ASSUME InstallInv,
           \/ I!MigrationRecords \/ I!MigrationStages \/ I!MigrationSeals \/ I!MigrationStaged
           \/ I!MigrationValidates \/ I!MigrationActivates \/ I!MigrationCommitted \/ I!MigrationDone
    PROVE  InstallInv'
<1>1. init.at \in Migrates
    BY DEF I!MigrationRecords, I!MigrationStages, I!MigrationSeals, I!MigrationStaged,
           I!MigrationValidates, I!MigrationActivates, I!MigrationCommitted, I!MigrationDone,
           I!Migrating, I!At, Migrates
<1>2. /\ init.import /\ init.from \in Legacies /\ ~I!At("idle") /\ lifecycle[init.from] = "planned"
      /\ DOMAIN gens = I!Contents /\ init.from \in I!Contents
    BY <1>1 DEF InstallInv, Command, Journals, I!At, ImportSteps, Migrates, I!Contents
<1>3. CASE I!MigrationRecords
    <2>1. PICK state \in {None, "planned", "committed"} :
             I!Migrating(state) /\ I!WriteMigration(I!MigrationNext(state), "migrate")
        BY <1>3 DEF I!MigrationRecords
    <2>2. /\ migration[init.from] = state
          /\ UNCHANGED <<legacy, user, install, gens, lifecycle, stops>>
        BY <1>3, <2>1 DEF I!MigrationRecords, I!Migrating
    <2>3. PICK next : next = I!MigrationNext(state)
        OBVIOUS
    <2>4. next = IF state = None THEN "planned" ELSE IF state = "planned" THEN "backed-up" ELSE "completed"
        BY <2>1, <2>3, InstallAssumption DEF I!MigrationNext, I!Before, I!After
    <2>5. /\ migration[init.from] # "completed"
          /\ migration[init.from] \in MigrationLate => next \in MigrationLate
          /\ next \in MigrationLate => gens[init.from] = "sealed"
        BY <1>2, <2>1, <2>2, <2>4, InstallAssumption DEF InstallInv, MigrationLate, I!Before, I!After
    <2>6. I!WriteMigration(next, "migrate")
        BY <2>1, <2>3
    <2>7. QED
        BY <1>1, <2>2, <2>5, <2>6, MigrationWritten
<1>4. CASE I!MigrationStages
    <2>1. /\ UNCHANGED <<legacy, user, install, migration, lifecycle, stops>>
          /\ migration[init.from] = "backed-up" /\ I!At("migrate")
          /\ \/ /\ gens[init.from] = "absent" /\ gens' = [gens EXCEPT ![init.from] = "staging"]
                /\ I!Go("seal")
             \/ init' = I!Idle /\ gens' = gens
        BY <1>4 DEF I!MigrationStages, I!Migrating, I!Stop
    <2>2. CASE init' = I!Idle /\ gens' = gens
        BY <2>1, <2>2, Ends, InstallFrame DEF InstallInv
    <2>3. CASE /\ gens[init.from] = "absent" /\ gens' = [gens EXCEPT ![init.from] = "staging"]
               /\ I!Go("seal")
        <3>1. DOMAIN gens' = I!Contents /\ \A l \in Legacies : gens[l] = "sealed" => gens'[l] = "sealed"
            BY <1>2, <2>3 DEF I!Contents
        <3>2. init'.at = "seal" /\ init'.import /\ init'.from = init.from /\ Command'
            BY <1>2, <2>3, GoesOn DEF InstallInv, Command
        <3>3. Journals'
            BY <1>2, <2>1, <3>2 DEF Journals, I!At, ImportSteps, Migrates, Advances
        <3>4. QED
            BY <2>1, <3>1, <3>2, <3>3 DEF InstallInv, I!ImportStaged, I!PublishedAfterCommit
    <2>4. QED
        BY <2>1, <2>2, <2>3
<1>5. CASE I!MigrationSeals
    <2>1. /\ UNCHANGED <<legacy, user, install, migration, lifecycle, stops>>
          /\ I!At("seal") /\ migration[init.from] = "backed-up"
          /\ gens' = [gens EXCEPT ![init.from] = "sealed"] /\ I!Go("sealed")
        BY <1>5 DEF I!MigrationSeals, InstallInv, Journals, I!At
    <2>2. /\ DOMAIN gens' = I!Contents /\ gens'[init.from] = "sealed"
          /\ \A l \in Legacies : gens[l] = "sealed" => gens'[l] = "sealed"
        BY <1>2, <2>1 DEF I!Contents
    <2>3. init'.at = "sealed" /\ init'.import /\ init'.from = init.from /\ Command'
        BY <1>2, <2>1, GoesOn DEF InstallInv, Command
    <2>4. Journals'
        BY <1>2, <2>1, <2>2, <2>3 DEF Journals, I!At, ImportSteps, Migrates, Advances
    <2>5. QED
        BY <2>1, <2>2, <2>3, <2>4 DEF InstallInv, I!ImportStaged, I!PublishedAfterCommit
<1>6. CASE I!MigrationStaged
    <2>1. /\ UNCHANGED <<legacy, user, install, gens, lifecycle, stops>>
          /\ I!WriteMigration("staged", "migrate") /\ migration[init.from] = "backed-up"
        BY <1>6 DEF I!MigrationStaged, InstallInv, Journals, I!At
    <2>2. QED
        BY <1>1, <2>1, MigrationWritten DEF MigrationLate
<1>7. CASE I!MigrationValidates
    <2>1. /\ UNCHANGED <<legacy, user, install, gens, lifecycle, stops>>
          /\ migration[init.from] = "staged"
          /\ \/ gens[init.from] = "sealed" /\ I!WriteMigration("validated", "migrate")
             \/ init' = I!Idle /\ migration' = migration
        BY <1>7 DEF I!MigrationValidates, I!Migrating, I!Stop
    <2>2. CASE init' = I!Idle /\ migration' = migration
        BY <2>1, <2>2, Ends, InstallFrame DEF InstallInv
    <2>3. CASE gens[init.from] = "sealed" /\ I!WriteMigration("validated", "migrate")
        BY <1>1, <2>1, <2>3, MigrationWritten DEF MigrationLate
    <2>4. QED
        BY <2>1, <2>2, <2>3
<1>8. CASE I!MigrationActivates
    <2>1. /\ UNCHANGED <<legacy, user, gens, migration, lifecycle, stops>>
          /\ migration[init.from] = "validated"
          /\ install' = I!Pointer("canonical", init.from) /\ I!Go("activated")
        BY <1>8 DEF I!MigrationActivates, I!Migrating
    <2>2. init'.at = "activated" /\ init'.import /\ init'.from = init.from /\ Command'
        BY <1>2, <2>1, GoesOn DEF InstallInv, Command
    <2>3. Journals'
        BY <1>2, <2>1, <2>2 DEF Journals, I!At, ImportSteps, Migrates, Advances
    <2>4. I!ImportStaged'
        BY <1>2, <2>1 DEF InstallInv, I!ImportStaged, I!Pointer, MigrationLate
    <2>5. QED
        BY <2>1, <2>2, <2>3, <2>4 DEF InstallInv, I!PublishedAfterCommit
<1>9. CASE I!MigrationCommitted
    <2>1. /\ UNCHANGED <<legacy, user, install, gens, lifecycle, stops>>
          /\ I!WriteMigration("committed", "migrate") /\ migration[init.from] = "validated"
          /\ gens[init.from] = "sealed"
        BY <1>2, <1>9 DEF I!MigrationCommitted, InstallInv, Journals, I!At, MigrationLate
    <2>2. QED
        BY <1>1, <2>1, MigrationWritten DEF MigrationLate
<1>10. CASE I!MigrationDone
    <2>1. /\ UNCHANGED <<legacy, user, install, gens, migration, stops>>
          /\ I!WriteLifecycle("backed-up", "advance") /\ migration[init.from] = "completed"
        BY <1>10 DEF I!MigrationDone, I!Migrating
    <2>2. init.at \in ImportSteps /\ lifecycle[init.from] \notin LifecycleLate
        BY <1>1, <1>2 DEF Migrates, ImportSteps, LifecycleLate
    <2>3. "backed-up" \notin {None, "planned"}
        BY InstallAssumption DEF I!Before
    <2>4. QED
        BY <2>1, <2>2, <2>3, LifecycleWritten
<1>11. QED
    BY <1>3, <1>4, <1>5, <1>6, <1>7, <1>8, <1>9, <1>10

\* A step of an import that leaves the records alone, towards one that its
\* lifecycle allows.
LEMMA LifecycleGoes ==
    ASSUME InstallInv, init.at \in ImportSteps, NEW step, I!Go(step),
           step \in ImportSteps \cup {"publish"},
           step \notin {"seal", "sealed", "activated"},
           step = "migrate" => lifecycle[init.from] = "planned",
           step \in Advances => lifecycle[init.from] \notin {None, "planned"},
           step \in {"materialize", "resume", "reconcile", "complete", "revisit", "stopped", "publish"} =>
               lifecycle[init.from] \in LifecycleLate,
           lifecycle' = lifecycle
    PROVE  Command' /\ Journals'
<1>1. init.import /\ init.from \in Legacies /\ ~I!At("idle")
    BY DEF InstallInv, Command, Journals, I!At, ImportSteps
<1>2. init'.at = step /\ init'.import /\ init'.from = init.from /\ Command'
    BY <1>1, GoesOn DEF InstallInv, Command
<1>3. QED
    BY <1>2 DEF Journals, I!At, ImportSteps, Migrates, Advances

\* The lifecycle of an import: it goes on from its journal, and takes the pointer
\* over only from a migration that is complete.
LEMMA LifecycleSteps ==
    ASSUME InstallInv,
           \/ I!Open \/ I!Advance \/ I!Activate \/ I!RecordCommit \/ I!Revisit \/ I!Materialize
           \/ I!Reconcile \/ I!Complete \/ I!Stopped
    PROVE  InstallInv'
<1>1. init.at \in Advances \cup {"open"} /\ init.at \in ImportSteps
    BY DEF I!Open, I!Advance, I!Advancing, I!Activate, I!RecordCommit, I!Revisit, I!Materialize,
           I!Reconcile, I!Complete, I!Stopped, I!At, Advances, ImportSteps, Migrates
<1>2. /\ init.import /\ init.from \in Legacies /\ ~I!At("idle")
      /\ init.at \in Advances =>
            lifecycle[init.from] \notin {None, "planned"} /\ migration[init.from] = "completed"
      /\ UNCHANGED <<legacy, user, gens, migration>> /\ stops' \in [runs : Nat, stops : Nat, edits : Nat]
    BY <1>1 DEF InstallInv, Command, Journals, ImportSteps, I!At, I!disk,
                I!Open, I!Advance, I!Activate, I!RecordCommit, I!Revisit, I!Materialize,
                I!Reconcile, I!Complete, I!Stopped
<1>3. CASE I!Open
    <2>1. /\ UNCHANGED <<legacy, user, install, gens, migration, stops>>
          /\ IF lifecycle[init.from] = None THEN I!WriteLifecycle("planned", "migrate")
             ELSE /\ lifecycle' = lifecycle
                  /\ I!Go(CASE lifecycle[init.from] = "planned" -> "migrate"
                            [] lifecycle[init.from] = "completed" -> "revisit"
                            [] lifecycle[init.from] \in I!After -> "resume"
                            [] OTHER -> "advance")
        BY <1>3 DEF I!Open
    <2>2. CASE lifecycle[init.from] = None
        BY <1>1, <2>1, <2>2, LifecycleWritten
    <2>3. CASE lifecycle[init.from] # None
        <3>1. PICK step : step = CASE lifecycle[init.from] = "planned" -> "migrate"
                                   [] lifecycle[init.from] = "completed" -> "revisit"
                                   [] lifecycle[init.from] \in I!After -> "resume"
                                   [] OTHER -> "advance"
            OBVIOUS
        <3>2. /\ step \in {"migrate", "revisit", "resume", "advance"}
              /\ step = "migrate" <=> lifecycle[init.from] = "planned"
              /\ step \in {"revisit", "resume"} => lifecycle[init.from] \in LifecycleLate
            BY <3>1 DEF I!After, LifecycleLate
        <3>3. I!Go(step)
            BY <2>1, <2>3, <3>1
        <3>4. Command' /\ Journals'
            BY <1>1, <2>1, <2>3, <3>2, <3>3, LifecycleGoes DEF ImportSteps, Advances, Migrates
        <3>5. QED
            BY <2>1, <2>3, <3>4, InstallFrame DEF InstallInv
    <2>4. QED
        BY <2>2, <2>3
<1>4. CASE I!Advance
    <2>1. /\ UNCHANGED <<legacy, user, install, gens, migration, stops>> /\ init.at = "advance"
          /\ \/ lifecycle[init.from] = "backed-up" /\ I!WriteLifecycle("staged", "advance")
             \/ lifecycle[init.from] = "staged" /\ I!WriteLifecycle("validated", "advance")
        BY <1>4 DEF I!Advance, I!Advancing, I!At
    <2>2. {"staged", "validated"} \cap {None, "planned"} = {} /\ migration[init.from] = "completed"
        BY <1>2, <2>1, InstallAssumption DEF I!Before, Advances, ImportSteps, Migrates
    <2>3. lifecycle[init.from] \notin LifecycleLate
        BY <2>1 DEF LifecycleLate
    <2>4. QED
        BY <1>1, <2>1, <2>2, <2>3, LifecycleWritten
<1>5. CASE I!Activate
    <2>1. /\ UNCHANGED <<legacy, user, gens, migration, lifecycle, stops>>
          /\ init.at \in {"advance", "reopen"}
          /\ \/ install' = I!Pointer("import", init.from) /\ I!Go("commit")
             \/ install' = install /\ init' = I!Idle
        BY <1>5 DEF I!Activate, I!Advancing, I!At, I!Stop
    <2>2. CASE install' = install /\ init' = I!Idle
        BY <2>1, <2>2, Ends, InstallFrame DEF InstallInv
    <2>3. CASE install' = I!Pointer("import", init.from) /\ I!Go("commit")
        <3>1. lifecycle[init.from] \notin {None, "planned"} /\ migration[init.from] = "completed"
            BY <1>2, <2>1 DEF Advances, ImportSteps, Migrates
        <3>2. Command' /\ Journals'
            BY <1>1, <2>1, <2>3, <3>1, LifecycleGoes DEF ImportSteps, Advances, Migrates
        <3>3. I!ImportStaged'
            BY <1>2, <2>1, <2>3, <3>1 DEF InstallInv, I!ImportStaged, I!Pointer, MigrationLate
        <3>4. QED
            BY <2>1, <3>2, <3>3 DEF InstallInv, I!PublishedAfterCommit
    <2>4. QED
        BY <2>1, <2>2, <2>3
<1>6. CASE I!RecordCommit
    <2>1. /\ UNCHANGED <<legacy, user, install, gens, migration, stops>> /\ init.at = "commit"
          /\ I!WriteLifecycle("committed", "materialize")
        BY <1>6 DEF I!RecordCommit, I!At
    <2>2. "committed" # None /\ migration[init.from] = "completed"
        BY <1>2, <2>1, InstallAssumption DEF I!After, Advances, ImportSteps, Migrates
    <2>3. "committed" \in LifecycleLate
        BY DEF LifecycleLate
    <2>4. QED
        BY <1>1, <2>1, <2>2, <2>3, LifecycleWritten
<1>7. CASE I!Revisit
    <2>1. /\ UNCHANGED <<legacy, user, install, gens, migration, lifecycle, stops>>
          /\ init.at = "revisit" /\ (I!Go("publish") \/ I!Go("reopen"))
        BY <1>7 DEF I!Revisit, I!At
    <2>2. lifecycle[init.from] \in LifecycleLate /\ lifecycle[init.from] \notin {None, "planned"}
        BY <1>2, <2>1 DEF InstallInv, Journals, Advances, ImportSteps, Migrates
    <2>3. Command' /\ Journals'
        BY <1>1, <2>1, <2>2, LifecycleGoes DEF ImportSteps, Advances, Migrates
    <2>4. QED
        BY <2>1, <2>3, InstallFrame DEF InstallInv
<1>8. CASE I!Materialize
    <2>1. /\ UNCHANGED <<legacy, user, install, gens, migration, lifecycle, stops>>
          /\ init.at \in {"materialize", "resume"} /\ I!Go("reconcile")
        BY <1>8 DEF I!Materialize, I!At
    <2>2. lifecycle[init.from] \in LifecycleLate /\ lifecycle[init.from] \notin {None, "planned"}
        BY <1>2, <2>1 DEF InstallInv, Journals, Advances, ImportSteps, Migrates
    <2>3. Command' /\ Journals'
        BY <1>1, <2>1, <2>2, LifecycleGoes DEF ImportSteps, Advances, Migrates
    <2>4. QED
        BY <2>1, <2>3, InstallFrame DEF InstallInv
<1>9. CASE I!Reconcile
    <2>1. PICK state \in {"committed", "degraded"}, step \in {"stopped", "complete", "publish"} :
             I!WriteLifecycle(state, step)
        <3>1. PICK ok \in BOOLEAN :
                 I!WriteLifecycle(IF ok THEN "committed" ELSE "degraded",
                                  IF install # I!Pointer("import", init.from) THEN "stopped"
                                  ELSE IF ok THEN "complete" ELSE "publish")
            BY <1>9 DEF I!Reconcile
        <3>2. QED
            BY <3>1
    <2>2. UNCHANGED <<legacy, user, install, gens, migration, stops>> /\ init.at = "reconcile"
        BY <1>9 DEF I!Reconcile, I!At
    <2>3. state \notin {None, "planned"} /\ state \in LifecycleLate /\ migration[init.from] = "completed"
        BY <1>2, <2>2, InstallAssumption DEF I!After, LifecycleLate, Advances, ImportSteps, Migrates
    <2>4. QED
        BY <1>1, <2>1, <2>2, <2>3, LifecycleWritten
<1>10. CASE I!Complete
    <2>1. /\ UNCHANGED <<legacy, user, install, gens, migration, stops>> /\ init.at = "complete"
          /\ I!WriteLifecycle("completed", "publish")
        BY <1>10 DEF I!Complete, I!At
    <2>2. "completed" # None /\ migration[init.from] = "completed"
        BY <1>2, <2>1, InstallAssumption DEF Advances, ImportSteps, Migrates
    <2>3. "completed" \in LifecycleLate
        BY DEF LifecycleLate
    <2>4. QED
        BY <1>1, <2>1, <2>2, <2>3, LifecycleWritten
<1>11. CASE I!Stopped
    BY <1>11, Ends, InstallFrame DEF InstallInv, I!Stopped, I!Stop, I!disk
<1>12. QED
    BY <1>3, <1>4, <1>5, <1>6, <1>7, <1>8, <1>9, <1>10, <1>11

\* What is published of a legacy tree comes from one whose import was committed.
LEMMA PublishSteps ==
    ASSUME InstallInv, I!Publish \/ I!Published
    PROVE  InstallInv'
<1>1. /\ I!At("publish") /\ ~I!At("idle")
      /\ UNCHANGED <<legacy, install, gens, migration, lifecycle, stops>>
    BY DEF I!Publish, I!Published, I!disk, I!At
<1>2. CASE I!Published
    <2>1. user' = user /\ (I!Go("developer") \/ I!Stop)
        BY <1>2 DEF I!Published, I!disk
    <2>2. Command' /\ Journals'
        BY <1>1, <2>1, GoesAside, Ends DEF I!Stop
    <2>3. QED
        BY <1>1, <2>1, <2>2, InstallFrame DEF InstallInv
<1>3. CASE I!Publish
    <2>1. PICK f : f = I!UserFiles[init.next]
        OBVIOUS
    <2>2. /\ user' = user \/ user' = [user EXCEPT ![f] = I!Prepared(f)]
          /\ init' = [init EXCEPT !.next = @ + 1] \/ init' = I!Idle
        BY <1>3, <2>1 DEF I!Publish
    <2>3. Command' /\ Journals'
        <3>1. CASE init' = [init EXCEPT !.next = @ + 1]
            <4>1. DOMAIN init' = DOMAIN init /\ init'.at = init.at /\ init'.import = init.import /\ init'.from = init.from
                BY <1>1, <3>1 DEF InstallInv, Command
            <4>2. QED
                BY <1>1, <4>1 DEF InstallInv, Command, Journals, I!At
        <3>2. QED
            BY <2>2, <3>1, Ends
    <2>4. I!Prepared(f) \in Legacies => lifecycle[I!Prepared(f)] \in LifecycleLate
        BY <1>1, InstallAssumption DEF InstallInv, Journals, I!Prepared
    <2>5. DOMAIN user' = I!Files /\ \A g \in I!Files : user'[g] \in {user[g], I!Prepared(f)}
        BY <2>2 DEF InstallInv
    <2>6. I!PublishedAfterCommit'
        BY <1>1, <2>4, <2>5 DEF InstallInv, I!PublishedAfterCommit, LifecycleLate, I!After
    <2>7. QED
        BY <1>1, <2>3, <2>5, <2>6 DEF InstallInv, I!ImportStaged
<1>4. QED
    BY <1>2, <1>3

\* The developer and the tasks of the project.
LEMMA OnboardSteps ==
    ASSUME InstallInv, I!InitDeveloper \/ I!Onboard \/ I!Fill
    PROVE  InstallInv'
<1>1. UNCHANGED <<legacy, install, gens, migration, lifecycle, stops>> /\ ~I!At("idle")
    BY DEF I!InitDeveloper, I!Onboard, I!Fill, I!At
<1>2. CASE I!InitDeveloper
    <2>1. /\ user' = user \/ user' = [user EXCEPT !["developer"] = Mine]
          /\ I!Go("onboard")
        BY <1>2 DEF I!InitDeveloper
    <2>2. DOMAIN user' = I!Files /\ \A f \in I!Files : user'[f] \in {user[f], Mine}
        BY <2>1 DEF InstallInv
    <2>3. Command' /\ Journals'
        BY <1>1, <2>1, GoesAside
    <2>4. I!PublishedAfterCommit'
        BY <1>1, <2>2, InstallAssumption DEF InstallInv, I!PublishedAfterCommit
    <2>5. QED
        BY <1>1, <2>2, <2>3, <2>4 DEF InstallInv, I!ImportStaged
<1>3. CASE I!Onboard \/ I!Fill
    <2>1. /\ user' = user
          /\ init' = I!Idle \/ init' = [init EXCEPT !.at = "fill", !.next = I!Onboarding]
        BY <1>3 DEF I!Onboard, I!Fill, I!Stop
    <2>2. CASE init' = [init EXCEPT !.at = "fill", !.next = I!Onboarding]
        <3>1. DOMAIN init' = DOMAIN init /\ init'.at = "fill" /\ init'.import = init.import /\ init'.from = init.from
            BY <1>1, <2>2 DEF InstallInv, Command
        <3>2. QED
            BY <1>1, <2>1, <3>1, InstallFrame
               DEF InstallInv, Command, Journals, I!At, ImportSteps, Migrates, Advances
    <2>3. QED
        BY <1>1, <2>1, <2>2, Ends, InstallFrame DEF InstallInv
<1>4. QED
    BY <1>2, <1>3

\* A process that is killed, and the user.
LEMMA OutsideSteps ==
    ASSUME InstallInv, I!Kill \/ I!UserEdits
    PROVE  InstallInv'
<1>1. CASE I!Kill
    <2>1. /\ UNCHANGED <<legacy, user, install, migration, lifecycle>> /\ init' = I!Idle
          /\ stops' = [stops EXCEPT !.stops = @ + 1]
          /\ \/ gens' = gens
             \/ gens[init.from] = "absent" /\ gens' = [gens EXCEPT ![init.from] = "staging"]
        BY <1>1 DEF I!Kill, I!Stop
    <2>2. DOMAIN gens' = I!Contents /\ \A l \in Legacies : gens[l] = "sealed" => gens'[l] = "sealed"
        BY <2>1 DEF InstallInv, I!Contents
    <2>3. stops' \in [runs : Nat, stops : Nat, edits : Nat]
        BY <2>1 DEF InstallInv
    <2>4. QED
        BY <2>1, <2>2, <2>3, Ends DEF InstallInv, I!ImportStaged, I!PublishedAfterCommit
<1>2. CASE I!UserEdits
    <2>1. /\ UNCHANGED <<install, gens, migration, lifecycle, init>>
          /\ stops' = [stops EXCEPT !.edits = @ + 1]
          /\ legacy' \in Legacies \/ legacy' = legacy
          /\ user' = user \/ user' = [user EXCEPT !["tasks"] = Mine]
        BY <1>2 DEF I!UserEdits
    <2>2. DOMAIN user' = I!Files /\ \A f \in I!Files : user'[f] \in {user[f], Mine}
        BY <2>1 DEF InstallInv
    <2>3. stops' \in [runs : Nat, stops : Nat, edits : Nat] /\ legacy' \in Legacies \cup {None}
        BY <2>1 DEF InstallInv
    <2>4. Command' /\ Journals'
        BY <2>1 DEF InstallInv, Command, Journals, I!At
    <2>5. I!PublishedAfterCommit'
        BY <2>1, <2>2, InstallAssumption DEF InstallInv, I!PublishedAfterCommit
    <2>6. QED
        BY <2>1, <2>2, <2>3, <2>4, <2>5 DEF InstallInv, I!ImportStaged
<1>3. QED
    BY <1>1, <1>2

LEMMA InstallInit ==
    ASSUME I!Init
    PROVE  InstallInv
<1>1. init = I!Idle
    BY DEF I!Init
<1>2. Command /\ Journals
    BY <1>1 DEF I!Idle, Command, Journals, I!At, ImportSteps, Migrates, Advances
<1>3. /\ DOMAIN user = I!Files /\ \A f \in I!Files : user[f] \in {Mine, None}
      /\ stops \in [runs : Nat, stops : Nat, edits : Nat] /\ legacy \in Legacies \cup {None}
      /\ install = None
      /\ DOMAIN gens = I!Contents /\ DOMAIN migration = Legacies /\ DOMAIN lifecycle = Legacies
      /\ \A l \in Legacies : migration[l] = None /\ lifecycle[l] = None
    BY DEF I!Init
<1>4. I!ImportStaged
    BY <1>3, InstallAssumption DEF I!ImportStaged, I!Pointer
<1>5. \A l \in Legacies : migration[l] \notin MigrationLate
    BY <1>3, InstallAssumption DEF MigrationLate, I!Before, I!After
<1>6. I!PublishedAfterCommit
    BY <1>3, InstallAssumption DEF I!PublishedAfterCommit
<1>7. QED
    BY <1>2, <1>3, <1>4, <1>5, <1>6 DEF InstallInv

LEMMA InstallStep ==
    ASSUME InstallInv, I!Next
    PROVE  InstallInv'
BY CommandBegins, BuildSteps, MigrationSteps, LifecycleSteps, PublishSteps, OnboardSteps, OutsideSteps
   DEF I!Next, I!Step

\* What the user has is written by nobody but the user.
LEMMA InstallKeeps ==
    ASSUME InstallInv, I!Next, stops'.edits = stops.edits, NEW f \in I!Files, user[f] # None
    PROVE  user'[f] = user[f]
<1>1. CASE I!UserEdits
    BY <1>1 DEF I!UserEdits, InstallInv
<1>2. CASE I!Publish
    <2>1. PICK g : g = I!UserFiles[init.next]
        OBVIOUS
    <2>2. user' = user \/ (user[g] = None /\ user' = [user EXCEPT ![g] = I!Prepared(g)])
        BY <1>2, <2>1 DEF I!Publish
    <2>3. QED
        BY <2>2 DEF InstallInv
<1>3. CASE I!InitDeveloper
    BY <1>3 DEF I!InitDeveloper, InstallInv
<1>4. CASE I!Import \/ I!FullInit \/ I!Reinit \/ I!Published \/ I!PlainFails \/ I!Stopped
    BY <1>4 DEF I!Import, I!FullInit, I!Reinit, I!Begin, I!Published, I!PlainFails, I!Stopped, I!disk
<1>5. ASSUME \/ I!Build \/ I!PlainCommit \/ I!Open \/ I!Onboard \/ I!Fill \/ I!Kill
             \/ I!Advance \/ I!Activate \/ I!RecordCommit \/ I!Revisit \/ I!Materialize
             \/ I!Reconcile \/ I!Complete
      PROVE  user' = user
    BY <1>5 DEF I!Build, I!PlainCommit, I!Open, I!Onboard, I!Fill, I!Kill, I!Advance, I!Activate,
                I!RecordCommit, I!Revisit, I!Materialize, I!Reconcile, I!Complete
<1>6. ASSUME \/ I!MigrationRecords \/ I!MigrationStages \/ I!MigrationSeals \/ I!MigrationStaged
             \/ I!MigrationValidates \/ I!MigrationActivates \/ I!MigrationCommitted \/ I!MigrationDone
      PROVE  user' = user
    BY <1>6 DEF I!MigrationRecords, I!MigrationStages, I!MigrationSeals, I!MigrationStaged,
                I!MigrationValidates, I!MigrationActivates, I!MigrationCommitted, I!MigrationDone
<1>7. QED
    BY <1>1, <1>2, <1>3, <1>4, <1>5, <1>6 DEF I!Next, I!Step

-----------------------------------------------------------------------------
(* Init: the templates of the spec.                                         *)

RunFields ==
    {"at", "o", "first", "registry", "strategy", "backend", "index", "dest", "got", "abandoned"}
PullFields == {"to", "stage", "left"}

\* A single repository downloads to the spec directory only, and takes the
\* registry for the spec only when the registry has no index.
FetchShape ==
    /\ DOMAIN tree = T!Paths
    /\ ~T!At("idle") =>
          /\ DOMAIN run = RunFields
          /\ run.dest \in T!Places /\ run.strategy \in T!Strategies
          /\ ~run.o.monorepo => /\ run.dest = "spec" /\ ~T!At("packages")
                                /\ T!At("direct") => run.index = "missing"
    /\ T!At("pull") => /\ DOMAIN pull = PullFields /\ pull.left \subseteq T!Below(pull.to)
                       /\ pull.to = run.dest \/ (pull.to = "temp" /\ pull.left = {})
    /\ T!At("copy") => /\ DOMAIN pull = PullFields /\ pull.left \subseteq T!Below(pull.to)
                       /\ pull.to = run.dest
    /\ \A d \in orphans : /\ DOMAIN d = PullFields /\ d.left \subseteq T!Below(d.to)
                          /\ d.to \in T!Places
    /\ orphans # {} => ~T!At("idle") /\ run.abandoned

NoUser(d) == \A p \in T!Below(d) : tree[p] # "user"

\* The user has files only in a directory that is there, and none in one that is
\* being written, or that is about to be removed without being overwritten.
UserSafe ==
    /\ \A d \in T!Places : d \notin there => NoUser(d)
    /\ T!At("prepare") /\ run.strategy = "skip" => NoUser(run.dest)
    /\ T!At("pull") /\ pull.to # "temp" =>
          (run.strategy # "overwrite" \/ pull.stage = "extracting" => NoUser(pull.to))
    /\ T!At("copy") => NoUser(run.dest)
    /\ \A d \in orphans : d.stage = "extracting" => NoUser(d.to)

Single == T!Running /\ ~run.o.monorepo /\ ~run.abandoned

Extracted(from) == \A p \in Layout[from.to] \ from.left : tree[p] # None

\* What a single repository has of a template that is being written, and of one
\* that counts as downloaded.
WholeSafe == Single =>
    /\ "spec" \in run.got => T!Whole("spec") /\ run.at \in {"build", "publish", "done"}
    /\ T!At("pull") /\ pull.stage = "extracting" /\ pull.to # "temp" => Extracted(pull)
    /\ T!At("copy") => Extracted(pull)
    /\ T!At("clone") /\ run.strategy = "skip" => run.dest \notin there
    /\ T!At("done") /\ run.first => T!Whole("spec") \/ \A p \in Blank["spec"] : tree[p] # None

FetchInv == FetchShape /\ UserSafe /\ WholeSafe

LEMMA Directories ==
    /\ T!Places = {"spec", "pkg"} /\ "temp" \notin T!Places
    /\ T!Below("spec") = T!Paths
    /\ \A d \in T!Places : Layout[d] \subseteq T!Below(d) /\ T!Below(d) \subseteq T!Paths
BY DEF T!Places, T!Below, T!Paths

\* Nobody gives the user a file.
NothingNew == \A p \in T!Paths : tree'[p] = "user" => tree[p] = "user"

LEMMA StaysFree ==
    ASSUME NothingNew, NEW d \in T!Places, NoUser(d)
    PROVE  NoUser(d)'
BY Directories DEF NothingNew, NoUser

\* A directory that is removed.
LEMMA Emptied ==
    ASSUME FetchShape, NEW d \in T!Places, tree' = T!Without(d)
    PROVE  /\ DOMAIN tree' = T!Paths /\ NothingNew /\ NoUser(d)'
           /\ \A p \in T!Paths : p \notin T!Below(d) => tree'[p] = tree[p]
           /\ \A p \in T!Below(d) : tree'[p] = None
BY Directories, FetchAssumption DEF FetchShape, T!Without, NothingNew, NoUser

\* A file that is written.
LEMMA WrittenFile ==
    ASSUME FetchShape, NEW p \in T!Paths, NEW content, content \in {"template", "blank"}, tree' = T!With(p, content)
    PROVE  /\ DOMAIN tree' = T!Paths /\ NothingNew
           /\ tree'[p] # None /\ \A q \in T!Paths : tree[q] # None => tree'[q] # None
BY FetchAssumption DEF FetchShape, T!With, NothingNew

\* The command goes on; only its step changes.
LEMMA FetchGoes ==
    ASSUME FetchShape, ~T!At("idle"), NEW step, T!Go(step)
    PROVE  /\ run'.at = step /\ DOMAIN run' = RunFields /\ run'.o = run.o /\ run'.first = run.first
           /\ run'.strategy = run.strategy /\ run'.index = run.index /\ run'.dest = run.dest
           /\ run'.got = run.got /\ run'.abandoned = run.abandoned
BY DEF FetchShape, RunFields, T!Go, T!At

\* A choice: the command decides what to download, or that it downloads nothing.
Chooses ==
    /\ run.at \in {"packages", "choose", "direct"}
    /\ UNCHANGED <<tree, there, pull, orphans>>
    /\ run'.at \in {"decide", "direct", "build", "failed", "choose"} /\ DOMAIN run' = RunFields
    /\ run'.o = run.o /\ run'.first = run.first /\ run'.got = run.got /\ run'.abandoned = run.abandoned
    /\ run'.dest \in T!Places /\ run'.strategy \in T!Strategies
    /\ ~run.o.monorepo => /\ run'.dest = "spec"
                          /\ run'.at = "direct" => run'.index = "missing"

LEMMA ChoosesStep ==
    ASSUME FetchInv, Chooses
    PROVE  FetchInv'
<1>1. FetchShape'
    BY DEF FetchInv, FetchShape, Chooses, T!At
<1>2. UserSafe'
    BY DEF FetchInv, UserSafe, Chooses, T!At, NoUser
<1>3. WholeSafe'
    BY DEF FetchInv, WholeSafe, Chooses, T!At, T!Running, Single, T!Whole, Extracted
<1>4. QED
    BY <1>1, <1>2, <1>3 DEF FetchInv

\* What a download is told.
LEMMA FetchIs ==
    ASSUME FetchShape, ~T!At("idle"), NEW d, NEW s, NEW registry, NEW index, T!Fetch(d, s, registry, index)
    PROVE  /\ run'.at = "decide" /\ run'.dest = d /\ run'.strategy = s
           /\ DOMAIN run' = RunFields /\ run'.o = run.o /\ run'.first = run.first
           /\ run'.got = run.got /\ run'.abandoned = run.abandoned
BY DEF FetchShape, RunFields, T!Fetch, T!At

LEMMA AskedIs ==
    ASSUME FetchShape, ~T!At("idle")
    PROVE  T!Asked \subseteq T!Strategies
BY DEF FetchShape, T!Asked

\* The choices of a monorepo and of a single repository.
LEMMA PackagesStep ==
    ASSUME FetchInv, T!PickPackage \/ T!TemplatePackage \/ T!BlankPackage
    PROVE  FetchInv'
<1>1. /\ T!At("packages") /\ ~T!At("idle") /\ FetchShape /\ run.o.monorepo
      /\ UNCHANGED <<tree, there, pull, orphans>>
      /\ run.dest \in T!Places /\ run.strategy \in T!Strategies
    BY DEF FetchInv, FetchShape, T!PickPackage, T!TemplatePackage, T!BlankPackage, T!At
<1>2. CASE T!Go("direct")
    BY <1>1, <1>2, FetchGoes, ChoosesStep DEF Chooses, T!At
<1>3. ASSUME NEW index, T!Fetch("pkg", run.strategy, run.registry, index)
      PROVE  FetchInv'
    BY <1>1, <1>3, FetchIs, Directories, ChoosesStep DEF Chooses, T!At
<1>4. QED
    BY <1>2, <1>3 DEF T!PickPackage, T!TemplatePackage, T!BlankPackage

LEMMA TemplateStep ==
    ASSUME FetchInv, T!TemplateByName
    PROVE  FetchInv'
<1>1. /\ T!At("choose") /\ ~T!At("idle") /\ FetchShape
      /\ UNCHANGED <<tree, there, pull, orphans>>
      /\ run.dest \in T!Places /\ run.strategy \in T!Strategies /\ (~run.o.monorepo => run.dest = "spec")
    BY DEF FetchInv, FetchShape, T!TemplateByName, T!At
<1>2. CASE T!Go("build")
    BY <1>1, <1>2, FetchGoes, ChoosesStep DEF Chooses, T!At
<1>3. ASSUME NEW index, T!Fetch("spec", run.strategy, run.registry, index)
      PROVE  FetchInv'
    BY <1>1, <1>3, FetchIs, Directories, ChoosesStep DEF Chooses, T!At
<1>4. QED
    BY <1>2, <1>3 DEF T!TemplateByName

LEMMA RegistryStep ==
    ASSUME FetchInv, T!FromRegistry
    PROVE  FetchInv'
<1>1. /\ T!At("choose") /\ ~T!At("idle") /\ FetchShape
      /\ UNCHANGED <<tree, there, pull, orphans>>
      /\ run.dest \in T!Places /\ run.strategy \in T!Strategies /\ (~run.o.monorepo => run.dest = "spec")
    BY DEF FetchInv, FetchShape, T!FromRegistry, T!At
<1>2. CASE T!Go("build") \/ T!Go("failed")
    BY <1>1, <1>2, FetchGoes, ChoosesStep DEF Chooses, T!At
<1>3. ASSUME NEW s \in T!Asked, NEW index, T!Fetch("spec", s, run.registry, index)
      PROVE  FetchInv'
    BY <1>1, <1>3, FetchIs, AskedIs, Directories, ChoosesStep DEF Chooses, T!At
<1>4. ASSUME NEW backend, run' = [run EXCEPT !.at = "direct", !.backend = backend, !.index = "missing"]
      PROVE  FetchInv'
    <2>1. /\ run'.at = "direct" /\ run'.index = "missing" /\ DOMAIN run' = RunFields
          /\ run'.o = run.o /\ run'.first = run.first /\ run'.dest = run.dest
          /\ run'.strategy = run.strategy /\ run'.got = run.got /\ run'.abandoned = run.abandoned
        BY <1>1, <1>4 DEF FetchShape, RunFields
    <2>2. QED
        BY <1>1, <2>1, ChoosesStep DEF Chooses, T!At
<1>5. PICK index \in T!Probes(run.registry) :
         CASE T!Listed(index.answer) /\ run.o.yes -> T!Go("failed")
           [] index.answer = "others" /\ ~run.o.yes -> T!Go("build")
           [] index.answer = "listed" /\ ~run.o.yes ->
                \E s \in T!Asked : T!Fetch("spec", s, run.registry, index)
           [] T!NoIndex(index.answer) ->
                run' = [run EXCEPT !.at = "direct", !.backend = index.backend, !.index = index.answer]
           [] OTHER -> T!Go("failed")
    BY DEF T!FromRegistry
<1>6. QED
    BY <1>2, <1>3, <1>4, <1>5 DEF T!Listed, T!NoIndex

LEMMA OfficialStep ==
    ASSUME FetchInv, T!FromOfficial
    PROVE  FetchInv'
<1>1. /\ T!At("choose") /\ ~T!At("idle") /\ FetchShape
      /\ UNCHANGED <<tree, there, pull, orphans>>
      /\ run.dest \in T!Places /\ run.strategy \in T!Strategies /\ (~run.o.monorepo => run.dest = "spec")
    BY DEF FetchInv, FetchShape, T!FromOfficial, T!At
<1>2. CASE T!Go("build")
    BY <1>1, <1>2, FetchGoes, ChoosesStep DEF Chooses, T!At
<1>3. ASSUME NEW s \in T!Asked, NEW registry, NEW index, T!Fetch("spec", s, registry, index)
      PROVE  FetchInv'
    BY <1>1, <1>3, FetchIs, AskedIs, Directories, ChoosesStep DEF Chooses, T!At
<1>4. ASSUME NEW registry, NEW index, index.answer = "missing",
             run' = [run EXCEPT !.at = "direct", !.registry = registry,
                                !.backend = index.backend, !.index = index.answer]
      PROVE  FetchInv'
    <2>1. /\ run'.at = "direct" /\ run'.index = "missing" /\ DOMAIN run' = RunFields
          /\ run'.o = run.o /\ run'.first = run.first /\ run'.dest = run.dest
          /\ run'.strategy = run.strategy /\ run'.got = run.got /\ run'.abandoned = run.abandoned
        BY <1>1, <1>4 DEF FetchShape, RunFields
    <2>2. QED
        BY <1>1, <2>1, ChoosesStep DEF Chooses, T!At
<1>5. CASE run' = run
    <2>1. DOMAIN run = RunFields
        BY <1>1 DEF FetchShape
    <2>2. QED
        BY <1>1, <1>5, <2>1, ChoosesStep DEF Chooses, T!At
<1>6. CASE \E s \in T!Asked : T!Fetch("spec", s, None, [answer |-> "listed", backend |-> "http"])
    BY <1>3, <1>6
<1>7. ASSUME NEW registry, NEW index,
             CASE index.answer = "listed" ->
                    \E s \in T!Asked : T!Fetch("spec", s, registry, index)
               [] index.answer = "others" -> T!Go("build")
               [] T!NoIndex(index.answer) ->
                    run' = [run EXCEPT !.at = "direct", !.registry = registry,
                                       !.backend = index.backend, !.index = index.answer]
               [] OTHER -> UNCHANGED run
      PROVE  FetchInv'
    BY <1>2, <1>3, <1>4, <1>5, <1>7, Zenon DEF T!NoIndex
<1>8. QED
    BY <1>2, <1>6, <1>7, Zenon DEF T!FromOfficial

\* The registry is the spec.
LEMMA DirectStep ==
    ASSUME FetchInv, T!Direct
    PROVE  FetchInv'
<1>1. /\ T!At("direct") /\ ~T!At("idle") /\ FetchShape
      /\ UNCHANGED <<tree, there, pull, orphans>>
      /\ run.dest \in T!Places /\ run.strategy \in T!Strategies /\ (~run.o.monorepo => run.dest = "spec")
    BY DEF FetchInv, FetchShape, T!Direct, T!At
<1>2. CASE T!Go("build")
    BY <1>1, <1>2, FetchGoes, ChoosesStep DEF Chooses, T!At
<1>3. ASSUME NEW s \in T!Asked, NEW backend,
             run' = [run EXCEPT !.at = "decide", !.dest = "spec", !.strategy = s, !.backend = backend]
      PROVE  FetchInv'
    <2>1. /\ run'.at = "decide" /\ run'.dest = "spec" /\ run'.strategy = s /\ DOMAIN run' = RunFields
          /\ run'.o = run.o /\ run'.first = run.first /\ run'.got = run.got /\ run'.abandoned = run.abandoned
        BY <1>1, <1>3 DEF FetchShape, RunFields
    <2>2. QED
        BY <1>1, <1>3, <2>1, AskedIs, Directories, ChoosesStep DEF Chooses, T!At
<1>4. CASE \E s \in T!Asked :
              run' = [run EXCEPT !.at = "decide", !.dest = "spec", !.strategy = s,
                                 !.backend = IF ~run.o.monorepo THEN @
                                             ELSE IF run.registry = "private" THEN "git" ELSE "http"]
    BY <1>3, <1>4
<1>5. QED
    BY <1>2, <1>4 DEF T!Direct

-----------------------------------------------------------------------------

\* A command starts when nothing that another one left goes on.
LEMMA BeginStep ==
    ASSUME FetchInv, NEW o \in Options, T!Begin(o)
    PROVE  FetchInv'
<1>1. /\ UNCHANGED <<tree, there, pull, orphans>> /\ orphans = {}
      /\ run'.at \in {"packages", "choose"} /\ (run'.at = "packages" <=> o.monorepo)
      /\ DOMAIN run' = RunFields /\ run'.o = o /\ run'.strategy = o.strategy
      /\ run'.dest = "spec" /\ run'.got = {} /\ run'.abandoned = FALSE
    BY FetchAssumption DEF T!Begin, RunFields
<1>2. FetchShape'
    BY <1>1, FetchAssumption, Directories DEF FetchInv, FetchShape, T!At
<1>3. UserSafe'
    BY <1>1 DEF FetchInv, UserSafe, T!At, NoUser
<1>4. WholeSafe'
    BY <1>1 DEF WholeSafe, T!At
<1>5. QED
    BY <1>2, <1>3, <1>4 DEF FetchInv

LEMMA KillStep ==
    ASSUME FetchInv, T!Kill
    PROVE  FetchInv'
<1>1. /\ UNCHANGED <<tree, there>> /\ orphans' = {} /\ ~T!At("idle") /\ T!Go("failed") /\ FetchShape
    BY DEF FetchInv, T!Kill, T!Stopped, T!At
<1>2. /\ run'.at = "failed" /\ DOMAIN run' = RunFields
      /\ run'.o = run.o /\ run'.dest = run.dest /\ run'.strategy = run.strategy
    BY <1>1, FetchGoes
<1>3. FetchShape'
    BY <1>1, <1>2 DEF FetchShape, T!At
<1>4. UserSafe'
    BY <1>1, <1>2 DEF FetchInv, UserSafe, T!At, NoUser
<1>5. WholeSafe'
    BY <1>2 DEF WholeSafe, Single, T!Running
<1>6. QED
    BY <1>3, <1>4, <1>5 DEF FetchInv

\* The user writes a file, and with it the directory it is in.
LEMMA EditStep ==
    ASSUME FetchInv, NEW p \in T!Paths, T!Edit(p)
    PROVE  FetchInv'
<1>1. /\ run.at \in {"idle", "done", "failed"} /\ orphans = {} /\ UNCHANGED <<run, pull, orphans>>
      /\ tree' = [tree EXCEPT ![p] = "user"]
      /\ there' = there \cup {"spec", IF p \in T!Below("pkg") THEN "pkg" ELSE "spec"}
    BY DEF T!Edit, T!Stopped, T!With, T!Made
<1>2. DOMAIN tree' = T!Paths /\ tree'[p] = "user" /\ \A q \in T!Paths \ {p} : tree'[q] = tree[q]
    BY <1>1 DEF FetchInv, FetchShape
<1>3. FetchShape'
    BY <1>1, <1>2 DEF FetchInv, FetchShape, T!At
<1>4. UserSafe'
    <2>1. ASSUME NEW d \in T!Places, d \notin there'
          PROVE  NoUser(d)'
        <3>1. d = "pkg" /\ p \notin T!Below("pkg") /\ d \notin there
            BY <1>1, <2>1, Directories
        <3>2. NoUser(d)
            BY <2>1, <3>1 DEF FetchInv, UserSafe
        <3>3. QED
            BY <1>2, <2>1, <3>1, <3>2, Directories DEF NoUser
    <2>2. QED
        BY <1>1, <2>1 DEF UserSafe, T!At
<1>5. WholeSafe'
    <2>1. \A q \in T!Paths : tree[q] # None => tree'[q] # None
        BY <1>2, FetchAssumption
    <2>2. Layout["spec"] \subseteq T!Paths /\ Blank["spec"] \subseteq T!Paths
        BY DEF T!Paths, T!Places
    <2>3. SUFFICES ASSUME Single'
          PROVE  /\ "spec" \in run.got => T!Whole("spec")' /\ run.at \in {"build", "publish", "done"}
                 /\ T!At("done") /\ run.first =>
                       T!Whole("spec")' \/ \A q \in Blank["spec"] : tree'[q] # None
        BY <1>1 DEF WholeSafe, T!At
    <2>4. Single
        BY <1>1, <2>3 DEF Single, T!Running
    <2>5. QED
        BY <2>1, <2>2, <2>4 DEF FetchInv, WholeSafe, T!Whole
<1>6. QED
    BY <1>3, <1>4, <1>5 DEF FetchInv

-----------------------------------------------------------------------------

\* A download ends: it was skipped, it is there, or init falls back to the blank
\* templates.
EndsDownload == T!Skipped \/ T!Succeeded \/ T!Failed

LEMMA DownloadEnds ==
    ASSUME FetchShape, ~T!At("idle"), EndsDownload
    PROVE  /\ DOMAIN run' = RunFields /\ run'.o = run.o /\ run'.first = run.first
           /\ run'.strategy = run.strategy /\ run'.dest = run.dest /\ run'.index = run.index
           /\ run'.abandoned = run.abandoned
           /\ run'.at \in {"direct", "build"} /\ (run'.at = "direct" <=> run.dest = "pkg")
           /\ "spec" \in run'.got /\ "spec" \notin run.got => T!Succeeded /\ run.dest = "spec"
<1>1. CASE T!Failed
    BY <1>1, FetchGoes DEF T!Failed, T!After
<1>2. CASE T!Skipped
    <2>1. PICK got : got = IF run.dest = "pkg" /\ ~run.o.template THEN run.got \cup {"pkg"} ELSE run.got
        OBVIOUS
    <2>2. run' = [run EXCEPT !.at = T!After, !.got = got]
        BY <1>2, <2>1 DEF T!Skipped
    <2>3. /\ DOMAIN run' = RunFields /\ run'.o = run.o /\ run'.first = run.first
          /\ run'.strategy = run.strategy /\ run'.dest = run.dest /\ run'.index = run.index
          /\ run'.abandoned = run.abandoned /\ run'.at = T!After /\ run'.got = got
        BY <2>2 DEF FetchShape, RunFields, T!At
    <2>4. QED
        BY <1>2, <2>1, <2>3 DEF T!After
<1>3. CASE T!Succeeded
    <2>1. PICK got : got = run.got \cup {run.dest}
        OBVIOUS
    <2>2. run' = [run EXCEPT !.at = T!After, !.got = got]
        BY <1>3, <2>1 DEF T!Succeeded
    <2>3. /\ DOMAIN run' = RunFields /\ run'.o = run.o /\ run'.first = run.first
          /\ run'.strategy = run.strategy /\ run'.dest = run.dest /\ run'.index = run.index
          /\ run'.abandoned = run.abandoned /\ run'.at = T!After /\ run'.got = got
        BY <2>2 DEF FetchShape, RunFields, T!At
    <2>4. QED
        BY <1>3, <2>1, <2>3 DEF T!After
<1>4. QED
    BY <1>1, <1>2, <1>3 DEF EndsDownload

Downloads == {"decide", "prepare", "pull", "merge", "clone", "copy"}

\* It may end so when it gave the user nothing, and has the whole template if it
\* says so.
LEMMA DownloadEnded ==
    ASSUME FetchInv, run.at \in Downloads, EndsDownload, orphans' = orphans,
           DOMAIN tree' = T!Paths, NothingNew,
           \A d \in T!Places : d \notin there' => NoUser(d)',
           Single /\ T!Succeeded /\ run.dest = "spec" => T!Whole("spec")'
    PROVE  FetchInv'
<1>1. ~T!At("idle") /\ FetchShape
    BY DEF FetchInv, T!At, Downloads
<1>2. FetchShape'
    BY <1>1, DownloadEnds, Directories DEF FetchShape, T!At
<1>3. UserSafe'
    <2>1. \A d \in orphans : d.stage = "extracting" => NoUser(d.to)'
        BY <1>1, StaysFree DEF FetchInv, FetchShape, UserSafe
    <2>2. run'.at \in {"direct", "build"}
        BY <1>1, DownloadEnds
    <2>3. QED
        BY <2>1, <2>2 DEF UserSafe, T!At
<1>4. WholeSafe'
    <2>1. SUFFICES ASSUME Single'
          PROVE  "spec" \in run'.got => T!Whole("spec")' /\ run'.at = "build"
        BY <1>1, DownloadEnds DEF WholeSafe, T!At
    <2>2. Single
        BY <1>1, <2>1, DownloadEnds DEF Single, T!Running, Downloads
    <2>3. "spec" \notin run.got
        BY <2>2 DEF FetchInv, WholeSafe, Downloads
    <2>4. QED
        BY <1>1, <2>2, <2>3, DownloadEnds
<1>5. QED
    BY <1>2, <1>3, <1>4 DEF FetchInv

\* The directories are as they were.
LEMMA DirectoriesStay ==
    ASSUME FetchInv, there \subseteq there', NothingNew
    PROVE  \A d \in T!Places : d \notin there' => NoUser(d)'
BY StaysFree DEF FetchInv, UserSafe

\* The files are as they were.
LEMMA FilesStay ==
    ASSUME FetchInv, tree' = tree
    PROVE  NothingNew /\ DOMAIN tree' = T!Paths
BY DEF FetchInv, FetchShape, NothingNew

\* A directory is removed, with what is below it.
LEMMA DirectoryGoes ==
    ASSUME FetchInv, NEW d \in T!Places, tree' = T!Without(d), there' = T!Removed(d)
    PROVE  \A e \in T!Places : e \notin there' => NoUser(e)'
<1>1. NothingNew /\ NoUser(d)'
    BY Emptied DEF FetchInv
<1>2. ASSUME NEW e \in T!Places, e \notin there'
      PROVE  NoUser(e)'
    <2>1. CASE d = "spec"
        <3>1. \A p \in T!Paths : tree'[p] # "user"
            BY <1>1, <2>1, Directories DEF NoUser
        <3>2. QED
            BY <3>1, Directories DEF NoUser
    <2>2. CASE d = "pkg"
        <3>1. e = d \/ e \notin there
            BY <1>2, <2>2, Directories DEF T!Removed
        <3>2. QED
            BY <1>1, <3>1, StaysFree DEF FetchInv, UserSafe
    <2>3. QED
        BY <2>1, <2>2, Directories
<1>3. QED
    BY <1>2

\* A download that was skipped or failed does not count as one that is there.
LEMMA NothingClaimed ==
    ASSUME FetchInv, run.at \in Downloads, T!Skipped \/ T!Failed
    PROVE  ~(Single /\ T!Succeeded /\ run.dest = "spec")
<1>1. SUFFICES ASSUME Single, T!Succeeded, run.dest = "spec"
      PROVE  FALSE
    OBVIOUS
<1>2. FetchShape /\ ~T!At("idle")
    BY DEF FetchInv, T!At, Downloads
<1>3. run'.got = run.got
    BY <1>1, <1>2, FetchGoes DEF T!Skipped, T!Failed, FetchShape, RunFields, T!At
<1>4. run'.got = run.got \cup {"spec"}
    BY <1>1, <1>2 DEF T!Succeeded, FetchShape, RunFields, T!At
<1>5. "spec" \notin run.got
    BY <1>1 DEF FetchInv, WholeSafe, Downloads
<1>6. QED
    BY <1>3, <1>4, <1>5

LEMMA DecideStep ==
    ASSUME FetchInv, T!Decide
    PROVE  FetchInv'
<1>1. /\ T!At("decide") /\ ~T!At("idle") /\ FetchShape /\ run.at \in Downloads
      /\ UNCHANGED <<tree, there, pull, orphans>>
    BY DEF FetchInv, T!Decide, T!At, Downloads
<1>2. CASE T!Skipped
    BY <1>1, <1>2, NothingClaimed, DownloadEnded, DirectoriesStay, FilesStay DEF EndsDownload
<1>3. ASSUME NEW step \in {"clone", "prepare"}, T!Go(step), run.strategy = "skip" => run.dest \notin there
      PROVE  FetchInv'
    <2>1. /\ run'.at = step /\ DOMAIN run' = RunFields /\ run'.o = run.o /\ run'.first = run.first
          /\ run'.strategy = run.strategy /\ run'.index = run.index /\ run'.dest = run.dest
          /\ run'.got = run.got /\ run'.abandoned = run.abandoned
        BY <1>1, <1>3, FetchGoes
    <2>2. FetchShape'
        BY <1>1, <2>1 DEF FetchShape, T!At
    <2>3. UserSafe'
        BY <1>1, <1>3, <2>1 DEF FetchInv, FetchShape, UserSafe, NoUser, T!At
    <2>4. WholeSafe'
        BY <1>1, <1>3, <2>1 DEF FetchInv, WholeSafe, Single, T!Running, T!At
    <2>5. QED
        BY <2>2, <2>3, <2>4 DEF FetchInv
<1>4. QED
    BY <1>2, <1>3 DEF T!Decide, T!Exists

\* What was downloaded elsewhere is merged, file by file.
LEMMA MergeBegins ==
    ASSUME FetchInv, run.at \in Downloads, T!Go("merge"), UNCHANGED <<tree, there, orphans>>
    PROVE  FetchInv'
<1>1. FetchShape /\ ~T!At("idle")
    BY DEF FetchInv, T!At, Downloads
<1>2. /\ run'.at = "merge" /\ DOMAIN run' = RunFields /\ run'.o = run.o /\ run'.first = run.first
      /\ run'.strategy = run.strategy /\ run'.index = run.index /\ run'.dest = run.dest
      /\ run'.got = run.got /\ run'.abandoned = run.abandoned
    BY <1>1, FetchGoes
<1>3. FetchShape'
    BY <1>1, <1>2 DEF FetchShape, T!At
<1>4. UserSafe'
    BY <1>2 DEF FetchInv, UserSafe, NoUser, T!At
<1>5. WholeSafe'
    BY <1>1, <1>2 DEF FetchInv, WholeSafe, Single, T!Running, T!At, Downloads
<1>6. QED
    BY <1>3, <1>4, <1>5 DEF FetchInv

\* The download begins: its directory is not there any more, or it goes elsewhere
\* first.
LEMMA PrepareStep ==
    ASSUME FetchInv, T!Prepare
    PROVE  FetchInv'
<1>1. /\ T!At("prepare") /\ ~T!At("idle") /\ FetchShape /\ run.dest \in T!Places
      /\ orphans' = orphans /\ T!Go("pull")
    BY DEF FetchInv, FetchShape, T!Prepare, T!At
<1>2. /\ run'.at = "pull" /\ DOMAIN run' = RunFields /\ run'.o = run.o /\ run'.first = run.first
      /\ run'.strategy = run.strategy /\ run'.index = run.index /\ run'.dest = run.dest
      /\ run'.got = run.got /\ run'.abandoned = run.abandoned
    BY <1>1, FetchGoes
<1>3. CASE T!Pull("temp") /\ UNCHANGED <<tree, there>>
    <2>1. DOMAIN pull' = PullFields /\ pull'.to = "temp" /\ pull'.left = {}
        BY <1>3 DEF T!Pull, PullFields
    <2>2. FetchShape'
        BY <1>1, <1>2, <1>3, <2>1 DEF FetchShape, T!At
    <2>3. UserSafe'
        BY <1>1, <1>2, <1>3, <2>1 DEF FetchInv, UserSafe, NoUser, T!At
    <2>4. WholeSafe'
        BY <1>1, <1>2, <2>1 DEF FetchInv, WholeSafe, Single, T!Running, T!At
    <2>5. QED
        BY <2>2, <2>3, <2>4 DEF FetchInv
<1>4. CASE /\ T!Pull(run.dest)
           /\ tree' = IF T!Exists(run.dest) THEN T!Without(run.dest) ELSE tree
           /\ there' = IF T!Exists(run.dest) THEN T!Removed(run.dest) ELSE there
    <2>1. PICK to \in T!Places : to = run.dest
        BY <1>1
    <2>2. /\ DOMAIN pull' = PullFields /\ pull'.to = to /\ pull'.stage = "asked" /\ pull'.left = {}
          /\ tree' = IF to \in there THEN T!Without(to) ELSE tree
          /\ there' = IF to \in there THEN T!Removed(to) ELSE there
        BY <1>4, <2>1 DEF T!Pull, PullFields, T!Exists
    <2>3. /\ DOMAIN tree' = T!Paths /\ NothingNew /\ NoUser(to)'
          /\ \A e \in T!Places : e \notin there' => NoUser(e)'
        <3>1. CASE to \in there
            <4>1. tree' = T!Without(to) /\ there' = T!Removed(to)
                BY <2>2, <3>1
            <4>2. QED
                BY <1>1, <4>1, Emptied, DirectoryGoes
        <3>2. CASE to \notin there
            <4>1. tree' = tree /\ there' = there /\ NoUser(to)
                BY <2>2, <3>2 DEF FetchInv, UserSafe
            <4>2. NothingNew /\ DOMAIN tree' = T!Paths
                BY <4>1, FilesStay
            <4>3. QED
                BY <4>1, <4>2, DirectoriesStay, StaysFree
        <3>3. QED
            BY <3>1, <3>2
    <2>4. FetchShape'
        BY <1>1, <1>2, <2>1, <2>2, <2>3 DEF FetchShape, T!At
    <2>5. \A d \in orphans : d.stage = "extracting" => NoUser(d.to)'
        BY <1>1, <2>3, StaysFree DEF FetchInv, FetchShape, UserSafe
    <2>6. UserSafe'
        BY <1>1, <1>2, <2>2, <2>3, <2>5 DEF UserSafe, T!At
    <2>7. WholeSafe'
        BY <1>1, <1>2, <2>2 DEF FetchInv, WholeSafe, Single, T!Running, T!At
    <2>8. QED
        BY <2>4, <2>6, <2>7 DEF FetchInv
<1>5. QED
    BY <1>3, <1>4 DEF T!Prepare

\* The archive is there: what is extracted from now on goes to a directory where
\* nothing was.
LEMMA ExtractStep ==
    ASSUME FetchInv, T!Extract
    PROVE  FetchInv'
<1>1. /\ T!At("pull") /\ ~T!At("idle") /\ FetchShape /\ UNCHANGED <<tree, run, orphans>>
      /\ pull.to = "temp" \/ ~T!NonEmpty(pull.to)
      /\ DOMAIN pull = PullFields /\ run.dest \in T!Places
      /\ pull.to = run.dest \/ pull.to = "temp"
      /\ there \subseteq there'
    BY DEF FetchInv, FetchShape, T!Extract, T!At, T!Made
<1>2. PICK left : left = IF pull.to = "temp" THEN {} ELSE Layout[pull.to]
    OBVIOUS
<1>3. PICK to : to = pull.to
    OBVIOUS
<1>4. pull' = [pull EXCEPT !.stage = "extracting", !.left = left]
    BY <1>2 DEF T!Extract
<1>5. DOMAIN pull' = PullFields /\ pull'.to = to /\ pull'.stage = "extracting" /\ pull'.left = left
    BY <1>1, <1>3, <1>4 DEF PullFields
<1>6. left \subseteq T!Below(to) /\ (to = "temp" => left = {})
    BY <1>1, <1>2, <1>3, Directories
<1>7. FetchShape'
    BY <1>1, <1>3, <1>5, <1>6 DEF FetchShape, T!At
<1>8. to # "temp" => NoUser(to)'
    BY <1>1, <1>3, FetchAssumption DEF NoUser, T!NonEmpty
<1>9. UserSafe'
    <2>1. \A d \in T!Places : d \notin there' => NoUser(d)'
        BY <1>1, FilesStay, DirectoriesStay
    <2>2. \A d \in orphans : d.stage = "extracting" => NoUser(d.to)'
        BY <1>1 DEF FetchInv, UserSafe, NoUser
    <2>3. QED
        BY <1>1, <1>5, <1>8, <2>1, <2>2 DEF UserSafe, T!At
<1>10. WholeSafe'
    BY <1>1, <1>2, <1>3, <1>5 DEF FetchInv, WholeSafe, Single, T!Running, T!At, Extracted
<1>11. QED
    BY <1>7, <1>9, <1>10 DEF FetchInv

\* One file more, of what is extracted or of what is copied.
LEMMA FileStep ==
    ASSUME FetchInv, NEW p \in T!Paths, T!ExtractFile(p) \/ T!Copy(p)
    PROVE  FetchInv'
<1>1. /\ FetchShape /\ UNCHANGED <<there, run, orphans>>
      /\ p \in pull.left /\ tree' = T!With(p, "template") /\ pull' = [pull EXCEPT !.left = @ \ {p}]
      /\ (T!At("pull") /\ pull.stage = "extracting") \/ T!At("copy")
    BY DEF FetchInv, T!ExtractFile, T!Copy
<1>2. /\ DOMAIN pull = PullFields /\ pull.to = run.dest /\ run.dest \in T!Places
      /\ pull.to # "temp" /\ ~T!At("idle")
    BY <1>1, Directories DEF FetchShape, T!At
<1>3. DOMAIN pull' = PullFields /\ pull'.to = pull.to /\ pull'.stage = pull.stage /\ pull'.left = pull.left \ {p}
    BY <1>1, <1>2 DEF PullFields
<1>4. /\ DOMAIN tree' = T!Paths /\ NothingNew
      /\ tree'[p] # None /\ \A q \in T!Paths : tree[q] # None => tree'[q] # None
    BY <1>1, WrittenFile
<1>5. FetchShape'
    BY <1>1, <1>2, <1>3, <1>4 DEF FetchShape, T!At
<1>6. NoUser(run.dest)'
    BY <1>1, <1>2, <1>4, StaysFree DEF FetchInv, UserSafe, T!At
<1>7. UserSafe'
    <2>1. \A d \in T!Places : d \notin there' => NoUser(d)'
        BY <1>1, <1>4, DirectoriesStay
    <2>2. \A d \in orphans : d.stage = "extracting" => NoUser(d.to)'
        BY <1>1, <1>4, StaysFree DEF FetchInv, FetchShape, UserSafe
    <2>3. NoUser(pull.to)'
        BY <1>1, <1>2, <1>3, <1>6 DEF NoUser
    <2>4. QED
        BY <1>1, <1>6, <2>1, <2>2, <2>3 DEF UserSafe, NoUser, T!At
<1>8. WholeSafe'
    <2>1. SUFFICES ASSUME Single'
          PROVE  Extracted(pull)' /\ "spec" \notin run.got
        BY <1>1 DEF WholeSafe, T!At
    <2>2. Extracted(pull) /\ "spec" \notin run.got
        BY <1>1, <1>2, <2>1 DEF FetchInv, WholeSafe, Single, T!Running, T!At
    <2>3. Layout[pull.to] \subseteq T!Paths
        BY <1>2, Directories
    <2>4. QED
        BY <1>3, <1>4, <2>2, <2>3 DEF Extracted
<1>9. QED
    BY <1>5, <1>7, <1>8 DEF FetchInv

\* Everything is there, or nothing more will come.
LEMMA PulledStep ==
    ASSUME FetchInv, T!Pulled \/ T!PullBreaks
    PROVE  FetchInv'
<1>1. /\ T!At("pull") /\ ~T!At("idle") /\ FetchShape /\ run.at \in Downloads
      /\ UNCHANGED <<tree, there, orphans>>
    BY DEF FetchInv, T!Pulled, T!PullBreaks, T!At, Downloads
<1>2. CASE T!PullBreaks
    BY <1>1, <1>2, NothingClaimed, DownloadEnded, DirectoriesStay, FilesStay DEF EndsDownload, T!PullBreaks
<1>3. CASE T!Pulled /\ pull.to # "temp"
    <2>1. T!Succeeded /\ pull.stage = "extracting" /\ pull.left = {} /\ pull.to = run.dest
        BY <1>1, <1>3 DEF T!Pulled, FetchShape
    <2>2. Single /\ run.dest = "spec" => T!Whole("spec")'
        BY <1>1, <1>3, <2>1 DEF FetchInv, WholeSafe, Extracted, T!Whole
    <2>3. QED
        BY <1>1, <2>1, <2>2, DownloadEnded, DirectoriesStay, FilesStay DEF EndsDownload
<1>4. CASE T!Pulled /\ pull.to = "temp"
    <2>1. T!Go("merge")
        BY <1>4 DEF T!Pulled
    <2>2. QED
        BY <1>1, <2>1, MergeBegins
<1>5. QED
    BY <1>2, <1>3, <1>4 DEF T!Pulled

\* Time is up: what was extracted goes, and the download that goes on may not
\* have reached a file of the user.
LEMMA TimesOutStep ==
    ASSUME FetchInv, T!TimesOut
    PROVE  FetchInv'
<1>1. /\ T!At("pull") /\ ~T!At("idle") /\ FetchShape /\ run.at \in Downloads /\ run.dest \in T!Places
      /\ DOMAIN pull = PullFields /\ pull.left \subseteq T!Below(pull.to)
      /\ pull.to = run.dest \/ pull.to = "temp"
    BY DEF FetchInv, FetchShape, T!TimesOut, T!At, Downloads
<1>2. CASE pull.to = "temp"
    <2>1. T!Failed /\ UNCHANGED <<tree, there, orphans>>
        BY <1>2 DEF T!TimesOut
    <2>2. QED
        BY <1>1, <2>1, NothingClaimed, DownloadEnded, DirectoriesStay, FilesStay DEF EndsDownload
<1>3. CASE pull.to # "temp"
    <2>1. PICK to \in T!Places : to = pull.to /\ to = run.dest
        BY <1>1, <1>3
    <2>2. PICK step : step = T!After
        OBVIOUS
    <2>3. /\ run' = [run EXCEPT !.at = step, !.abandoned = TRUE]
          /\ tree' = T!Without(to) /\ there' = T!Removed(to) /\ orphans' = orphans \cup {pull}
        BY <1>3, <2>1, <2>2 DEF T!TimesOut
    <2>4. /\ run'.at = step /\ DOMAIN run' = RunFields /\ run'.o = run.o /\ run'.dest = run.dest
          /\ run'.strategy = run.strategy /\ run'.index = run.index /\ run'.abandoned = TRUE
        BY <1>1, <2>3 DEF FetchShape, RunFields
    <2>5. step \in {"direct", "build"} /\ (step = "direct" => run.dest = "pkg")
        BY <2>2 DEF T!After
    <2>6. /\ DOMAIN tree' = T!Paths /\ NothingNew /\ NoUser(to)'
          /\ \A e \in T!Places : e \notin there' => NoUser(e)'
        BY <1>1, <2>3, Emptied, DirectoryGoes
    <2>7. FetchShape'
        BY <1>1, <2>1, <2>3, <2>4, <2>5, <2>6 DEF FetchShape, T!At
    <2>8. \A d \in orphans' : d.stage = "extracting" => NoUser(d.to)'
        BY <1>1, <2>1, <2>3, <2>6, StaysFree DEF FetchInv, FetchShape, UserSafe
    <2>9. UserSafe'
        BY <2>4, <2>5, <2>6, <2>8 DEF UserSafe, T!At
    <2>10. WholeSafe'
        BY <2>4 DEF WholeSafe, Single
    <2>11. QED
        BY <2>7, <2>9, <2>10 DEF FetchInv
<1>4. QED
    BY <1>2, <1>3

\* Files are written while the command stays where it is, by itself or by a
\* download that it abandoned.
LEMMA WritesStep ==
    ASSUME FetchInv, UNCHANGED <<run, pull>>, ~T!At("idle"), there \subseteq there',
           ~T!At("clone") \/ run.abandoned,
           DOMAIN tree' = T!Paths, NothingNew,
           \A q \in T!Paths : tree[q] # None => tree'[q] # None,
           orphans' # {} => run.abandoned,
           \A d \in orphans' : /\ DOMAIN d = PullFields /\ d.left \subseteq T!Below(d.to)
                               /\ d.to \in T!Places
                               /\ d.stage = "extracting" => NoUser(d.to)'
    PROVE  FetchInv'
<1>1. FetchShape /\ run.dest \in T!Places /\ \A d \in T!Places : Layout[d] \subseteq T!Paths
    BY Directories DEF FetchInv, FetchShape
<1>2. FetchShape'
    BY <1>1 DEF FetchShape, T!At
<1>3. UserSafe'
    <2>1. PICK dest \in T!Places : dest = run.dest
        BY <1>1
    <2>2. PICK to : to = pull.to
        OBVIOUS
    <2>3. \A d \in T!Places : d \notin there' => NoUser(d)'
        BY DirectoriesStay
    <2>4. NoUser(dest) => NoUser(dest)'
        BY StaysFree
    <2>5. T!At("pull") => to = dest \/ to = "temp"
        BY <1>1, <2>1, <2>2 DEF FetchShape
    <2>6. QED
        BY <2>1, <2>2, <2>3, <2>4, <2>5 DEF FetchInv, UserSafe, T!At
<1>4. WholeSafe'
    <2>1. SUFFICES ASSUME Single
          PROVE  WholeSafe'
        BY DEF WholeSafe, Single, T!Running
    <2>2. ~T!At("clone")
        BY <2>1 DEF Single
    <2>3. T!Whole("spec") => T!Whole("spec")'
        BY <1>1, Directories DEF T!Whole
    <2>4. Blank["spec"] \subseteq T!Paths
        BY DEF T!Paths, T!Places
    <2>5. /\ (T!At("pull") /\ pull.to # "temp") \/ T!At("copy")
          /\ Extracted(pull)
          => Extracted(pull)'
        BY <1>1 DEF FetchShape, Extracted
    <2>6. QED
        BY <2>1, <2>2, <2>3, <2>4, <2>5 DEF FetchInv, WholeSafe, T!At
<1>5. QED
    BY <1>2, <1>3, <1>4 DEF FetchInv

LEMMA MergeStep ==
    ASSUME FetchInv, NEW p \in T!Paths, T!Merge(p)
    PROVE  FetchInv'
<1>1. /\ T!At("merge") /\ FetchShape /\ UNCHANGED <<run, pull, orphans>> /\ there \subseteq there'
      /\ tree' = T!With(p, "template")
    BY DEF FetchInv, T!Merge, T!Made
<1>2. /\ DOMAIN tree' = T!Paths /\ NothingNew
      /\ \A q \in T!Paths : tree[q] # None => tree'[q] # None
    BY <1>1, WrittenFile
<1>3. \A d \in orphans : d.stage = "extracting" => NoUser(d.to)'
    BY <1>1, <1>2, StaysFree DEF FetchInv, FetchShape, UserSafe
<1>4. QED
    BY <1>1, <1>2, <1>3, WritesStep DEF FetchShape, T!At

LEMMA MergedStep ==
    ASSUME FetchInv, T!Merged \/ T!CopyBreaks \/ T!Copied
    PROVE  FetchInv'
<1>1. /\ ~T!At("idle") /\ FetchShape /\ run.at \in Downloads /\ UNCHANGED <<tree, there, orphans>>
    BY DEF FetchInv, T!Merged, T!CopyBreaks, T!Copied, T!At, Downloads
<1>2. CASE T!CopyBreaks
    BY <1>1, <1>2, NothingClaimed, DownloadEnded, DirectoriesStay, FilesStay DEF EndsDownload, T!CopyBreaks
<1>3. CASE T!Merged \/ T!Copied
    <2>1. T!Succeeded
        BY <1>3 DEF T!Merged, T!Copied
    <2>2. Single /\ run.dest = "spec" => T!Whole("spec")'
        <3>1. CASE T!Merged
            BY <1>1, <3>1 DEF T!Merged, T!Whole
        <3>2. CASE T!Copied
            BY <1>1, <3>2 DEF FetchInv, FetchShape, WholeSafe, Extracted, T!Copied, T!Whole
        <3>3. QED
            BY <1>3, <3>1, <3>2
    <2>3. QED
        BY <1>1, <2>1, <2>2, DownloadEnded, DirectoriesStay, FilesStay DEF EndsDownload
<1>4. QED
    BY <1>2, <1>3

\* A registry that was cloned is copied to a directory that is new or emptied.
LEMMA ClonedStep ==
    ASSUME FetchInv, T!Cloned
    PROVE  FetchInv'
<1>1. /\ T!At("clone") /\ ~T!At("idle") /\ FetchShape /\ run.at \in Downloads /\ orphans' = orphans
      /\ run.dest \in T!Places
    BY DEF FetchInv, FetchShape, T!Cloned, T!At, Downloads
<1>2. CASE T!Exists(run.dest) /\ run.strategy = "skip"
    <2>1. T!Succeeded /\ UNCHANGED <<tree, there>>
        BY <1>2 DEF T!Cloned
    <2>2. ~Single
        BY <1>1, <1>2 DEF FetchInv, WholeSafe, T!Exists
    <2>3. QED
        BY <1>1, <2>1, <2>2, DownloadEnded, DirectoriesStay, FilesStay DEF EndsDownload
<1>3. CASE T!Exists(run.dest) /\ run.strategy = "append"
    <2>1. T!Go("merge") /\ UNCHANGED <<tree, there>>
        BY <1>3 DEF T!Cloned
    <2>2. QED
        BY <1>1, <2>1, MergeBegins
<1>4. CASE T!Exists(run.dest) => run.strategy \notin {"skip", "append"}
    <2>1. PICK to \in T!Places : to = run.dest
        BY <1>1
    <2>2. /\ T!Go("copy")
          /\ tree' = IF to \in there THEN T!Without(to) ELSE tree
          /\ there' = T!Made(to)
          /\ pull' = [to |-> to, stage |-> "copying", left |-> Layout[to]]
        BY <1>4, <2>1 DEF T!Cloned, T!Exists
    <2>3. DOMAIN pull' = PullFields /\ pull'.to = to /\ pull'.stage = "copying" /\ pull'.left = Layout[to]
        BY <2>2 DEF PullFields
    <2>4. /\ run'.at = "copy" /\ DOMAIN run' = RunFields /\ run'.o = run.o /\ run'.first = run.first
          /\ run'.strategy = run.strategy /\ run'.index = run.index /\ run'.dest = to
          /\ run'.got = run.got /\ run'.abandoned = run.abandoned
        BY <1>1, <2>1, <2>2, FetchGoes
    <2>5. DOMAIN tree' = T!Paths /\ NothingNew /\ NoUser(to)'
        <3>1. CASE to \in there
            BY <1>1, <2>2, <3>1, Emptied
        <3>2. CASE to \notin there
            <4>1. tree' = tree /\ NoUser(to)
                BY <2>2, <3>2 DEF FetchInv, UserSafe
            <4>2. QED
                BY <4>1, FilesStay, StaysFree
        <3>3. QED
            BY <3>1, <3>2
    <2>6. \A e \in T!Places : e \notin there' => NoUser(e)'
        BY <2>2, <2>5, DirectoriesStay DEF T!Made
    <2>7. Layout[to] \subseteq T!Below(to)
        BY Directories
    <2>8. FetchShape'
        BY <1>1, <2>1, <2>3, <2>4, <2>5, <2>7 DEF FetchShape, T!At
    <2>9. \A d \in orphans : d.stage = "extracting" => NoUser(d.to)'
        BY <1>1, <2>5, StaysFree DEF FetchInv, FetchShape, UserSafe
    <2>10. UserSafe'
        BY <1>1, <2>4, <2>5, <2>6, <2>9 DEF UserSafe, T!At
    <2>11. WholeSafe'
        <3>1. Extracted(pull)'
            BY <2>3 DEF Extracted
        <3>2. QED
            BY <1>1, <2>4, <3>1 DEF FetchInv, WholeSafe, Single, T!Running, T!At
    <2>12. QED
        BY <2>8, <2>10, <2>11 DEF FetchInv
<1>5. QED
    BY <1>2, <1>3, <1>4

\* A download that was abandoned goes on, where the user has no files.
LEMMA OrphanStep ==
    ASSUME FetchInv, NEW d \in orphans,
           T!OrphanExtracts(d) \/ T!OrphanEnds(d) \/ \E p \in T!Paths : T!OrphanWrites(d, p)
    PROVE  FetchInv'
<1>1. /\ FetchShape /\ ~T!At("idle") /\ run.abandoned /\ UNCHANGED <<run, pull>>
      /\ DOMAIN d = PullFields /\ d.left \subseteq T!Below(d.to) /\ d.to \in T!Places
      /\ there \subseteq there'
    BY DEF FetchInv, FetchShape, T!OrphanExtracts, T!OrphanEnds, T!OrphanWrites, T!Made
<1>2. ASSUME NothingNew
      PROVE  \A e \in orphans : e.stage = "extracting" => NoUser(e.to)'
    BY <1>1, <1>2, StaysFree DEF FetchInv, FetchShape, UserSafe
<1>3. CASE T!OrphanEnds(d)
    <2>1. tree' = tree /\ orphans' \subseteq orphans
        BY <1>3 DEF T!OrphanEnds
    <2>2. NothingNew /\ DOMAIN tree' = T!Paths
        BY <2>1, FilesStay
    <2>3. QED
        BY <1>1, <1>2, <2>1, <2>2, WritesStep DEF FetchShape
<1>4. CASE T!OrphanExtracts(d)
    <2>1. PICK e : e = [d EXCEPT !.stage = "extracting", !.left = Layout[d.to]]
        OBVIOUS
    <2>2. DOMAIN e = PullFields /\ e.to = d.to /\ e.left = Layout[d.to]
        BY <1>1, <2>1 DEF PullFields
    <2>3. tree' = tree /\ orphans' \subseteq orphans \cup {e} /\ NoUser(d.to)
        BY <1>4, <2>1, FetchAssumption DEF T!OrphanExtracts, T!NonEmpty, NoUser
    <2>4. NothingNew /\ DOMAIN tree' = T!Paths
        BY <2>3, FilesStay
    <2>5. NoUser(e.to)' /\ e.left \subseteq T!Below(e.to)
        BY <1>1, <2>2, <2>3, <2>4, StaysFree, Directories
    <2>6. \A f \in orphans' : /\ DOMAIN f = PullFields /\ f.left \subseteq T!Below(f.to)
                              /\ f.to \in T!Places
                              /\ f.stage = "extracting" => NoUser(f.to)'
        BY <1>1, <1>2, <2>2, <2>3, <2>4, <2>5 DEF FetchShape
    <2>7. QED
        BY <1>1, <2>3, <2>4, <2>6, WritesStep
<1>5. ASSUME NEW p \in T!Paths, T!OrphanWrites(d, p)
      PROVE  FetchInv'
    <2>1. PICK e : e = [d EXCEPT !.left = @ \ {p}]
        OBVIOUS
    <2>2. DOMAIN e = PullFields /\ e.to = d.to /\ e.stage = d.stage /\ e.left = d.left \ {p}
        BY <1>1, <2>1 DEF PullFields
    <2>3. tree' = T!With(p, "template") /\ orphans' \subseteq orphans \cup {e} /\ d.stage = "extracting"
        BY <1>5, <2>1 DEF T!OrphanWrites
    <2>4. /\ DOMAIN tree' = T!Paths /\ NothingNew
          /\ \A q \in T!Paths : tree[q] # None => tree'[q] # None
        BY <1>1, <2>3, WrittenFile
    <2>5. NoUser(e.to)' /\ e.left \subseteq T!Below(e.to)
        BY <1>1, <1>2, <2>2, <2>3, <2>4
    <2>6. \A f \in orphans' : /\ DOMAIN f = PullFields /\ f.left \subseteq T!Below(f.to)
                              /\ f.to \in T!Places
                              /\ f.stage = "extracting" => NoUser(f.to)'
        BY <1>1, <1>2, <2>2, <2>3, <2>4, <2>5 DEF FetchShape
    <2>7. QED
        BY <1>1, <2>4, <2>6, WritesStep
<1>6. QED
    BY <1>3, <1>4, <1>5

-----------------------------------------------------------------------------

\* The rest of init, which removes nothing.
LEMMA SettlesStep ==
    ASSUME FetchInv, run.at \in {"build", "publish"},
           NEW step \in {"publish", "done", "failed"}, T!Go(step),
           orphans' = orphans, there \subseteq there',
           DOMAIN tree' = T!Paths, NothingNew,
           \A q \in T!Paths : tree[q] # None => tree'[q] # None,
           step = "done" /\ ~run.o.monorepo /\ run.first /\ "spec" \notin run.got =>
               \A p \in Blank["spec"] : tree'[p] # None
    PROVE  FetchInv'
<1>1. FetchShape /\ ~T!At("idle") /\ Layout["spec"] \subseteq T!Paths
    BY Directories DEF FetchInv, T!At
<1>2. /\ run'.at = step /\ DOMAIN run' = RunFields /\ run'.o = run.o /\ run'.first = run.first
      /\ run'.strategy = run.strategy /\ run'.index = run.index /\ run'.dest = run.dest
      /\ run'.got = run.got /\ run'.abandoned = run.abandoned
    BY <1>1, FetchGoes
<1>3. FetchShape'
    BY <1>1, <1>2 DEF FetchShape, T!At
<1>4. UserSafe'
    <2>1. \A d \in T!Places : d \notin there' => NoUser(d)'
        BY DirectoriesStay
    <2>2. \A d \in orphans : d.stage = "extracting" => NoUser(d.to)'
        BY <1>1, StaysFree DEF FetchInv, FetchShape, UserSafe
    <2>3. QED
        BY <1>2, <2>1, <2>2 DEF UserSafe, T!At
<1>5. WholeSafe'
    <2>1. SUFFICES ASSUME Single'
          PROVE  WholeSafe'
        BY DEF WholeSafe
    <2>2. Single
        BY <1>2, <2>1 DEF Single, T!Running
    <2>3. step \in {"publish", "done"}
        BY <1>2, <2>1 DEF Single, T!Running
    <2>4. T!Whole("spec") => T!Whole("spec")'
        BY <1>1 DEF T!Whole
    <2>5. "spec" \in run.got => T!Whole("spec")'
        BY <2>2, <2>4 DEF FetchInv, WholeSafe
    <2>6. QED
        BY <1>2, <2>2, <2>3, <2>5 DEF WholeSafe, Single, T!At
<1>6. QED
    BY <1>3, <1>4, <1>5 DEF FetchInv

\* Blank templates are written where nothing is, or where they already are.
LEMMA BlankWritten ==
    ASSUME FetchShape, NEW done \in SUBSET (T!Prepared \ T!Conflicts),
           tree' = [p \in T!Paths |-> IF p \in done THEN "blank" ELSE tree[p]]
    PROVE  /\ DOMAIN tree' = T!Paths /\ NothingNew
           /\ \A q \in T!Paths : tree[q] # None => tree'[q] # None
           /\ \A q \in done \cap T!Paths : tree'[q] = "blank"
           /\ \A q \in T!Paths : tree[q] = "user" => tree'[q] = "user"
BY FetchAssumption DEF NothingNew, T!Conflicts

LEMMA BuildStep ==
    ASSUME FetchInv, T!Build
    PROVE  FetchInv'
<1>1. run.at = "build" /\ T!Go("publish") /\ UNCHANGED <<tree, there, orphans>>
    BY DEF T!Build, T!At
<1>2. NothingNew /\ DOMAIN tree' = T!Paths
    BY <1>1, FilesStay
<1>3. QED
    BY <1>1, <1>2, SettlesStep

LEMMA PublishStep ==
    ASSUME FetchInv, T!Publish
    PROVE  FetchInv'
<1>1. run.at = "publish" /\ T!Go("done") /\ there \subseteq there' /\ UNCHANGED orphans /\ FetchShape
    BY DEF FetchInv, T!Publish, T!At
<1>2. CASE run.first
    <2>1. /\ T!Conflicts = {}
          /\ tree' = [p \in T!Paths |-> IF p \in T!Prepared THEN "blank" ELSE tree[p]]
        BY <1>2 DEF T!Publish
    <2>2. /\ DOMAIN tree' = T!Paths /\ NothingNew
          /\ \A q \in T!Paths : tree[q] # None => tree'[q] # None
          /\ \A q \in T!Prepared \cap T!Paths : tree'[q] = "blank"
        <3>1. PICK done : done = T!Prepared
            OBVIOUS
        <3>2. /\ done \in SUBSET (T!Prepared \ T!Conflicts)
              /\ tree' = [p \in T!Paths |-> IF p \in done THEN "blank" ELSE tree[p]]
            BY <2>1, <3>1
        <3>3. QED
            BY <1>1, <3>1, <3>2, BlankWritten
    <2>3. ~run.o.monorepo /\ "spec" \notin run.got => T!Prepared = Blank["spec"]
        BY DEF T!Prepared
    <2>4. Blank["spec"] \subseteq T!Paths
        BY DEF T!Paths, T!Places
    <2>5. QED
        BY <1>1, <2>2, <2>3, <2>4, SettlesStep, FetchAssumption
<1>3. CASE ~run.first
    <2>1. tree' = tree
        BY <1>3 DEF T!Publish
    <2>2. NothingNew /\ DOMAIN tree' = T!Paths
        BY <2>1, FilesStay
    <2>3. QED
        BY <1>1, <1>3, <2>1, <2>2, SettlesStep
<1>4. QED
    BY <1>2, <1>3

LEMMA PublishStopsStep ==
    ASSUME FetchInv, T!PublishStops
    PROVE  FetchInv'
<1>1. run.at = "publish" /\ T!Go("failed") /\ UNCHANGED <<there, orphans>> /\ FetchShape
    BY DEF FetchInv, T!PublishStops, T!At
<1>2. PICK done \in SUBSET (T!Prepared \ T!Conflicts) :
         tree' = [p \in T!Paths |-> IF p \in done THEN "blank" ELSE tree[p]]
    BY DEF T!PublishStops
<1>3. /\ DOMAIN tree' = T!Paths /\ NothingNew
      /\ \A q \in T!Paths : tree[q] # None => tree'[q] # None
    BY <1>1, <1>2, BlankWritten
<1>4. QED
    BY <1>1, <1>3, SettlesStep

-----------------------------------------------------------------------------

LEMMA FetchStarts == T!FetchInit => FetchInv
<1>1. SUFFICES ASSUME T!FetchInit
      PROVE  FetchInv
    OBVIOUS
<1>2. /\ run.at = "idle" /\ orphans = {} /\ DOMAIN tree = T!Paths
      /\ \A p \in T!Paths : tree[p] # "user"
    BY <1>1, FetchAssumption DEF T!FetchInit, T!Idle
<1>3. FetchShape
    BY <1>2 DEF FetchShape, T!At
<1>4. UserSafe
    BY <1>2, Directories DEF UserSafe, NoUser, T!At
<1>5. WholeSafe
    BY <1>2 DEF WholeSafe, Single, T!Running
<1>6. QED
    BY <1>3, <1>4, <1>5 DEF FetchInv

LEMMA FetchStep == FetchInv /\ [T!FetchNext]_(T!fetchvars) => FetchInv'
<1>1. SUFFICES ASSUME FetchInv, [T!FetchNext]_(T!fetchvars)
      PROVE  FetchInv'
    OBVIOUS
<1>2. CASE UNCHANGED T!fetchvars
    BY <1>1, <1>2 DEF T!fetchvars, FetchInv, FetchShape, UserSafe, WholeSafe, NoUser, Single, Extracted,
        T!At, T!Running, T!Whole
<1>3. CASE \E p \in T!Paths : T!Edit(p) \/ T!ExtractFile(p) \/ T!Merge(p) \/ T!Copy(p)
    BY <1>1, <1>3, EditStep, FileStep, MergeStep
<1>4. CASE \E o \in Options : T!Begin(o)
    BY <1>1, <1>4, BeginStep
<1>5. CASE \/ T!Kill \/ T!PickPackage \/ T!TemplatePackage \/ T!BlankPackage
           \/ T!TemplateByName \/ T!FromRegistry \/ T!FromOfficial \/ T!Direct
    BY <1>1, <1>5, KillStep, PackagesStep, TemplateStep, RegistryStep, OfficialStep, DirectStep
<1>6. CASE \/ T!Decide \/ T!Prepare \/ T!Extract \/ T!Pulled \/ T!PullBreaks \/ T!TimesOut
           \/ T!Merged \/ T!CopyBreaks \/ T!Cloned \/ T!Copied
    BY <1>1, <1>6, DecideStep, PrepareStep, ExtractStep, PulledStep, TimesOutStep, MergedStep, ClonedStep
<1>7. CASE \E d \in orphans : T!OrphanExtracts(d) \/ T!OrphanEnds(d) \/ \E p \in T!Paths : T!OrphanWrites(d, p)
    BY <1>1, <1>7, OrphanStep
<1>8. CASE T!Build \/ T!Publish \/ T!PublishStops
    BY <1>1, <1>8, BuildStep, PublishStep, PublishStopsStep
<1>9. QED
    BY <1>1, <1>2, <1>3, <1>4, <1>5, <1>6, <1>7, <1>8 DEF T!FetchNext

\* A file of the user goes when a directory is overwritten, and not otherwise.
FilesKept ==
    \A p \in T!Paths : tree[p] = "user" =>
        tree'[p] = "user" \/ (T!Running /\ run.strategy = "overwrite")

LEMMA FetchKeeps == FetchInv /\ [T!FetchNext]_(T!fetchvars) => FilesKept
<1>1. SUFFICES ASSUME FetchInv, [T!FetchNext]_(T!fetchvars)
      PROVE  FilesKept
    OBVIOUS
<1>2. FetchShape
    BY <1>1 DEF FetchInv
<1>3. ASSUME tree' = tree
      PROVE  FilesKept
    BY <1>3 DEF FilesKept
<1>4. ASSUME NEW p \in T!Paths, NEW content, tree' = T!With(p, content),
             content = "user" \/ tree[p] # "user"
      PROVE  FilesKept
    BY <1>2, <1>4 DEF FilesKept, FetchShape, T!With
<1>5. ASSUME NEW d \in T!Places, tree' = T!Without(d),
             NoUser(d) \/ (T!Running /\ run.strategy = "overwrite")
      PROVE  FilesKept
    <2>1. CASE NoUser(d)
        BY <1>2, <1>5, <2>1, Emptied DEF FilesKept, NoUser
    <2>2. QED
        BY <1>5, <2>1 DEF FilesKept
<1>6. CASE UNCHANGED T!fetchvars
    BY <1>3, <1>6 DEF T!fetchvars
<1>7. ASSUME NEW p \in T!Paths, T!Edit(p) \/ T!ExtractFile(p) \/ T!Merge(p) \/ T!Copy(p)
      PROVE  FilesKept
    <2>1. CASE T!Edit(p)
        BY <1>4, <2>1 DEF T!Edit
    <2>2. CASE T!Merge(p)
        BY <1>4, <2>2, FetchAssumption DEF T!Merge
    <2>3. CASE T!ExtractFile(p) \/ T!Copy(p)
        <3>1. tree' = T!With(p, "template") /\ p \in T!Below(pull.to)
            BY <1>2, <2>3 DEF FetchShape, T!ExtractFile, T!Copy
        <3>2. NoUser(pull.to)
            <4>1. CASE T!ExtractFile(p)
                <5>1. T!At("pull") /\ ~T!At("idle") /\ pull.stage = "extracting" /\ pull.left # {}
                    BY <4>1 DEF T!ExtractFile, T!At
                <5>2. pull.to # "temp"
                    BY <1>2, <5>1, Directories DEF FetchShape
                <5>3. QED
                    BY <1>1, <5>1, <5>2 DEF FetchInv, UserSafe
            <4>2. CASE T!Copy(p)
                BY <1>1, <1>2, <4>2 DEF FetchInv, FetchShape, UserSafe, T!Copy
            <4>3. QED
                BY <2>3, <4>1, <4>2
        <3>3. QED
            BY <1>4, <3>1, <3>2 DEF NoUser
    <2>4. QED
        BY <1>7, <2>1, <2>2, <2>3
<1>8. CASE \E o \in Options : T!Begin(o)
    BY <1>3, <1>8 DEF T!Begin
<1>9. CASE \/ T!Kill \/ T!PickPackage \/ T!TemplatePackage \/ T!BlankPackage
           \/ T!TemplateByName \/ T!FromRegistry \/ T!FromOfficial \/ T!Direct
    BY <1>3, <1>9 DEF T!Kill, T!PickPackage, T!TemplatePackage, T!BlankPackage,
        T!TemplateByName, T!FromRegistry, T!FromOfficial, T!Direct
<1>10. CASE T!Decide \/ T!Extract \/ T!Pulled \/ T!PullBreaks \/ T!Merged \/ T!CopyBreaks \/ T!Copied \/ T!Build
    BY <1>3, <1>10 DEF T!Decide, T!Extract, T!Pulled, T!PullBreaks, T!Merged, T!CopyBreaks, T!Copied, T!Build
<1>11. CASE T!Prepare
    <2>1. T!At("prepare") /\ run.dest \in T!Places /\ run.strategy \in T!Strategies /\ T!Running
        BY <1>2, <1>11 DEF FetchShape, T!Prepare, T!At, T!Running
    <2>2. tree' = tree \/ (T!Exists(run.dest) /\ run.strategy # "append" /\ tree' = T!Without(run.dest))
        BY <1>11 DEF T!Prepare
    <2>3. run.strategy = "skip" => NoUser(run.dest)
        BY <1>1, <2>1 DEF FetchInv, UserSafe
    <2>4. QED
        BY <1>3, <1>5, <2>1, <2>2, <2>3 DEF T!Strategies
<1>12. CASE T!TimesOut
    <2>1. T!At("pull") /\ T!Running
        BY <1>12 DEF T!TimesOut, T!At, T!Running
    <2>2. tree' = tree \/ (pull.to # "temp" /\ tree' = T!Without(pull.to))
        BY <1>12 DEF T!TimesOut
    <2>3. pull.to # "temp" => pull.to \in T!Places /\ (NoUser(pull.to) \/ run.strategy = "overwrite")
        BY <1>1, <1>2, <2>1 DEF FetchInv, FetchShape, UserSafe, T!At
    <2>4. QED
        BY <1>3, <1>5, <2>1, <2>2, <2>3
<1>13. CASE T!Cloned
    <2>1. T!At("clone") /\ run.dest \in T!Places /\ run.strategy \in T!Strategies /\ T!Running
        BY <1>2, <1>13 DEF FetchShape, T!Cloned, T!At, T!Running
    <2>2. tree' = tree \/ (run.strategy \notin {"skip", "append"} /\ tree' = T!Without(run.dest))
        BY <1>13 DEF T!Cloned
    <2>3. QED
        BY <1>3, <1>5, <2>1, <2>2 DEF T!Strategies
<1>14. ASSUME NEW d \in orphans,
              T!OrphanExtracts(d) \/ T!OrphanEnds(d) \/ \E p \in T!Paths : T!OrphanWrites(d, p)
       PROVE  FilesKept
    <2>1. CASE T!OrphanExtracts(d) \/ T!OrphanEnds(d)
        BY <1>3, <2>1 DEF T!OrphanExtracts, T!OrphanEnds
    <2>2. ASSUME NEW p \in T!Paths, T!OrphanWrites(d, p)
          PROVE  FilesKept
        <3>1. tree' = T!With(p, "template") /\ p \in d.left /\ d.stage = "extracting"
            BY <2>2 DEF T!OrphanWrites
        <3>2. p \in T!Below(d.to) /\ NoUser(d.to)
            BY <1>1, <1>2, <3>1 DEF FetchInv, FetchShape, UserSafe
        <3>3. QED
            BY <1>4, <3>1, <3>2 DEF NoUser
    <2>3. QED
        BY <1>14, <2>1, <2>2
<1>15. CASE T!Publish \/ T!PublishStops
    <2>1. ASSUME NEW done \in SUBSET (T!Prepared \ T!Conflicts),
                 tree' = [p \in T!Paths |-> IF p \in done THEN "blank" ELSE tree[p]]
          PROVE  FilesKept
        BY <1>2, <2>1, BlankWritten DEF FilesKept
    <2>2. CASE T!PublishStops
        BY <2>1, <2>2 DEF T!PublishStops
    <2>3. CASE T!Publish
        <3>1. PICK done : done = T!Prepared
            OBVIOUS
        <3>2. CASE run.first
            <4>1. /\ T!Conflicts = {}
                  /\ tree' = [p \in T!Paths |-> IF p \in T!Prepared THEN "blank" ELSE tree[p]]
                BY <2>3, <3>2 DEF T!Publish
            <4>2. /\ done \in SUBSET (T!Prepared \ T!Conflicts)
                  /\ tree' = [p \in T!Paths |-> IF p \in done THEN "blank" ELSE tree[p]]
                BY <3>1, <4>1
            <4>3. QED
                BY <2>1, <4>2
        <3>3. CASE ~run.first
            BY <1>3, <2>3, <3>3 DEF T!Publish
        <3>4. QED
            BY <3>2, <3>3
    <2>4. QED
        BY <1>15, <2>2, <2>3
<1>16. QED
    BY <1>1, <1>6, <1>7, <1>8, <1>9, <1>10, <1>11, <1>12, <1>13, <1>14, <1>15 DEF T!FetchNext

-----------------------------------------------------------------------------
(* The project.                                                             *)

ProjectInv ==
    /\ part = "install" => InstallInv
    /\ part = "templates" => FetchInv

LEMMA ProjectStarts == ProjectInit => ProjectInv
BY InstallInit, FetchStarts DEF ProjectInit, ProjectInv

\* A part that rests stays as it is; one that moves moves alone.
LEMMA PartMoves ==
    ASSUME [ProjectNext]_projectVars
    PROVE  /\ part' = part
           /\ I!Next \/ UNCHANGED installVars
           /\ T!FetchNext \/ UNCHANGED templateVars
           /\ part # "install" => UNCHANGED installVars
           /\ part # "templates" => UNCHANGED templateVars
BY DEF ProjectNext, projectVars

LEMMA InstallStays ==
    ASSUME InstallInv, UNCHANGED installVars
    PROVE  InstallInv'
BY DEF installVars, InstallInv, Command, Journals, I!At, I!ImportStaged, I!PublishedAfterCommit

LEMMA ProjectStep == ProjectInv /\ [ProjectNext]_projectVars => ProjectInv'
<1>1. SUFFICES ASSUME ProjectInv, [ProjectNext]_projectVars
      PROVE  ProjectInv'
    OBVIOUS
<1>2. ASSUME part = "install" PROVE InstallInv'
    BY <1>1, <1>2, PartMoves, InstallStep, InstallStays DEF ProjectInv
<1>3. ASSUME part = "templates" PROVE FetchInv'
    <2>1. FetchInv /\ [T!FetchNext]_(T!fetchvars)
        BY <1>1, <1>3, PartMoves DEF ProjectInv, templateVars, T!fetchvars
    <2>2. QED
        BY <2>1, FetchStep
<1>4. QED
    BY <1>1, <1>2, <1>3, PartMoves DEF ProjectInv

LEMMA ProjectInvariant == ProjectSpec => []ProjectInv
BY ProjectStarts, ProjectStep, PTL DEF ProjectSpec

(* Whatever legacy trees, templates and command lines there are: an import  *)
(* is named by the pointer only once it was sealed and validated, and what  *)
(* init publishes comes from an import that was committed; a download that  *)
(* init takes for done is whole, and a registry is taken for the spec only  *)
(* when it answered that it has no index.                                   *)
THEOREM InstalledTheorem == ProjectSpec => []InstalledWhole
<1>1. ProjectInv => InstalledWhole
    <2>1. FetchInv => T!LeavesSpec
        BY DEF FetchInv, WholeSafe, Single, T!LeavesSpec
    <2>2. FetchInv => T!DirectOnlyWithoutIndex
        BY DEF FetchInv, FetchShape, T!DirectOnlyWithoutIndex, T!Running, T!At
    <2>3. QED
        BY <2>1, <2>2 DEF ProjectInv, InstalledWhole, InstallInv
<1>2. QED
    BY <1>1, ProjectInvariant, PTL

(* No run of init takes a file of the user that an import, a download, a    *)
(* merge or a blank template finds in its way, however the run before it    *)
(* ended, except where the user asks for an overwrite.                      *)
THEOREM UserWorkTheorem == ProjectSpec => UserWorkKept
<1>1. ProjectInv /\ [ProjectNext]_projectVars =>
          [stops'.edits = stops.edits =>
               \A f \in I!Files : user[f] # None => user'[f] = user[f]]_(I!vars)
    <2>1. SUFFICES ASSUME ProjectInv, [ProjectNext]_projectVars, ~UNCHANGED I!vars
          PROVE  stops'.edits = stops.edits =>
                     \A f \in I!Files : user[f] # None => user'[f] = user[f]
        OBVIOUS
    <2>2. InstallInv /\ I!Next
        BY <2>1, PartMoves DEF ProjectInv, installVars, I!vars, I!disk
    <2>3. QED
        BY <2>2, InstallKeeps
<1>2. ProjectInv /\ [ProjectNext]_projectVars =>
          [\A p \in T!Paths : tree[p] = "user" =>
               tree'[p] = "user" \/ (T!Running /\ run.strategy = "overwrite")]_(T!fetchvars)
    <2>1. SUFFICES ASSUME ProjectInv, [ProjectNext]_projectVars, ~UNCHANGED T!fetchvars
          PROVE  FilesKept
        BY DEF FilesKept
    <2>2. FetchInv /\ T!FetchNext
        BY <2>1, PartMoves DEF ProjectInv, templateVars, T!fetchvars
    <2>3. QED
        BY <2>2, FetchKeeps
<1>3. QED
    BY <1>1, <1>2, ProjectInvariant, PTL DEF ProjectSpec, UserWorkKept, I!UserStateKept, T!UserFilesKept
=============================================================================
