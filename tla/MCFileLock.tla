----------------------------- MODULE MCFileLock -----------------------------
(***************************************************************************)
(* Five protocols over plain files and a registry, side by side; part      *)
(* picks the one that moves while the others stay as they began:           *)
(*   lock       two tasks of one process against one task of another       *)
(*   trace      two writers and a reader of an evaluation trace            *)
(*   loader     a tile directory that is replaced while it is read         *)
(*   artifacts  the task files that an update deepens or puts back         *)
(*   releases   two publishing jobs for the commits of one maintainer      *)
(***************************************************************************)
EXTENDS FileLock, Integers, FiniteSets, Sequences, TLC

CONSTANTS
    t1, t2, t3, p1, p2, Writers, Readers, Drafts, MaxLog, MaxEdits, None, Corrupt,
    TaskNames, Bodies, Listed, Pool, Archived, Contents, MaxWrites,
    Jobs, Starts, ReleaseTypes, MaxCommits, MaxBuilds

MCPidOf == (t1 :> p1) @@ (t2 :> p1) @@ (t3 :> p2)

VARIABLES
    part,
    log, head, lock, writer, reader, returned,
    dir, past, edits, load, loaded,
    docs, run, kept, disturbed, writes,
    tree, commits, branches, tags, job, packed, registry, dist, promotion, late

Event(id, event, outcome) ==
    [id |-> id, event |-> event, outcome |-> outcome, tile |-> "t", related |-> None, intent |-> None,
     provider |-> None, position |-> None, duration |-> None, error |-> None, evidence |-> {}]

MCDrafts == {Event("e1", "invoked", "started"), Event("e2", "skipped", "skipped"),
             Event("e3", "failed", "failed")}

Trace == INSTANCE TraceStore
ASSUME TraceAssumption == None \notin Writers \cup Trace!Lines \cup Trace!Heads /\ MaxLog \in Nat

Loader == INSTANCE TileLoader
ASSUME LoaderAssumption == None \notin Loader!Opens /\ MaxEdits \in Nat

\* An archived task, two tasks and an item of the pool.
Task(body, hint, controls, topology, children, depends, graph) ==
    [body |-> body, hint |-> hint, controls |-> controls, topology |-> topology, parent |-> "P",
     children |-> children, depends |-> depends, graph |-> graph]
Shape(kind, parent, children) == [kind |-> kind, parent |-> parent, children |-> children]

MCFiles == <<"a1", "t1", "t2", "p1">>
MCContents ==
       ("t1" :> {None, Task("b1", "full", None, None, {"c"}, {"x"}, None),
                 Task("b2", None, "lite", Shape("single", None, {}), {"c"}, {}, None)})
    @@ ("t2" :> {Corrupt, Task("b1", None, None, Shape("parent-child", "P", {}), {}, {}, None),
                 Task("b1", None, "full", Shape("single", "P", {}), {}, {"x"}, {"x"})})
    @@ ("a1" :> {Task("b1", "full", None, None, {"c"}, {"x"}, None)})
    @@ ("p1" :> {[priority |-> FALSE, body |-> "b1"], [priority |-> TRUE, body |-> "b2"]})

Artifacts == INSTANCE ArtifactMigration
ASSUME ArtifactAssumption ==
    /\ Pool \cup Archived \subseteq Artifacts!Paths
    /\ Contents \in [Artifacts!Paths -> SUBSET (Artifacts!Records \cup Artifacts!Items \cup {None, Corrupt})]
    /\ \A f \in Artifacts!Paths : \A content \in Contents[f] \ {None, Corrupt} :
          content \in IF f \in Pool THEN Artifacts!Items ELSE Artifacts!Records
    /\ None \notin {"single", "parent-child"} \cup Artifacts!Shapes

MCStarts == {[major |-> 0, minor |-> 5, patch |-> 0, channel |-> "stable", n |-> 0]}

Publishing == INSTANCE Releases
ASSUME ReleaseAssumption ==
    /\ Starts \subseteq Publishing!ReleaseVersions
    /\ ReleaseTypes \subseteq {"patch", "minor", "major", "promote", "alpha", "beta", "rc"}
    /\ None \notin Nat \cup Publishing!ReleaseVersions \cup Publishing!Tarballs \cup Publishing!Manifests

\* The histories of the releases that are followed: all of the maintainer's up
\* to the first build; then those in which both jobs publish the newest commit
\* as a candidate, with one package replaced in at most one of them.
Busy == {j \in Jobs : job[j].at # "idle"}
Swapped == {s \in Busy \X Publishing!Packages : job[s[1]].files[s[2]] = 0}
Unbuilt ==
    /\ \A p \in Publishing!Packages : tree[p].patch <= 1 /\ tree[p].n <= 1
    /\ packed = 0 => branches["release"] = 0 /\ branches["beta"] = 0
Built ==
    /\ Len(commits) = MaxCommits /\ tree = commits[MaxCommits]
    /\ Publishing!Matching(tree) /\ Publishing!Stable(tree["cli"])
    /\ branches["main"] = MaxCommits
    /\ DOMAIN tags = Publishing!Versions
    /\ \A v \in DOMAIN tags : commits[tags[v]]["cli"] = v
    /\ \A j \in Busy : job[j].commit = MaxCommits /\ job[j].manifest.npmTag = "candidate"
    /\ ~late /\ Swapped \subseteq Jobs \X {"cli"}
    /\ Cardinality(Swapped) + Cardinality(Busy) + (IF promotion.at = "idle" THEN 0 ELSE 1) <= 2
    /\ promotion.at = "idle" \/ packed = 1
Followed == part = "releases" => Unbuilt /\ (packed > 0 => Built)
SameJobs == Permutations(Jobs)

traceVars == <<log, head, lock, writer, reader, returned>>
loaderVars == <<dir, past, edits, load, loaded>>
artifactVars == <<docs, run, kept, disturbed, writes>>
releaseVars == <<tree, commits, branches, tags, job, packed, registry, dist, promotion, late>>
allVars == <<part, vars, traceVars, loaderVars, artifactVars, releaseVars>>

\* Loads, traces and updates end; the lock is asked for again and again.
Rest == part # "lock" /\ UNCHANGED allVars

FilesInit ==
    /\ part \in {"lock", "trace", "loader", "artifacts", "releases"}
    /\ Init /\ Trace!Tinit /\ Loader!LoadInit /\ Publishing!ReleaseInit
    /\ IF part = "artifacts" THEN Artifacts!ArtifactInit
       ELSE docs = None /\ run = None /\ kept = <<>> /\ disturbed = FALSE /\ writes = 0

FilesNext ==
    \/ /\ part = "lock" /\ Next
       /\ UNCHANGED <<part, traceVars, loaderVars, artifactVars, releaseVars>>
    \/ /\ part = "trace" /\ Trace!Tnext
       /\ UNCHANGED <<part, vars, loaderVars, artifactVars, releaseVars>>
    \/ /\ part = "loader" /\ Loader!LoadNext
       /\ UNCHANGED <<part, vars, traceVars, artifactVars, releaseVars>>
    \/ /\ part = "artifacts" /\ Artifacts!ArtifactNext
       /\ UNCHANGED <<part, vars, traceVars, loaderVars, releaseVars>>
    \/ /\ part = "releases" /\ Publishing!ReleaseNext
       /\ UNCHANGED <<part, vars, traceVars, loaderVars, artifactVars>>
    \/ Rest

FilesSpec == FilesInit /\ [][FilesNext]_allVars

(* What an append returned stays a prefix of the trace, and a reader is     *)
(* given committed events only.                                             *)
CommittedStays == part = "trace" => Trace!ReturnedStay /\ Trace!ReadIsCommitted

\* What the tile loader hands out was on the disk together.
LoadedIsReal == part = "loader" => Loader!LoadedIsReal

(* A migration of the artifacts is whole or undone, and leaves no child     *)
(* that only its old parent field names.                                    *)
MigratedWhole == part = "artifacts" => Artifacts!AllOrNothing /\ Artifacts!ChildrenAreNamed

(* What is on the registry comes from one validated commit, after what it   *)
(* depends on; what is promoted is whole; and a bump is what was planned.   *)
ReleasedWhole == part = "releases" =>
    /\ Publishing!OneSource /\ Publishing!DependenciesFirst
    /\ Publishing!PromotedIsWhole /\ Publishing!PlanIsBump
=============================================================================
