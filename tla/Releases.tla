------------------------------- MODULE Releases -------------------------------
(***************************************************************************)
(* Publishing (cli/scripts: bump-versions, release, release-guard,         *)
(* release-preflight, release-validation, publish-packages, and the        *)
(* workflow that runs them).  Four packages of one version go to the       *)
(* registry in the order of their dependencies.  A preparation without     *)
(* credentials packs them from a tagged commit and seals their hashes; a   *)
(* publication opens the sealed set, asks the registry what is there and   *)
(* publishes the rest.  It may stop anywhere and be run again, and two may *)
(* run at once.  A promotion then moves a staged version to latest.        *)
(*                                                                         *)
(* The history of the repository is a line: commit i has the commits       *)
(* before it as ancestors.  Bytes are the number of the preparation that   *)
(* packed them.                                                            *)
(***************************************************************************)
EXTENDS Naturals, Sequences, FiniteSets

CONSTANTS
  None, Jobs,
  Starts,          \* versions a history may start from
  ReleaseTypes,    \* of the types below, those that are used
  MaxCommits, MaxBuilds

VARIABLES
  tree,       \* the four package.json files of the maintainer: the version of each
  commits,    \* the versions in the files of each commit
  branches,   \* the commit each branch of the remote is at
  tags,       \* the commit a version is tagged at
  job,        \* the state of each publishing job
  packed,     \* preparations so far
  registry,   \* the published versions of each package: [version, commit, bytes]
  dist,       \* the dist-tags of each package
  promotion,  \* [at, version, next, seen]
  late        \* history: a tarball was replaced after its hash was checked

Packages == {"core", "cli", "legacyCore", "legacyCli"}

-----------------------------------------------------------------------------
(* Versions.                                                                *)
Version(major, minor, patch, channel, n) ==
  [major |-> major, minor |-> minor, patch |-> patch, channel |-> channel, n |-> n]

ReleaseVersions == [major : Nat, minor : Nat, patch : Nat, channel : {"alpha", "beta", "rc", "stable"}, n : Nat]

Stable(v) == v.channel = "stable"
Base(v)   == Version(v.major, v.minor, v.patch, "stable", 0)

Rank == [alpha |-> 0, beta |-> 1, rc |-> 2, stable |-> 3]
Key(v) == <<v.major, v.minor, v.patch, Rank[v.channel], v.n>>

\* compareReleaseVersions
Newer(v, w) == \E i \in 1..5 : Key(v)[i] > Key(w)[i] /\ \A j \in 1..(i - 1) : Key(v)[j] = Key(w)[j]

NextPatch(v) == Version(v.major, v.minor, v.patch + 1, "stable", 0)
NextMinor(v) == Version(v.major, v.minor + 1, 0, "stable", 0)
NextMajor(v) == Version(v.major + 1, 0, 0, "stable", 0)
Onto(v, channel, n) == Version(v.major, v.minor, v.patch, channel, n)

\* bumpPrerelease
BumpPrerelease(v, channel) ==
  IF Stable(v) THEN Onto(NextPatch(v), channel, 0)
  ELSE Onto(v, channel, IF v.channel = channel THEN v.n + 1 ELSE 0)

\* computeNext (bump-versions.js)
Bumped(v, type) ==
  CASE type = "patch"   -> IF Stable(v) THEN NextPatch(v) ELSE Base(v)
    [] type = "minor"   -> NextMinor(v)
    [] type = "major"   -> NextMajor(v)
    [] type = "promote" -> IF Stable(v) THEN None ELSE Base(v)
    [] OTHER            -> BumpPrerelease(v, type)

\* computeReleaseTarget (release.js), before the comparison
Target(v, type) ==
  CASE type = "patch"   -> IF Stable(v) THEN NextPatch(v) ELSE Base(v)
    [] type = "minor"   -> NextMinor(v)
    [] type = "major"   -> NextMajor(v)
    [] type = "promote" -> IF Stable(v) THEN None ELSE Base(v)
    [] v.channel = type -> Onto(v, type, v.n + 1)
    [] OTHER            -> Onto(IF Stable(v) THEN NextPatch(v) ELSE v, type, 0)

Planned(v, type) == LET t == Target(v, type) IN IF t = None \/ ~Newer(t, v) THEN None ELSE t

\* computeNpmTag
DefaultTag(v) == IF Stable(v) THEN "latest" ELSE v.channel

\* resolveNpmTag
NpmTags(v) == {DefaultTag(v)} \cup (IF Stable(v) THEN {"candidate"} ELSE {})

-----------------------------------------------------------------------------
(* The maintainer.                                                          *)
Matching(files) == \A p, q \in Packages : files[p] = files[q]

\* The files are written one after the other; a bump may be cut short.
Files == <<"core", "cli", "legacyCore", "legacyCli">>
Bump(type, written) ==
  LET next == Bumped(tree["cli"], type)
  IN /\ Matching(tree) /\ next # None
     /\ tree' = [p \in Packages |-> IF \E i \in 1..written : Files[i] = p THEN next ELSE tree[p]]
     /\ UNCHANGED <<commits, branches, tags, job, packed, registry, dist, promotion, late>>

Commit == /\ Len(commits) < MaxCommits /\ commits' = Append(commits, tree)
          /\ UNCHANGED <<tree, branches, tags, job, packed, registry, dist, promotion, late>>

Push(branch) == /\ branches[branch] < Len(commits) /\ branches' = [branches EXCEPT ![branch] = Len(commits)]
                /\ UNCHANGED <<tree, commits, tags, job, packed, registry, dist, promotion, late>>

\* A release tag names any version and any commit; it is never moved.
Tagged(v) == IF v \in DOMAIN tags THEN tags[v] ELSE None
TagCommit(v, c) ==
  /\ Tagged(v) = None
  /\ tags' = [w \in DOMAIN tags \cup {v} |-> IF w = v THEN c ELSE tags[w]]
  /\ UNCHANGED <<tree, commits, branches, job, packed, registry, dist, promotion, late>>

-----------------------------------------------------------------------------
(* A publishing job.                                                        *)
Fresh == [at |-> "idle", commit |-> 0, manifest |-> None, files |-> None, plan |-> None, next |-> 1]

Tarballs == [Packages -> Nat]
NpmTagNames == {"latest", "candidate", "alpha", "beta", "rc"}
Manifests == [version : ReleaseVersions, npmTag : NpmTagNames, commit : Nat, bytes : Nat]

\* RELEASE_PACKAGE_DAG
Order == <<"core", "cli", "legacyCore", "legacyCli">>

\* assertPublishProvenance
Integrated(v, c) ==
  CASE Stable(v)         -> c <= branches["main"]
    [] v.channel = "rc"  -> c <= branches["beta"] \/ c <= branches["release"]
    [] OTHER             -> c <= branches["beta"]

Provenance(v, c) == Tagged(v) = c /\ Integrated(v, c)

Turned(j, at, plan, next) == [job[j] EXCEPT !.at = at, !.plan = plan, !.next = next]
Stopped(j) == Turned(j, "stopped", None, 1)
Following(i) == IF i = 4 THEN 1 ELSE i + 1
Set(j, fields) == job' = [job EXCEPT ![j] = fields]
OnlyJobs == UNCHANGED <<tree, commits, branches, tags, registry, dist, promotion>>

\* runCandidatePreparation and prepareReleaseArtifacts, from a checkout of c.
Prepare(j, c, v, npmTag) ==
  /\ job[j].at \in {"idle", "stopped"} /\ packed < MaxBuilds
  /\ Matching(commits[c]) /\ commits[c]["cli"] = v /\ Provenance(v, c) /\ npmTag \in NpmTags(v)
  /\ packed' = packed + 1
  /\ Set(j, [at |-> "prepared", commit |-> c, plan |-> None, next |-> 1,
             manifest |-> [version |-> v, npmTag |-> npmTag, commit |-> c, bytes |-> packed + 1],
             files |-> [p \in Packages |-> packed + 1]])
  /\ OnlyJobs /\ UNCHANGED late

\* A tarball is replaced where it lies.
Replace(j, p) ==
  /\ job[j].files # None /\ job[j].files[p] # 0
  /\ job' = [job EXCEPT ![j].files[p] = 0]
  /\ late' = (late \/ job[j].at \in {"planning", "publishing"})
  /\ OnlyJobs /\ UNCHANGED packed

\* Mutant: the hashes of the tarballs are not compared.
OpenedUnhashed(manifest, files, c) == manifest.commit = c /\ manifest.version = commits[c]["cli"]

\* readPreparedReleaseArtifacts, and the comparison with the checkout
Opened(manifest, files, c) ==
  /\ manifest.commit = c /\ manifest.version = commits[c]["cli"]
  /\ \A p \in Packages : files[p] = manifest.bytes

\* runPreparedPublish up to the plan, from a checkout of c
Load(j, c) ==
  /\ job[j].at \in {"prepared", "stopped"} /\ job[j].manifest # None
  /\ Matching(commits[c]) /\ Opened(job[j].manifest, job[j].files, c)
  /\ Set(j, Turned(j, "planning", [p \in Packages |-> FALSE], 1))
  /\ OnlyJobs /\ UNCHANGED <<packed, late>>

VersionOf(j) == job[j].manifest.version
Published(p, v) == \E e \in registry[p] : e.version = v

\* createPublishPlan, a package at a time
PlanNext(j) ==
  LET p == Order[job[j].next]
  IN /\ job[j].at = "planning"
     /\ Set(j, Turned(j, IF job[j].next = 4 THEN "publishing" ELSE "planning",
                     [job[j].plan EXCEPT ![p] = ~Published(p, VersionOf(j))], Following(job[j].next)))
     /\ OnlyJobs /\ UNCHANGED <<packed, late>>

Onward(j) == Turned(j, IF job[j].next = 4 THEN "verifying" ELSE "publishing", job[j].plan, Following(job[j].next))

SkipNext(j) ==
  /\ job[j].at = "publishing" /\ ~job[j].plan[Order[job[j].next]]
  /\ Set(j, Onward(j)) /\ OnlyJobs /\ UNCHANGED <<packed, late>>

\* npm publish; the registry takes a version once.
PublishNext(j) ==
  LET p == Order[job[j].next]
      m == job[j].manifest
  IN /\ job[j].at = "publishing" /\ job[j].plan[p]
     /\ IF Published(p, m.version)
        THEN Set(j, Stopped(j)) /\ UNCHANGED <<registry, dist>>
        ELSE /\ Set(j, Onward(j))
             /\ registry' = [registry EXCEPT ![p] = @ \cup
                               {[version |-> m.version, commit |-> m.commit, bytes |-> job[j].files[p]]}]
             /\ dist' = [dist EXCEPT ![p][m.npmTag] = m.version]
     /\ UNCHANGED <<tree, commits, branches, tags, promotion, packed, late>>

\* verifyNpm; nothing is written, so its reads are taken together.
Verify(j) ==
  /\ job[j].at = "verifying"
  /\ LET m == job[j].manifest
     IN Set(j, IF \A p \in Packages : Published(p, m.version) /\ dist[p][m.npmTag] = m.version
               THEN Turned(j, "verified", None, 1) ELSE Stopped(j))
  /\ OnlyJobs /\ UNCHANGED <<packed, late>>

\* A command fails or the machine goes away.
Stop(j) == /\ job[j].at \in {"planning", "publishing", "verifying"}
           /\ Set(j, Stopped(j)) /\ OnlyJobs /\ UNCHANGED <<packed, late>>

-----------------------------------------------------------------------------
(* The promotion.                                                           *)
Promoted(fields) == /\ promotion' = fields
                    /\ UNCHANGED <<tree, commits, branches, tags, job, packed, registry, late>>
Step(at) == [at |-> IF promotion.next = 4 THEN at ELSE promotion.at, version |-> promotion.version,
             next |-> Following(promotion.next), seen |-> FALSE]
Aborted == [at |-> "aborted", version |-> None, next |-> 1, seen |-> FALSE]
Turn == Order[promotion.next]

\* check-versions, from a checkout of the tag
StartPromotion(v) ==
  /\ promotion.at \in {"idle", "aborted", "released"} /\ Stable(v) /\ Tagged(v) # None
  /\ Matching(commits[Tagged(v)]) /\ commits[Tagged(v)]["cli"] = v
  /\ Promoted([at |-> "staged", version |-> v, next |-> 1, seen |-> FALSE]) /\ UNCHANGED dist

Staged(p, v) == dist[p]["candidate"] = v \/ (dist[p]["candidate"] = None /\ dist[p]["latest"] = v)

CheckStaged == /\ promotion.at = "staged"
               /\ Promoted(IF Staged(Turn, promotion.version) THEN Step("promoting") ELSE Aborted) /\ UNCHANGED dist

\* npm dist-tag add, which needs the version to be there
PromoteNext ==
  /\ promotion.at = "promoting"
  /\ IF Published(Turn, promotion.version)
     THEN /\ dist' = [dist EXCEPT ![Turn]["latest"] = promotion.version] /\ Promoted(Step("confirming"))
     ELSE Promoted(Aborted) /\ UNCHANGED dist

Confirm ==
  /\ promotion.at = "confirming"
  /\ Promoted(IF \A p \in Packages : dist[p]["latest"] = promotion.version
              THEN [promotion EXCEPT !.at = "cleaning"] ELSE Aborted)
  /\ UNCHANGED dist

\* The tags are read, and the candidate is removed by a later command.
CleanRead ==
  /\ promotion.at = "cleaning" /\ ~promotion.seen
  /\ LET candidate == dist[Turn]["candidate"]
     IN Promoted(IF dist[Turn]["latest"] # promotion.version \/ candidate \notin {None, promotion.version} THEN Aborted
                 ELSE IF candidate = None THEN Step("released") ELSE [promotion EXCEPT !.seen = TRUE])
  /\ UNCHANGED dist

CleanRemove ==
  /\ promotion.at = "cleaning" /\ promotion.seen
  /\ dist' = [dist EXCEPT ![Turn]["candidate"] = None]
  /\ Promoted(Step("released"))

StopPromotion == promotion.at \in {"promoting", "cleaning"} /\ Promoted(Aborted) /\ UNCHANGED dist

-----------------------------------------------------------------------------
ReleaseInit ==
  /\ \E v \in Starts : tree = [p \in Packages |-> v] /\ commits = <<[p \in Packages |-> v]>>
  /\ branches = [b \in {"main", "beta", "release"} |-> 0] /\ tags = [v \in {} |-> 0]
  /\ job = [j \in Jobs |-> Fresh] /\ packed = 0 /\ late = FALSE
  /\ registry = [p \in Packages |-> {}]
  /\ dist = [p \in Packages |-> [t \in NpmTagNames |-> None]]
  /\ promotion = [at |-> "idle", version |-> None, next |-> 1, seen |-> FALSE]

Versions == {commits[c][p] : c \in DOMAIN commits, p \in Packages}

ReleaseNext ==
  \/ \E type \in ReleaseTypes, written \in 1..4 : Bump(type, written)
  \/ Commit \/ (\E b \in DOMAIN branches : Push(b))
  \/ \E v \in Versions, c \in DOMAIN commits : TagCommit(v, c)
  \/ \E j \in Jobs :
       \/ \E c \in DOMAIN commits, v \in DOMAIN tags, npmTag \in NpmTagNames : Prepare(j, c, v, npmTag)
       \/ \E p \in Packages : Replace(j, p)
       \/ \E c \in DOMAIN commits : Load(j, c)
       \/ PlanNext(j) \/ SkipNext(j) \/ PublishNext(j) \/ Verify(j) \/ Stop(j)
  \/ \E v \in DOMAIN tags : StartPromotion(v)
  \/ CheckStaged \/ PromoteNext \/ Confirm \/ CleanRead \/ CleanRemove \/ StopPromotion

-----------------------------------------------------------------------------
DependsOn == [core |-> {}, cli |-> {"core"}, legacyCore |-> {"core"}, legacyCli |-> {"cli"}]

(* A package on the registry can be installed: the exact versions it        *)
(* depends on are there, whatever job published them, wherever a job        *)
(* stopped and whichever job went on.                                       *)
DependenciesFirst == \A p \in Packages : \A e \in registry[p] : \A d \in DependsOn[p] : Published(d, e.version)

(* A version on the registry comes from one commit, the one its tag names,  *)
(* whose four files carry that version and which was integrated; and, when  *)
(* no tarball was replaced after the check, from a preparation that         *)
(* validated it.                                                            *)
OneSource == \A p \in Packages : \A e \in registry[p] :
  /\ Tagged(e.version) = e.commit /\ Integrated(e.version, e.commit)
  /\ \A q \in Packages : commits[e.commit][q] = e.version
  /\ late \/ e.bytes # 0

(* A version that is being made latest is on the registry as a whole, so    *)
(* that the promotion stops half-way only if it is stopped.                 *)
PromotedIsWhole ==
  promotion.at \in {"promoting", "confirming", "cleaning", "released"} =>
    \A p \in Packages : Published(p, promotion.version)

(* What the release planner announces is what the bump writes.              *)
PlanIsBump == \A type \in {"patch", "minor", "major", "beta", "rc", "promote"} :
  LET planned == Planned(tree["cli"], type) IN planned # None => planned = Bumped(tree["cli"], type)
=============================================================================
