---------------------------- MODULE TemplateFetch ----------------------------
(***************************************************************************)
(* The spec templates of the init command: how it picks a template or a    *)
(* registry (commands/init.ts), how a download is made and what a failed   *)
(* one leaves (utils/template-fetcher.ts), and the blank templates written *)
(* where nothing was downloaded (configurators/workflow.ts).  There are    *)
(* two places a template goes to: "spec", the directory .pactile/spec, and *)
(* "pkg", the directory of a package of a monorepo below it.               *)
(*                                                                          *)
(* giget, which downloads over HTTP, cannot be cancelled.  A download that *)
(* times out is abandoned and goes on; it is external here: it fetches the *)
(* archive, refuses a destination that is not empty, and then extracts one *)
(* file after the other for as long as its directory exists.               *)
(***************************************************************************)
EXTENDS Naturals

CONSTANTS
    None,
    Layout,         \* [place -> paths of the template]
    Blank,          \* [place -> paths of the blank templates]
    Options,        \* the command lines
    MaxRuns, MaxEdits           \* bounds

Places == {"spec", "pkg"}
Strategies == {"skip", "overwrite", "append"}

\* What an index probe says: templates (the wanted one, or others only), an
\* index without any, no index, or one of the errors.
Answers == {"listed", "others", "empty", "missing", "auth", "garbled", "network"}

Paths == UNION {Layout[d] \cup Blank[d] : d \in Places}
Below(d) == IF d = "spec" THEN Paths ELSE Layout["pkg"] \cup Blank["pkg"]

VARIABLES
    tree,       \* [path -> None, "user", "template" or "blank"]
    there,      \* the directories that exist
    installed,  \* there is a .pactile directory
    run,        \* the init command, or the last one
    pull,       \* the download giget makes for it
    orphans,    \* downloads that timed out
    spent

fetchvars == <<tree, there, installed, run, pull, orphans, spent>>

Stopped == {"idle", "done", "failed"}
Idle == [at |-> "idle"]
FetchInit ==
    /\ tree = [p \in Paths |-> None]
    /\ there = {}
    /\ installed = FALSE
    /\ run = Idle
    /\ pull = None
    /\ orphans = {}
    /\ spent = [runs |-> 0, edits |-> 0]

At(step) == run.at = step
Go(step) == run' = [run EXCEPT !.at = step]
Exists(d) == d \in there
Made(d) == there \cup {"spec", d}
NonEmpty(d) == \E p \in Below(d) : tree[p] # None
Without(d) == [p \in Paths |-> IF p \in Below(d) THEN None ELSE tree[p]]
Removed(d) == IF d = "spec" THEN {} ELSE there \ {d}
With(p, content) == [tree EXCEPT ![p] = content]

-----------------------------------------------------------------------------
(* The command: the user's edits between two of them, the packages of a     *)
(* monorepo, the choice of a template.                                      *)

Edit(p) ==
    /\ run.at \in Stopped /\ orphans = {} /\ installed
    /\ spent.edits < MaxEdits
    /\ tree' = With(p, "user")
    /\ there' = Made(IF p \in Below("pkg") THEN "pkg" ELSE "spec")
    /\ spent' = [spent EXCEPT !.edits = @ + 1]
    /\ UNCHANGED <<installed, run, pull, orphans>>

\* The process ends when nothing is pending any more, downloads included.
Begin(o) ==
    /\ run.at \in Stopped /\ orphans = {}
    /\ spent.runs < MaxRuns
    /\ run' = [at |-> IF o.monorepo THEN "packages" ELSE "choose",
               o |-> o, first |-> ~installed, registry |-> o.registry,
               strategy |-> o.strategy, backend |-> "http", index |-> None,
               dest |-> "spec", got |-> {}, abandoned |-> FALSE]
    /\ spent' = [spent EXCEPT !.runs = @ + 1]
    /\ UNCHANGED <<tree, there, installed, pull, orphans>>

\* Ctrl-C, or an error of the part of init that is not modelled here.
Kill ==
    /\ run.at \notin Stopped
    /\ Go("failed")
    /\ pull' = None /\ orphans' = {}
    /\ UNCHANGED <<tree, there, installed, spent>>

Listed(answer) == answer \in {"listed", "others"}

\* probeRegistryIndex: a private registry is asked through git, gitlab is
\* asked again through git when the page asks for a login.
Probe(registry, http, git) ==
    IF registry = "private" \/ (registry = "gitlab" /\ http \in {"auth", "garbled"})
    THEN [answer |-> git, backend |-> "git"]
    ELSE [answer |-> http, backend |-> "http"]

Probes(registry) == {Probe(registry, h, g) : h \in Answers, g \in Answers}

\* fetchTemplateIndex: every failure is an empty index.
Fetched == {[answer |-> a, backend |-> "http"] : a \in {"listed", "others", "empty"}}

Indexes(registry) == IF registry = None THEN Fetched ELSE Probes(registry)

Fetch(dest, strategy, registry, index) ==
    run' = [run EXCEPT !.at = "decide", !.dest = dest, !.index = index.answer,
                       !.strategy = strategy, !.registry = registry, !.backend = index.backend]

\* A package takes the blank spec, or a template of the official index.
PickPackage ==
    /\ At("packages") /\ ~run.o.template /\ ~run.o.yes
    /\ \/ Go("direct")
       \/ Fetch("pkg", run.strategy, run.registry, [answer |-> "listed", backend |-> "http"])
    /\ UNCHANGED <<tree, there, installed, pull, orphans, spent>>

\* --template is the default of all packages, from the registry if one is given.
TemplatePackage ==
    /\ At("packages") /\ run.o.template
    /\ \E index \in Indexes(run.registry) :
         IF index.answer = "listed"
         THEN Fetch("pkg", run.strategy, run.registry, index)
         ELSE Go("direct")
    /\ UNCHANGED <<tree, there, installed, pull, orphans, spent>>

BlankPackage ==
    /\ At("packages") /\ ~run.o.template /\ run.o.yes
    /\ Go("direct")
    /\ UNCHANGED <<tree, there, installed, pull, orphans, spent>>

\* The user is asked what to do with a spec directory that is there.
Asked ==
    IF ~run.o.yes /\ run.o.strategy = "skip" /\ Exists("spec") THEN Strategies ELSE {run.strategy}

\* --template of a single repository: the index is read by the download.
TemplateByName ==
    /\ At("choose") /\ run.o.template
    /\ \E index \in Indexes(run.registry) :
         IF index.answer = "listed"
         THEN Fetch("spec", run.strategy, run.registry, index)
         ELSE Go("build")
    /\ UNCHANGED <<tree, there, installed, pull, orphans, spent>>

\* A registry without --template: an index lets the user pick, no index means
\* that the registry is itself the spec, and an error ends the command.
NoIndex(answer) == answer = "missing"

FromRegistry ==
    /\ At("choose") /\ ~run.o.template /\ run.registry # None
    /\ \E index \in Probes(run.registry) :
         CASE Listed(index.answer) /\ run.o.yes -> Go("failed")
           [] index.answer = "others" /\ ~run.o.yes -> Go("build")
           [] index.answer = "listed" /\ ~run.o.yes ->
                \E s \in Asked : Fetch("spec", s, run.registry, index)
           [] NoIndex(index.answer) ->
                run' = [run EXCEPT !.at = "direct", !.backend = index.backend, !.index = index.answer]
           [] OTHER -> Go("failed")
    /\ UNCHANGED <<tree, there, installed, pull, orphans, spent>>

\* Without a registry: blank, a template of the official index, or, when that
\* could be read, a registry the user types in.  An error of the typed one
\* leads back to the question.
FromOfficial ==
    /\ At("choose") /\ ~run.o.template /\ run.registry = None
    /\ \/ Go("build")
       \/ /\ ~run.o.yes
          /\ \E s \in Asked :
               Fetch("spec", s, None, [answer |-> "listed", backend |-> "http"])
       \/ /\ ~run.o.yes
          /\ \E registry \in {o.registry : o \in Options} \ {None} :
             \E index \in Probes(registry) :
               CASE index.answer = "listed" ->
                      \E s \in Asked : Fetch("spec", s, registry, index)
                 [] index.answer = "others" -> Go("build")
                 [] NoIndex(index.answer) ->
                      run' = [run EXCEPT !.at = "direct", !.registry = registry,
                                         !.backend = index.backend, !.index = index.answer]
                 [] OTHER -> UNCHANGED run
    /\ UNCHANGED <<tree, there, installed, pull, orphans, spent>>

\* The registry itself is the spec.  A monorepo comes here without any probe.
Direct ==
    /\ At("direct")
    /\ IF run.registry = None
       THEN Go("build")
       ELSE \E s \in Asked :
              run' = [run EXCEPT !.at = "decide", !.dest = "spec", !.strategy = s,
                                 !.backend = IF ~run.o.monorepo THEN @
                                             ELSE IF run.registry = "private" THEN "git" ELSE "http"]
    /\ UNCHANGED <<tree, there, installed, pull, orphans, spent>>

-----------------------------------------------------------------------------
(* One download: downloadTemplateById and downloadRegistryDirect.           *)

After == IF run.dest = "pkg" THEN "direct" ELSE "build"
\* A package that was skipped counts as downloaded when the user picked it,
\* not when --template did.
Skipped ==
    run' = [run EXCEPT !.at = After,
                       !.got = IF run.dest = "pkg" /\ ~run.o.template THEN @ \cup {"pkg"} ELSE @]
Succeeded == run' = [run EXCEPT !.at = After, !.got = @ \cup {run.dest}]
\* Init falls back to the blank templates.
Failed == Go(After)

Decide ==
    /\ At("decide")
    /\ IF run.strategy = "skip" /\ Exists(run.dest)
       THEN Skipped
       ELSE Go(IF run.backend = "git" THEN "clone" ELSE "prepare")
    /\ UNCHANGED <<tree, there, installed, pull, orphans, spent>>

Pull(to) == pull' = [to |-> to, stage |-> "asked", left |-> {}]

\* downloadWithStrategy: overwrite removes what is there before it asks,
\* append goes to a temporary directory first.
Prepare ==
    /\ At("prepare")
    /\ Go("pull")
    /\ IF Exists(run.dest) /\ run.strategy = "append"
       THEN Pull("temp") /\ UNCHANGED <<tree, there>>
       ELSE /\ Pull(run.dest)
            /\ tree' = IF Exists(run.dest) THEN Without(run.dest) ELSE tree
            /\ there' = IF Exists(run.dest) THEN Removed(run.dest) ELSE there
    /\ UNCHANGED <<installed, orphans, spent>>

\* giget has the archive and looks at the destination.
Extract ==
    /\ At("pull") /\ pull.stage = "asked"
    /\ pull.to = "temp" \/ ~NonEmpty(pull.to)
    /\ pull' = [pull EXCEPT !.stage = "extracting",
                            !.left = IF pull.to = "temp" THEN {} ELSE Layout[pull.to]]
    /\ IF pull.to = "temp" THEN UNCHANGED <<there, installed>>
       ELSE there' = Made(pull.to) /\ installed' = TRUE
    /\ UNCHANGED <<tree, run, orphans, spent>>

ExtractFile(p) ==
    /\ At("pull") /\ pull.stage = "extracting" /\ p \in pull.left
    /\ tree' = With(p, "template")
    /\ pull' = [pull EXCEPT !.left = @ \ {p}]
    /\ UNCHANGED <<there, installed, run, orphans, spent>>

Pulled ==
    /\ At("pull") /\ pull.stage = "extracting" /\ pull.left = {}
    /\ IF pull.to = "temp" THEN Go("merge") ELSE Succeeded
    /\ pull' = None
    /\ UNCHANGED <<tree, there, installed, orphans, spent>>

\* No network, a destination in use, an archive that breaks off: whatever was
\* extracted stays.
PullBreaks ==
    /\ At("pull")
    /\ Failed
    /\ pull' = None
    /\ UNCHANGED <<tree, there, installed, orphans, spent>>

\* Mutant: the race is settled by the timer and nobody rejects.
TimesOutQuietly ==
    /\ At("pull")
    /\ pull' = None
    /\ Succeeded
    /\ tree' = IF pull.to = "temp" THEN tree ELSE Without(pull.to)
    /\ there' = IF pull.to = "temp" THEN there ELSE Removed(pull.to)
    /\ UNCHANGED <<installed, orphans, spent>>

\* The 30 seconds are over.  The directory is removed and the download goes on.
TimesOut ==
    /\ At("pull")
    /\ pull' = None
    /\ IF pull.to = "temp"
       THEN Failed /\ UNCHANGED <<tree, there, orphans>>
       ELSE /\ run' = [run EXCEPT !.at = After, !.abandoned = TRUE]
            /\ tree' = Without(pull.to)
            /\ there' = Removed(pull.to)
            /\ orphans' = orphans \cup {pull}
    /\ UNCHANGED <<installed, spent>>

\* copyMissing, one file at a time.
Merge(p) ==
    /\ At("merge") /\ p \in Layout[run.dest] /\ tree[p] = None
    /\ tree' = With(p, "template")
    /\ there' = Made(run.dest)
    /\ UNCHANGED <<installed, run, pull, orphans, spent>>

Merged ==
    /\ At("merge")
    /\ \A p \in Layout[run.dest] : tree[p] # None
    /\ Succeeded
    /\ UNCHANGED <<tree, there, installed, pull, orphans, spent>>

CopyBreaks ==
    /\ run.at \in {"merge", "clone", "copy"}
    /\ Failed
    /\ pull' = None
    /\ UNCHANGED <<tree, there, installed, orphans, spent>>

\* copyDirectoryWithStrategy, once the registry is cloned.  It looks at the
\* directory once more; that it then skips is not reported.
Cloned ==
    /\ At("clone")
    /\ CASE Exists(run.dest) /\ run.strategy = "skip" ->
              Succeeded /\ UNCHANGED <<tree, there, installed, pull>>
         [] Exists(run.dest) /\ run.strategy = "append" ->
              Go("merge") /\ UNCHANGED <<tree, there, installed, pull>>
         [] OTHER ->
              /\ Go("copy")
              /\ tree' = IF Exists(run.dest) THEN Without(run.dest) ELSE tree
              /\ there' = Made(run.dest) /\ installed' = TRUE
              /\ pull' = [to |-> run.dest, stage |-> "copying", left |-> Layout[run.dest]]
    /\ UNCHANGED <<orphans, spent>>

Copy(p) ==
    /\ At("copy") /\ p \in pull.left
    /\ tree' = With(p, "template")
    /\ pull' = [pull EXCEPT !.left = @ \ {p}]
    /\ UNCHANGED <<there, installed, run, orphans, spent>>

Copied ==
    /\ At("copy") /\ pull.left = {}
    /\ Succeeded
    /\ pull' = None
    /\ UNCHANGED <<tree, there, installed, orphans, spent>>

-----------------------------------------------------------------------------
(* A download that was abandoned.                                           *)

OrphanExtracts(d) ==
    /\ d \in orphans /\ d.stage = "asked" /\ ~NonEmpty(d.to)
    /\ orphans' = (orphans \ {d}) \cup {[d EXCEPT !.stage = "extracting", !.left = Layout[d.to]]}
    /\ there' = Made(d.to) /\ installed' = TRUE
    /\ UNCHANGED <<tree, run, pull, spent>>

OrphanWrites(d, p) ==
    /\ d \in orphans /\ d.stage = "extracting" /\ p \in d.left
    /\ Exists(d.to)
    /\ tree' = With(p, "template")
    /\ orphans' = (orphans \ {d}) \cup {[d EXCEPT !.left = @ \ {p}]}
    /\ UNCHANGED <<there, installed, run, pull, spent>>

\* It has written everything, or it fails.
OrphanEnds(d) ==
    /\ d \in orphans
    /\ orphans' = orphans \ {d}
    /\ UNCHANGED <<tree, there, installed, run, pull, spent>>

-----------------------------------------------------------------------------
(* The rest of init: the build root, the lifecycle, and, on a first init,   *)
(* the publication of the spec skeleton.                                    *)

\* createSpecTemplates in the build root.
Prepared ==
    IF run.o.monorepo
    THEN Blank["spec"] \cup (IF "pkg" \in run.got THEN {} ELSE Blank["pkg"])
    ELSE IF "spec" \in run.got THEN {} ELSE Blank["spec"]

Build ==
    /\ At("build")
    /\ installed' = TRUE
    /\ Go("publish")
    /\ UNCHANGED <<tree, there, pull, orphans, spent>>

Conflicts == {p \in Prepared : tree[p] \notin {None, "blank"}}

\* materializePreparedLegacyUserState refuses a file that is there and differs.
Publish ==
    /\ At("publish") /\ (run.first => Conflicts = {})
    /\ IF run.first
       THEN /\ tree' = [p \in Paths |-> IF p \in Prepared THEN "blank" ELSE tree[p]]
            /\ there' = there \cup {"spec"} \cup (IF Prepared \cap Below("pkg") # {} THEN {"pkg"} ELSE {})
       ELSE UNCHANGED <<tree, there>>
    /\ Go("done")
    /\ UNCHANGED <<installed, pull, orphans, spent>>

\* The files before the conflict are published.
PublishStops ==
    /\ At("publish") /\ run.first /\ Conflicts # {}
    /\ \E done \in SUBSET (Prepared \ Conflicts) :
         tree' = [p \in Paths |-> IF p \in done THEN "blank" ELSE tree[p]]
    /\ Go("failed")
    /\ UNCHANGED <<there, installed, pull, orphans, spent>>

FetchNext ==
    \/ \E p \in Paths : Edit(p) \/ ExtractFile(p) \/ Merge(p) \/ Copy(p)
    \/ \E o \in Options : Begin(o)
    \/ Kill \/ PickPackage \/ TemplatePackage \/ BlankPackage
    \/ TemplateByName \/ FromRegistry \/ FromOfficial \/ Direct
    \/ Decide \/ Prepare \/ Extract \/ Pulled \/ PullBreaks \/ TimesOut
    \/ Merged \/ CopyBreaks \/ Cloned \/ Copied
    \/ \E d \in orphans : OrphanExtracts(d) \/ OrphanEnds(d) \/ \E p \in Paths : OrphanWrites(d, p)
    \/ Build \/ Publish \/ PublishStops

-----------------------------------------------------------------------------
(* Properties                                                               *)

Whole(d) == \A p \in Layout[d] : tree[p] # None
Running == run.at \notin {"idle", "failed"}

\* In a single repository a template that init says it has downloaded is there
\* with all its files, however the download went and whatever was there, and a
\* first init that ends well leaves a spec: a whole template, or the whole
\* blank one.  (A download that was given up may still spoil either.)
LeavesSpec ==
    (Running /\ ~run.o.monorepo /\ ~run.abandoned) =>
        /\ "spec" \in run.got => Whole("spec")
        /\ (At("done") /\ run.first) => Whole("spec") \/ \A p \in Blank["spec"] : tree[p] # None

\* What the user wrote below .pactile/spec is only ever lost to an overwrite:
\* no failed, timed out or abandoned download, no merge and no blank template
\* takes it.
UserFilesKept ==
    [][\A p \in Paths : tree[p] = "user" =>
          tree'[p] = "user" \/ (Running /\ run.strategy = "overwrite")]_fetchvars

\* Init takes a registry for the spec itself only when it was told that the
\* registry has no index, never because the network or the login failed
\* (init.ts: "abort, don't misclassify as direct-download").  A monorepo is
\* excepted: it comes to the direct download without a probe.
DirectOnlyWithoutIndex ==
    (Running /\ ~run.o.monorepo /\ At("direct")) => run.index = "missing"
=============================================================================
