------------------------------ MODULE MCUpdate ------------------------------
(***************************************************************************)
(* What init and update do to a project, side by side; part picks the one  *)
(* that moves while the others stay as they began:                          *)
(*   update     a host command file that version 2 renames and ships anew,  *)
(*              a canonical directory that it renames, a retired host file  *)
(*   install    a legacy tree with two contents, so that it can change      *)
(*              between two runs of init                                    *)
(*   templates  a template and a blank spec that share a file, both in the  *)
(*              spec directory and in that of a package                     *)
(***************************************************************************)
EXTENDS Update, TLC

Ship(old, new, dir, moved) ==
    ("old" :> old) @@ ("new" :> new) @@ ("kept" :> None) @@ ("dir" :> dir) @@ ("moved" :> moved)
TemplatesDef == <<Ship("o1", None, "d1", None), Ship(None, "n2", None, "m2")>>
Item(kind, from, to, allowed, known) ==
    [kind |-> kind, since |-> 2, from |-> from, to |-> to, allowed |-> allowed, known |-> known]
MigrationsDef ==
    <<Item("rename", "old", "new", {}, None),
      Item("safe-file-delete", "kept", None, {"k0"}, "k0"),
      Item("rename-dir", "dir", "moved", {}, None)>>

\* Of Install and of TemplateFetch.
CONSTANTS Legacies, Template, Mine, InstallRuns, InstallStops, InstallEdits,
          Layout, Blank, Options, FetchRuns, FetchEdits

VARIABLES
    part,
    legacy, exists, live, user, tasks, install, gens, migration, lifecycle, locks, init, stops,
    tree, there, installed, run, pull, orphans, runs

I == INSTANCE Install WITH
    MaxRuns <- InstallRuns, MaxStops <- InstallStops, MaxEdits <- InstallEdits,
    run <- init, spent <- stops

ASSUME InstallAssumption ==
    /\ Legacies \cap {Template, Mine, None} = {}
    /\ None \notin I!Before \cup I!After \cup {"completed"}
    /\ None \notin [op : {"canonical", "import"}, gen : Legacies]

\* A command line, asking or not, for the packages of a monorepo or not.
CommandLines ==
    [yes : BOOLEAN, template : BOOLEAN, strategy : {"skip", "overwrite", "append"},
     registry : {None, "gitlab", "private"}, monorepo : BOOLEAN]
LayoutDef == ("spec" :> {"r1", "r2"}) @@ ("pkg" :> {"p1", "p2"})
BlankDef == ("spec" :> {"r2", "g"}) @@ ("pkg" :> {"p1", "b"})

T == INSTANCE TemplateFetch WITH
    MaxRuns <- FetchRuns, MaxEdits <- FetchEdits, spent <- runs

ASSUME FetchAssumption ==
    /\ None \notin {"user", "template", "blank"}
    /\ \A o \in Options : o.strategy \in T!Strategies /\ o.monorepo \in BOOLEAN

installVars == <<legacy, exists, live, user, tasks, install, gens, migration, lifecycle, locks, init, stops>>
templateVars == <<tree, there, installed, run, pull, orphans, runs>>
projectVars == <<part, vars, installVars, templateVars>>

\* Of the two that rest, one initial state is enough.
ProjectInit ==
    /\ part \in {"update", "install", "templates"}
    /\ Init /\ I!Init /\ T!FetchInit
    /\ part # "update" => version = 2
    /\ part # "install" => ~exists /\ legacy = None

ProjectNext ==
    \/ part = "update" /\ Next /\ UNCHANGED <<part, installVars, templateVars>>
    \/ part = "install" /\ I!Next /\ UNCHANGED <<part, vars, templateVars>>
    \/ part = "templates" /\ T!FetchNext /\ UNCHANGED <<part, vars, installVars>>

ProjectSpec == ProjectInit /\ [][ProjectNext]_projectVars

(* An import is named and published only once it was sealed and committed,  *)
(* and a spec that init downloads is whole and comes from an index that was *)
(* answered for.                                                            *)
InstalledWhole ==
    /\ part = "install" => I!ImportStaged /\ I!PublishedAfterCommit
    /\ part = "templates" => T!LeavesSpec /\ T!DirectOnlyWithoutIndex

\* Neither an import nor a download takes what the user has in the project.
UserWorkKept == I!UserStateKept /\ T!UserFilesKept
=============================================================================
