-------------------------- MODULE ArtifactMigration --------------------------
(***************************************************************************)
(* The optional deepening of old tasks (core/src/task/p36-artifact-migrate *)
(* and contract-migrate): update scans the task records and the pool       *)
(* items, asks, and much later writes what the records lack - controls,    *)
(* topology, dependency graph; a pool item its priority - one file after   *)
(* the other; a failure puts back what was there.  The kernel's commands   *)
(* and the authors write the same files all the while, and the process may *)
(* be killed.                                                              *)
(*                                                                         *)
(* A file is None where there is none; one that is not a JSON object is    *)
(* Corrupt.  body stands for all the rest of a file.                       *)
(***************************************************************************)
EXTENDS Naturals, Sequences, FiniteSets

CONSTANTS
  None, Corrupt,
  TaskNames, Bodies, \* of tasks; what stands for the rest of a file
  Listed,            \* the paths of the tasks and of the pool, in their order
  Pool, Archived,    \* the ones among them in the pool, in the archive
  Contents,          \* Contents[f]: what f may hold
  MaxWrites          \* writes by others

VARIABLES
  docs,      \* path -> content
  run,       \* [pc, left, plan, before]: the update
  kept,      \* <<path, content>> snapshots, in the order they were taken
  disturbed, \* history: someone else wrote a file since the scan
  writes     \* writes by others so far

Idle == [pc |-> "idle", left |-> {}, plan |-> <<>>, before |-> None]

Paths == {Listed[i] : i \in DOMAIN Listed}

\* What a record and a pool item hold, of whatever age.
Shapes == [kind : {"single", "parent-child"}, parent : TaskNames \cup {None}, children : SUBSET TaskNames]
Records == [body : Bodies, hint : {"full", None}, controls : {"full", "lite", None},
            topology : Shapes \cup {None}, parent : TaskNames \cup {None}, children : SUBSET TaskNames,
            depends : SUBSET TaskNames, graph : (SUBSET TaskNames) \cup {None}]
Items == [priority : BOOLEAN, body : Bodies]

-----------------------------------------------------------------------------
(* The scan.                                                                *)
KindOf(children) == IF children = {} THEN "single" ELSE "parent-child"

\* inferLegacyRigor of the retired fields
RigorOf(task) == IF task.hint = "full" THEN "full" ELSE "lite"

\* defaultTopology and repairMisclassifiedTopology: what the record should have.
TopologyOf(task) ==
  LET t == IF task.topology = None THEN [kind |-> None, parent |-> None, children |-> {}]
           ELSE task.topology
      children == t.children \cup task.children
  IN IF t.kind = KindOf(children) THEN t
     ELSE [kind |-> KindOf(children), children |-> children,
           parent |-> IF t.parent = None THEN task.parent ELSE t.parent]

Taking(task, controls, topology, graph) ==
  [task EXCEPT !.controls = controls, !.topology = topology, !.graph = graph]

GraphOf(task) == IF task.graph = None /\ task.depends # {} THEN task.depends ELSE task.graph

Deepened(task) ==
  Taking(task, IF task.controls = None THEN RigorOf(task) ELSE task.controls, TopologyOf(task), GraphOf(task))

Readable(f) == docs[f] \notin {None, Corrupt}

\* projectPoolPriority
Prioritized(item) == [item EXCEPT !.priority = TRUE]

\* planArtifactMigration: the files that lack something, and what they lack.
Lacks(f) ==
  /\ f \notin Archived /\ Readable(f)
  /\ docs[f] # (IF f \in Pool THEN Prioritized(docs[f]) ELSE Deepened(docs[f]))

\* An item of the pool is planned as the text it will have.
Target(f) ==
  IF f \in Pool THEN [text |-> Prioritized(docs[f]), controls |-> None, topology |-> None, graph |-> None]
  ELSE LET d == Deepened(docs[f])
           Changed(old, new) == IF old = new THEN None ELSE new
       IN [text |-> None, controls |-> Changed(docs[f].controls, d.controls),
           topology |-> Changed(docs[f].topology, d.topology),
           graph |-> Changed(docs[f].graph, d.graph)]

Lacking == {f \in DOMAIN docs : Lacks(f)}
Planned == [f \in Lacking |-> Target(f)]

\* scanContractMigration: what still rests on the old fields.
Findings(f) ==
  LET task == docs[f]
      Kind(is, kind) == IF is THEN {kind} ELSE {}
  IN IF task \in {None, Corrupt} THEN Kind(task = Corrupt, "retired-field")
     ELSE Kind(task.hint # None, "retired-field")
          \cup Kind(task.parent # None
                      /\ (task.topology = None \/ task.topology.parent # task.parent), "legacy-parent")
          \cup Kind(task.children # {}
                      /\ (task.topology = None \/ task.topology.kind # "parent-child"),
                    "children-inferred-parent")

-----------------------------------------------------------------------------
(* The update.                                                              *)
Scan ==
  /\ run.pc = "idle" /\ Lacking # {}
  /\ run' = [pc |-> "planned", left |-> Lacking, plan |-> Planned, before |-> docs]
  /\ disturbed' = FALSE /\ UNCHANGED <<docs, kept, writes>>

\* After the prompt.
Confirm == /\ run.pc = "planned" /\ run' = [run EXCEPT !.pc = "applying"]
           /\ UNCHANGED <<docs, kept, disturbed, writes>>

Decline == /\ run.pc = "planned" /\ run' = Idle
           /\ UNCHANGED <<docs, kept, disturbed, writes>>

\* writeArtifactTarget: a task is loaded again, an item of the pool is not.
Written(f, content, target) ==
  IF f \in Pool THEN target.text
  ELSE LET Now(new, old) == IF new = None THEN old ELSE new
       IN Taking(content, Now(target.controls, content.controls),
                 Now(target.topology, content.topology), Now(target.graph, content.graph))

\* The files are written in their order.
Place(f) == CHOOSE i \in DOMAIN Listed : Listed[i] = f
Due(f) == run.pc = "applying" /\ f \in run.left /\ \A g \in run.left : Place(f) <= Place(g)

WriteNext(f) ==
  /\ Due(f) /\ docs[f] # None /\ (docs[f] = Corrupt => f \in Pool)
  /\ kept' = Append(kept, <<f, docs[f]>>)
  /\ docs' = [docs EXCEPT ![f] = Written(f, docs[f], run.plan[f])]
  /\ run' = [run EXCEPT !.left = @ \ {f}] /\ UNCHANGED <<disturbed, writes>>

\* The file is gone, cannot be read, or the write fails part of the way.
WriteFails(f) ==
  /\ Due(f)
  /\ \/ docs[f] = None /\ UNCHANGED <<docs, kept>>
     \/ /\ docs[f] # None
        /\ kept' = Append(kept, <<f, docs[f]>>)
        /\ docs' \in {docs, [docs EXCEPT ![f] = Corrupt]}
  /\ run' = [run EXCEPT !.pc = "restoring"] /\ UNCHANGED <<disturbed, writes>>

\* Mutant: the last snapshot only.
RestoreLast ==
  /\ run.pc = "restoring" /\ kept # <<>>
  /\ docs' = [docs EXCEPT ![kept[Len(kept)][1]] = kept[Len(kept)][2]]
  /\ kept' = <<>>
  /\ UNCHANGED <<run, disturbed, writes>>

\* restoreSnapshots, the last one first
RestoreNext ==
  /\ run.pc = "restoring" /\ kept # <<>>
  /\ docs' = [docs EXCEPT ![kept[Len(kept)][1]] = kept[Len(kept)][2]]
  /\ kept' = SubSeq(kept, 1, Len(kept) - 1)
  /\ UNCHANGED <<run, disturbed, writes>>

Restored ==
  /\ run.pc = "restoring" /\ kept = <<>>
  /\ run' = [run EXCEPT !.pc = "failed"] /\ UNCHANGED <<docs, kept, disturbed, writes>>

Applied ==
  /\ run.pc = "applying" /\ run.left = {}
  /\ run' = [run EXCEPT !.pc = "done"] /\ kept' = <<>>
  /\ UNCHANGED <<docs, disturbed, writes>>

\* The user runs update again.
Leave == /\ run.pc \in {"done", "failed"} /\ run' = Idle
         /\ UNCHANGED <<docs, kept, disturbed, writes>>

Killed == /\ run.pc \in {"applying", "restoring"} /\ run' = Idle /\ kept' = <<>>
          /\ UNCHANGED <<docs, disturbed, writes>>

WriteByOther(f, content) ==
  /\ writes < MaxWrites /\ docs[f] # content
  /\ docs' = [docs EXCEPT ![f] = content]
  /\ writes' = writes + 1 /\ disturbed' = TRUE /\ UNCHANGED <<run, kept>>

-----------------------------------------------------------------------------
ArtifactInit ==
  /\ docs \in [Paths -> UNION {Contents[f] : f \in Paths}]
  /\ \A f \in DOMAIN docs : docs[f] \in Contents[f]
  /\ run = Idle /\ kept = <<>> /\ disturbed = FALSE /\ writes = 0

ArtifactNext ==
  \/ Scan \/ Confirm \/ Decline \/ RestoreNext \/ Restored \/ Applied \/ Leave \/ Killed
  \/ \E f \in DOMAIN docs : WriteNext(f) \/ WriteFails(f)
  \/ \E f \in DOMAIN docs : \E content \in Contents[f] : WriteByOther(f, content)

-----------------------------------------------------------------------------
(* An update whose files nobody else wrote does all or nothing: a failure   *)
(* leaves every file as it was; a success leaves nothing to plan, and the   *)
(* body, the parent and the children of every task and the archive as they  *)
(* were.                                                                    *)
AllOrNothing == ~disturbed =>
  /\ run.pc = "failed" => docs = run.before
  /\ run.pc = "done" =>
       /\ Lacking = {}
       /\ \A f \in DOMAIN docs \ Pool : Readable(f) =>
            /\ docs[f].body = run.before[f].body /\ docs[f].parent = run.before[f].parent
            /\ docs[f].children = run.before[f].children
       /\ \A f \in Archived : docs[f] = run.before[f]

(* After it, the old fields can be left unread as far as the children go:   *)
(* no task that has any is taken for a single one.                          *)
ChildrenAreNamed == run.pc = "done" /\ ~disturbed =>
  \A f \in DOMAIN docs \ (Pool \cup Archived) : "children-inferred-parent" \notin Findings(f)
=============================================================================
