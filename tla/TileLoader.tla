----------------------------- MODULE TileLoader -----------------------------
(***************************************************************************)
(* loadTileDirectory (cli/src/pactile/tiles/loader.ts): it reads the two   *)
(* files of a tile from a directory that others may edit, or replace, all  *)
(* the while.  The text of a file is its two halves.                       *)
(***************************************************************************)
EXTENDS Naturals, Sequences, SequencesExt, TLC

CONSTANTS None, MaxEdits

VARIABLES
  dir,      \* the directory: its node and its two files [node, stamp, text]
  past,     \* every text a file has had, with the directory it had it in
  edits,
  load,     \* the loader: where it is, what it saw, what it has read
  loaded    \* the texts loadTileDirectory returned, or None

-----------------------------------------------------------------------------
(* Those who change what is loaded: a change gives a file a stamp it never  *)
(* had (its size and times).                                                *)
Names == <<"tile.yaml", "SKILL.md">>
Seen(name) == [root |-> dir.node, name |-> name, text |-> dir.files[name].text]

Opens == [root : Nat, node : Nat, stamp : Nat, text : Seq(Nat)]

\* The open file: the one on disk, until another takes its name.
OpenNow ==
  LET f == dir.files[Names[load.file]] IN
  IF dir.node = load.held.root /\ f.node = load.held.node
    THEN [root |-> dir.node, node |-> f.node, stamp |-> f.stamp, text |-> f.text]
    ELSE load.held

Kept == IF load.held = None THEN load ELSE [load EXCEPT !.held = OpenNow]

Put(d, names) ==
  /\ edits < MaxEdits /\ edits' = edits + 1
  /\ dir' = d /\ load' = Kept /\ UNCHANGED loaded
  /\ past' = past \cup {[root |-> d.node, name |-> n, text |-> d.files[n].text] : n \in names}

New == [node |-> edits + 1, stamp |-> edits + 1, text |-> <<edits + 1, edits + 1>>]

HalfEdited(name, half) ==
  LET f == dir.files[name]
      text == [f.text EXCEPT ![half] = edits + 1]
  IN [f EXCEPT !.stamp = edits + 1, !.text = text]
EditHalf(name, half) == Put([dir EXCEPT !.files[name] = HalfEdited(name, half)], {name})

Replace(name) == Put([dir EXCEPT !.files[name] = New], {name})

ReplaceRoot == Put([node |-> edits + 1, files |-> [n \in ToSet(Names) |-> New]], ToSet(Names))

NotLoading == [at |-> "idle", file |-> 1, root |-> 0, stat |-> None, stamp |-> 0,
               held |-> None, text |-> <<>>, got |-> <<>>]

\* lstat of the directory, and its two names.
StartLoad ==
  /\ load.at = "idle"
  /\ load' = [NotLoading EXCEPT !.at = "stat", !.root = dir.node]
  /\ UNCHANGED <<dir, past, edits, loaded>>

StatFile ==
  /\ load.at = "stat"
  /\ load' = [load EXCEPT !.stat = dir.files[Names[load.file]].node, !.at = "open"]
  /\ UNCHANGED <<dir, past, edits, loaded>>

\* Open it, and see that it and its directory are the ones that were seen.
OpenFile ==
  /\ load.at = "open"
  /\ LET f == dir.files[Names[load.file]] IN
     load' = [load EXCEPT !.at = "check", !.stamp = f.stamp,
                !.held = [root |-> dir.node, node |-> f.node, stamp |-> f.stamp, text |-> f.text]]
  /\ UNCHANGED <<dir, past, edits, loaded>>

CheckFile ==
  /\ load.at = "check"
  /\ load' = IF load.held.node = load.stat /\ dir.node = load.root
               THEN [load EXCEPT !.at = "read", !.text = <<>>]
               ELSE NotLoading
  /\ UNCHANGED <<dir, past, edits, loaded>>

ReadHalf ==
  /\ load.at = "read" /\ Len(load.text) < 2
  /\ load' = [load EXCEPT !.text = Append(@, OpenNow.text[Len(@) + 1])]
  /\ UNCHANGED <<dir, past, edits, loaded>>

\* Mutant: the file is not looked at again.
UnchangedSinceNever(stamp) == TRUE

UnchangedSince(stamp) == OpenNow.stamp = stamp

EndFile ==
  /\ load.at = "read" /\ Len(load.text) = 2
  /\ IF UnchangedSince(load.stamp)
       THEN LET got == Append(load.got, [root |-> load.held.root, name |-> Names[load.file],
                                         text |-> load.text]) IN
            IF load.file = 2 THEN loaded' = got /\ load' = NotLoading
            ELSE /\ load' = [load EXCEPT !.file = 2, !.at = "stat", !.held = None, !.got = got]
                 /\ UNCHANGED loaded
       ELSE load' = NotLoading /\ UNCHANGED loaded
  /\ UNCHANGED <<dir, past, edits>>

-----------------------------------------------------------------------------
LoadInit ==
  /\ dir = [node |-> 0, files |-> [n \in ToSet(Names) |->
              [node |-> 0, stamp |-> 0, text |-> <<0, 0>>]]]
  /\ past = {[root |-> 0, name |-> n, text |-> <<0, 0>>] : n \in ToSet(Names)}
  /\ edits = 0 /\ load = NotLoading /\ loaded = None

LoadNext ==
  \/ \E name \in ToSet(Names) : Replace(name) \/ \E half \in {1, 2} : EditHalf(name, half)
  \/ ReplaceRoot
  \/ StartLoad \/ StatFile \/ OpenFile \/ CheckFile \/ ReadHalf \/ EndFile

-----------------------------------------------------------------------------
(* A tile that loads is made of texts its two files had, each at one        *)
(* moment, in one directory, however they were edited and replaced while    *)
(* they were read.                                                          *)
LoadedIsReal == loaded # None =>
  /\ ToSet(loaded) \subseteq past
  /\ loaded[1].root = loaded[2].root
==============================================================================
